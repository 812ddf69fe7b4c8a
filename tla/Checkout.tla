----------------------------- MODULE Checkout -----------------------------
(***************************************************************************)
(* Buying with IC: the cart, the checkout session that shows a total and   *)
(* is committed later, and the in-game shop's quote that is confirmed      *)
(* later.  Between the two the catalogue, the promotions, the servers, the *)
(* stock, the buyer's money and the buyer's other purchases may change.    *)
(* Commit and confirmation are one Serializable transaction each; creating *)
(* a session is several statements, so it first reads (a draft) and then   *)
(* evaluates the promotions and writes.                                    *)
(*                                                                         *)
(* price stands for every column of a product the commit compares with the *)
(* snapshot, and a server's state for all it must have to take a delivery. *)
(* The cart rows are taken to come back in one order.  Buyers are linked   *)
(* to Steam.                                                               *)
(***************************************************************************)
EXTENDS Promotions

CONSTANTS
  Users,
  Products,
  Servers,
  Places,       \* the pairs <<product, server>> a cart may hold a line for
  Sessions,     \* checkout sessions, by user and idempotency key
  OwnerOf,      \* the user of each
  Quotes,       \* quotes of the in-game shop
  Counted,      \* the products whose stock is not null
  MaxPerUser,   \* limit of each product, or NoLimit
  Prices,
  Supply,       \* the stock of a counted product at first, bound of later ones
  Funds,        \* each buyer's balance at first
  ListPrice,    \* what each product costs at first
  MaxUnits,     \* bound: units in the cart of each user
  Players,      \* the users who buy in the game
  QuoteServer,  \* the server the in-game shop is used on
  MaxQuoted,    \* bound: units in a quote
  MaxDrafts,    \* bound: sessions being created at a time
  MaxChanges    \* bound: changes by administrators and schedules

ASSUME CheckoutAssumption ==
  /\ IsFiniteSet(Sessions) /\ IsFiniteSet(Quotes) /\ IsFiniteSet(Places)
  /\ Users # {}
  /\ Places \subseteq Products \X Servers
  /\ Players \subseteq Users /\ QuoteServer \in Servers
  /\ OwnerOf \in [Sessions -> Users]
  /\ Sessions \cap Quotes = {}
  /\ Counted \subseteq Products
  /\ MaxPerUser \in [Products -> Nat \cup {NoLimit}]
  /\ Prices \subseteq Nat
  /\ Supply \in Nat /\ Funds \in Nat
  /\ ListPrice \in [Products -> Prices]
  /\ MaxUnits \in [Users -> Nat] /\ MaxQuoted \in Nat
  /\ MaxDrafts \in Nat /\ MaxChanges \in Nat

Offers == Sessions \cup Quotes

AtMost(n, limit) == limit # NoLimit => n <= limit

VARIABLES
  cart,       \* quantity of each line of each user's cart, 0: no such line
  price,      \* what the product costs now
  stock,      \* Product.stock of the counted products
  onSale,     \* Product.isActive
  state,      \* of each server, see ServerStates
  live,       \* campaigns and vouchers that are active and in their window
  drafts,     \* sessions being created: what was read of the cart
  offer,      \* CheckoutSession and GamePurchaseQuote rows
  orders,     \* for each offer its orders, one per line
  balance,    \* the available account
  taken,      \* what the ledger posting of each offer took; 0: none
  redeemed,   \* PromotionRedemption rows
  supply,     \* history: units of each counted product put up for sale
  changes

shopVars == <<price, onSale, state, live>>
salesVars == <<orders, balance, taken, redeemed>>
vars == <<cart, stock, supply, shopVars, drafts, offer, salesVars, changes>>

Statuses == {"none", "pending", "completed", "expired"}
OrderStatuses == {"placed", "refunded"}

\* closed: not available to the web shop, or without a credential; down: not
\* active, draining, or without a capability it needs.
ServerStates == {"open", "closed", "down"}

Line == [product : Products, server : Servers, quantity : Nat \ {0}, price : Prices]

NoOffer == [status |-> "none", user |-> CHOOSE u \in Users : TRUE,
            lines |-> <<>>, codes |-> {}, total |-> 0]

TypeOK ==
  /\ cart \in [Users -> [Places -> Nat]]
  /\ price \in [Products -> Prices]
  /\ stock \in [Counted -> Int]
  /\ onSale \subseteq Products /\ state \in [Servers -> ServerStates]
  /\ live \subseteq Campaigns \cup Vouchers
  /\ \A d \in drafts :
       d.key \in Sessions /\ d.lines \in Seq(Line) /\ d.codes \subseteq Vouchers
  /\ \A x \in Offers :
       /\ offer[x].status \in Statuses /\ offer[x].user \in Users
       /\ offer[x].lines \in Seq(Line) /\ offer[x].codes \subseteq Vouchers
       /\ offer[x].total \in Nat
       /\ orders[x] \in Seq([status : OrderStatuses, total : Int])
  /\ balance \in [Users -> Nat]
  /\ taken \in [Offers -> Nat]
  /\ \A r \in redeemed : r.of \in Sessions /\ r.campaign \in Campaigns /\ r.gives \in Nat
  /\ supply \in [Counted -> Int]
  /\ changes \in 0 .. MaxChanges

Init ==
  /\ cart = [u \in Users |-> [w \in Places |-> 0]]
  /\ price = ListPrice
  /\ stock = [p \in Counted |-> Supply]
  /\ onSale = Products /\ state = [sv \in Servers |-> "open"]
  /\ live = Campaigns \cup Vouchers
  /\ drafts = {}
  /\ offer = [x \in Offers |-> NoOffer]
  /\ orders = [x \in Offers |-> <<>>]
  /\ balance = [u \in Users |-> Funds]
  /\ taken = [x \in Offers |-> 0]
  /\ redeemed = {}
  /\ supply = [p \in Counted |-> Supply]
  /\ changes = 0

-----------------------------------------------------------------------------
(* Checks shared by the handlers                                            *)

Quantities(lines) == [l \in DOMAIN lines |-> lines[l].quantity]

\* Units of product p in the orders that pass the test.
Units(p, Test(_, _)) ==
  SumFunction([x \in Offers |->
    SumFunctionOnSet(Quantities(offer[x].lines),
                     {l \in DOMAIN orders[x] : offer[x].lines[l].product = p /\ Test(x, l)})])

Sold(p) == Units(p, LAMBDA x, l : TRUE)

\* What the user has bought and not had refunded.
Bought(u, p) ==
  Units(p, LAMBDA x, l : offer[x].user = u /\ orders[x][l].status # "refunded")

\* Mutant: something is left, if not enough.
InStockAtAll(p, n) == p \in Counted => stock[p] > 0

InStock(p, n) == p \in Counted => stock[p] >= n

\* Mutant: refused only when the limit has been reached.
WithinLimitSoFar(u, p, n) == Below(Bought(u, p), MaxPerUser[p])

WithinLimit(u, p, n) == AtMost(Bought(u, p) + n, MaxPerUser[p])

\* The product and the server let the web shop sell the line now.
Deliverable(line) == line.product \in onSale /\ state[line.server] = "open"

\* The in-game shop asks less of the server it is used on.
DeliverableInGame(line) == line.product \in onSale /\ state[line.server] # "down"

\* There is enough for the line, taken by itself.
ThereIsRoom(u, line) ==
  /\ InStock(line.product, line.quantity)
  /\ WithinLimit(u, line.product, line.quantity)

-----------------------------------------------------------------------------
(* The cart                                                                 *)

\* Bound: how full a cart may be.
Carts == [u \in Users |-> {lines \in [Places -> 0 .. MaxUnits[u]] :
                            SumFunction(lines) <= MaxUnits[u]}]

\* Bound: a cart changes only while its user has a key left to check it out,
\* and not between the two steps of creating a session, which have read it.
HasKey(u) == \E s \in Sessions : OwnerOf[s] = u /\ offer[s].status = "none"

SetCart(u, lines) ==
  /\ HasKey(u) /\ \A d \in drafts : OwnerOf[d.key] # u
  /\ lines \in Carts[u]
  /\ cart' = [cart EXCEPT ![u] = lines]
  /\ UNCHANGED <<stock, supply, shopVars, drafts, offer, salesVars, changes>>

\* The limit is checked for the units added, the stock for all of the line;
\* a line for a server that is not active, refused here, is refused by Draft.
AddToCart(u, w, n) ==
  /\ SetCart(u, [cart[u] EXCEPT ![w] = @ + n])
  /\ w[1] \in onSale
  /\ InStock(w[1], n) /\ WithinLimit(u, w[1], n)
  /\ cart[u][w] > 0 => InStock(w[1], cart[u][w] + n)

\* A quantity of zero or less removes the line, as removeFromCart does.
UpdateCartItem(u, w, n) ==
  /\ cart[u][w] > 0
  /\ SetCart(u, [cart[u] EXCEPT ![w] = n])
  /\ n > 0 => InStock(w[1], n)

\* The browser's lines replace the cart after each was checked.
SyncCart(u, lines) ==
  /\ SetCart(u, lines)
  /\ \A w \in Places : lines[w] > 0 =>
       w[1] \in onSale /\ InStock(w[1], lines[w]) /\ WithinLimit(u, w[1], lines[w])

CartLines(u) ==
  LET held == SetToSeq({w \in Places : cart[u][w] > 0})
  IN [l \in DOMAIN held |-> [product |-> held[l][1], server |-> held[l][2],
                             quantity |-> cart[u][held[l]], price |-> price[held[l][1]]]]

-----------------------------------------------------------------------------
(* Checkout sessions                                                        *)

\* createCheckoutSession up to the promotions: the key is new, and every line
\* of the cart can be bought.  A request with a key in use gets that session.
Draft(s, codes) ==
  LET u == OwnerOf[s]
      lines == CartLines(u)
  IN /\ offer[s].status = "none"
     /\ Cardinality(drafts) < MaxDrafts
     /\ lines # <<>>
     /\ \A l \in DOMAIN lines : Deliverable(lines[l]) /\ ThereIsRoom(u, lines[l])
     /\ drafts' = drafts \cup {[key |-> s, lines |-> lines, codes |-> codes]}
     /\ UNCHANGED <<cart, stock, supply, shopVars, offer, salesVars, changes>>

\* The rest of it.  It fails if the money is short or the key was used
\* meanwhile.
CreateSession(d) ==
  LET u == OwnerOf[d.key]
      total == Evaluate(redeemed, live, u, d.lines, d.codes).total
      shown == [status |-> "pending", user |-> u, lines |-> d.lines,
                codes |-> d.codes, total |-> total]
  IN /\ d \in drafts
     /\ drafts' = drafts \ {d}
     /\ offer' = IF balance[u] >= total /\ offer[d.key].status = "none"
                 THEN [offer EXCEPT ![d.key] = shown] ELSE offer
     /\ UNCHANGED <<cart, stock, supply, shopVars, salesVars, changes>>

\* redeemForCheckout checks the limits again for each application, after the
\* redemptions before it, and the database admits one redemption of a
\* campaign per session.
Redemptions(s, apps) ==
  {[campaign |-> apps[k].campaign, voucher |-> apps[k].voucher,
    user |-> OwnerOf[s], of |-> s, gives |-> apps[k].gives] : k \in DOMAIN apps}

Redeemable(s, apps) ==
  \A k \in DOMAIN apps :
    /\ Available(redeemed \cup Redemptions(s, SubSeq(apps, 1, k - 1)), apps[k], OwnerOf[s])
    /\ \A j \in 1 .. k - 1 : apps[j].campaign # apps[k].campaign

\* Mutant: new terms are taken without asking the buyer.
AnyTerms(total, shown) == TRUE

\* The total the buyer was shown is still what the promotions make of it.
SameTerms(total, shown) == total = shown

\* The units of p on the lines.
Ordered(p, lines) ==
  SumFunctionOnSet(Quantities(lines), {l \in DOMAIN lines : lines[l].product = p})

\* What every purchase does to the rows it shares with others.
Purchase(x, total, charges) ==
  LET u == offer[x].user
      lines == offer[x].lines
  IN /\ balance[u] >= total
     /\ stock' = [p \in Counted |-> stock[p] - Ordered(p, lines)]
     /\ balance' = [balance EXCEPT ![u] = @ - total]
     /\ taken' = [taken EXCEPT ![x] = total]
     /\ orders' = [orders EXCEPT ![x] =
                     [l \in DOMAIN lines |-> [status |-> "placed", total |-> charges[l]]]]
     /\ offer' = [offer EXCEPT ![x].status = "completed"]

\* commitCheckoutSession.
CommitSession(s) ==
  LET o == offer[s]
      new == Evaluate(redeemed, live, o.user, o.lines, o.codes)
  IN /\ o.status = "pending"
     /\ \A l \in DOMAIN o.lines :
          /\ Deliverable(o.lines[l]) /\ ThereIsRoom(o.user, o.lines[l])
          /\ price[o.lines[l].product] = o.lines[l].price
     /\ SameTerms(new.total, o.total)
     /\ Redeemable(s, new.apps)
     /\ redeemed' = redeemed \cup Redemptions(s, new.apps)
     /\ Purchase(s, o.total,
                 [l \in DOMAIN o.lines |-> LinePrice(o.lines[l]) - new.cuts[l]])
     /\ cart' = [cart EXCEPT ![o.user] =
                   [w \in Places |->
                      IF \E l \in DOMAIN o.lines : w = <<o.lines[l].product, o.lines[l].server>>
                      THEN 0 ELSE @[w]]]
     /\ UNCHANGED <<supply, shopVars, drafts, changes>>

-----------------------------------------------------------------------------
(* The in-game shop: no cart and no promotions                              *)

\* The limit per user is left to the confirmation.
CreateQuote(q, u, p, n) ==
  LET line == [product |-> p, server |-> QuoteServer, quantity |-> n, price |-> price[p]]
  IN /\ offer[q].status = "none"
     /\ DeliverableInGame(line) /\ InStock(p, n)
     /\ balance[u] >= LinePrice(line)
     /\ offer' = [offer EXCEPT ![q] = [status |-> "pending", user |-> u, lines |-> <<line>>,
                                       codes |-> {}, total |-> LinePrice(line)]]
     /\ UNCHANGED <<cart, stock, supply, shopVars, drafts, salesVars, changes>>

\* confirmQuote; a completed quote is answered with its order.  The ledger
\* refuses a posting of nothing.
ConfirmQuote(q) ==
  LET o == offer[q]
      line == o.lines[1]
  IN /\ o.status = "pending"
     /\ DeliverableInGame(line) /\ ThereIsRoom(o.user, line)
     /\ price[line.product] = line.price
     /\ o.total > 0
     /\ Purchase(q, o.total, <<o.total>>)
     /\ UNCHANGED <<cart, supply, shopVars, drafts, redeemed, changes>>

\* The fifteen minutes of a session, or the two of a quote, are over; nothing
\* asks for the rest of the row after that.
Expire(x) ==
  /\ offer[x].status = "pending"
  /\ offer' = [offer EXCEPT ![x] = [NoOffer EXCEPT !.status = "expired"]]
  /\ UNCHANGED <<cart, stock, supply, shopVars, drafts, salesVars, changes>>

-----------------------------------------------------------------------------
(* Refunds                                                                  *)

\* When an order may be refunded is DeliveryQueue's; here it may at any time.
\* A refund of nothing is refused by the ledger; stock and redemptions stay.
Refund(x, l) ==
  /\ orders[x][l].status = "placed"
  /\ orders[x][l].total > 0
  /\ orders' = [orders EXCEPT ![x][l].status = "refunded"]
  /\ balance' = [balance EXCEPT ![offer[x].user] = @ + orders[x][l].total]
  /\ UNCHANGED <<cart, stock, supply, shopVars, drafts, offer, taken, redeemed, changes>>

-----------------------------------------------------------------------------
(* Administrators and schedules                                             *)

\* Bound: before anything was shown to anyone a change would show nothing.
Change ==
  /\ drafts # {} \/ \E x \in Offers : offer[x].status = "pending"
  /\ changes < MaxChanges /\ changes' = changes + 1
  /\ UNCHANGED <<cart, drafts, offer, salesVars>>

\* updateProduct writes what the form holds, taken one column at a time; the
\* stock is a number, whatever was sold since it was read.
EditPrice(p, n) ==
  /\ Change
  /\ price' = [price EXCEPT ![p] = n]
  /\ UNCHANGED <<stock, supply, onSale, state, live>>

EditStock(p, n) ==
  /\ Change
  /\ stock' = [stock EXCEPT ![p] = n]
  /\ supply' = [supply EXCEPT ![p] = n + Sold(p)]
  /\ UNCHANGED shopVars

\* deleteProduct does the same as unticking isActive.
EditActive(p) ==
  /\ Change
  /\ onSale' = SymDiff(onSale, {p})
  /\ UNCHANGED <<stock, supply, price, state, live>>

\* A campaign or voucher is paused, ends, or starts.
Reschedule(y) ==
  /\ Change
  /\ live' = SymDiff(live, {y})
  /\ UNCHANGED <<stock, supply, price, onSale, state>>

\* A server closes, drains or stops, loses its credential, or comes back.
ServerChanges(sv, now) ==
  /\ Change
  /\ state' = [state EXCEPT ![sv] = now]
  /\ UNCHANGED <<stock, supply, price, onSale, live>>

-----------------------------------------------------------------------------

Next ==
  \/ \E u \in Users, w \in Places :
       \/ \E n \in 1 .. MaxUnits[u] : AddToCart(u, w, n)
       \/ \E n \in 0 .. MaxUnits[u] : UpdateCartItem(u, w, n)
  \/ \E u \in Users : HasKey(u) /\ \E lines \in Carts[u] : SyncCart(u, lines)
  \/ \E s \in Sessions, codes \in SUBSET Vouchers : Draft(s, codes)
  \/ \E d \in drafts : CreateSession(d)
  \/ \E s \in Sessions : CommitSession(s)
  \/ \E q \in Quotes, u \in Players, p \in Products, n \in 1 .. MaxQuoted : CreateQuote(q, u, p, n)
  \/ \E q \in Quotes : ConfirmQuote(q)
  \/ \E x \in Offers : Expire(x)
  \/ \E x \in Offers : \E l \in DOMAIN orders[x] : Refund(x, l)
  \/ \E p \in Products : \/ \E n \in Prices \ {price[p]} : EditPrice(p, n)
                        \/ EditActive(p)
  \/ \E p \in Counted : \E n \in (0 .. Supply) \ {stock[p]} : EditStock(p, n)
  \/ \E y \in Campaigns \cup Vouchers : Reschedule(y)
  \/ \E sv \in Servers : \E now \in ServerStates \ {state[sv]} : ServerChanges(sv, now)

Spec == Init /\ [][Next]_vars

-----------------------------------------------------------------------------

\* The products some committed session held on two lines.
Split == {p \in Products : \E x \in Offers :
            \E l, m \in DOMAIN orders[x] :
              l # m /\ offer[x].lines[l].product = p /\ offer[x].lines[m].product = p}

\* No more is sold than was put up for sale, whichever offers were shown while
\* the stock lasted, through the web and the in-game shop; a product that a
\* session held for two servers is excepted (the lines are checked one by one).
NothingOversold ==
  \A p \in Counted \ Split : Sold(p) <= supply[p] /\ stock[p] = supply[p] - Sold(p)

\* No buyer holds more of a product than its limit, counting what was not
\* refunded, whichever offers were shown before the limit was used up; with
\* the same exception.
WithinLimits ==
  \A u \in Users, p \in Products \ Split : AtMost(Bought(u, p), MaxPerUser[p])

\* No campaign or voucher is redeemed beyond its limits, in all and by each
\* user, although the total was shown while it was available to several.
RedeemedWithinLimits ==
  LET Kept(row, uses) ==
        /\ AtMost(Cardinality(uses), row.limitTotal)
        /\ \A u \in Users : AtMost(Cardinality({r \in uses : r.user = u}), row.limitPerUser)
  IN /\ \A c \in Campaigns : Kept(CampaignRows[c], {r \in redeemed : r.campaign = c})
     /\ \A v \in Vouchers : Kept(VoucherRows[v], {r \in redeemed : r.voucher = v})

Charges(x) == [l \in DOMAIN orders[x] |-> orders[x][l].total]

\* A purchase takes the total the buyer was shown, once; its orders and its
\* redemptions add up to it, none is negative, and a balance is what was not
\* spent or came back.
PaidAsShown ==
  /\ \A x \in Offers :
       LET charges == SumFunction(Charges(x))
           discounts == SumFunction([r \in {r \in redeemed : r.of = x} |-> r.gives])
       IN /\ taken[x] = (IF offer[x].status = "completed" THEN offer[x].total ELSE 0)
          /\ taken[x] = charges
          /\ offer[x].status = "completed" => charges = Subtotal(offer[x].lines) - discounts
          /\ \A l \in DOMAIN orders[x] : orders[x][l].total >= 0
  /\ \A u \in Users :
       LET mine == {x \in Offers : offer[x].user = u}
       IN balance[u] = Funds - SumFunctionOnSet(taken, mine)
            + SumFunction([x \in mine |->
                SumFunctionOnSet(Charges(x),
                  {l \in DOMAIN orders[x] : orders[x][l].status = "refunded"})])

\* Without the exception: the stock does not fall below zero.  Two lines of
\* one product get past the checks.
StockHolds == \A p \in Counted : stock[p] >= 0

\* Every order can be refunded should its delivery fail.  One that the
\* promotions made free cannot: the ledger posts nothing for it.
FreeOrdersToo == \A x \in Offers : \A l \in DOMAIN orders[x] : orders[x][l].total > 0

\* Promotions that make up a total a buyer was shown can be redeemed together.
\* Two vouchers of one campaign are shown and then refused.
ShownCanBeRedeemed ==
  \A s \in Sessions :
    LET o == offer[s]
        new == Evaluate(redeemed, live, o.user, o.lines, o.codes)
    IN o.status = "pending" /\ SameTerms(new.total, o.total) => Redeemable(s, new.apps)

=============================================================================
