---------------------------- MODULE Promotions ----------------------------
(***************************************************************************)
(* The promotion engine as pure operators: which campaigns apply to the    *)
(* lines of a cart, what each takes off, and how the discount is spread    *)
(* over the lines.  A line is a record [product, server, quantity, price]. *)
(* Campaigns and vouchers are numbered in the order of their creation, the *)
(* order in which the rows are taken to come back.  An application is a    *)
(* record [campaign, voucher], with voucher 0 for a campaign that applies  *)
(* by itself.                                                              *)
(***************************************************************************)
EXTENDS Integers, SequencesExt

CONSTANTS
  CampaignRows,   \* PromotionCampaign rows by number
  VoucherRows,    \* VoucherCode rows by number
  NoLimit         \* null in a column that limits something

Campaigns == DOMAIN CampaignRows
Vouchers == DOMAIN VoucherRows

Limits(row) ==
  row.limitTotal \in Nat \cup {NoLimit} /\ row.limitPerUser \in Nat \cup {NoLimit}

ASSUME PromotionAssumption ==
  /\ IsFiniteSet(Campaigns) /\ IsFiniteSet(Vouchers)
  /\ Campaigns \subseteq Nat \ {0} /\ Vouchers \subseteq Nat \ {0}
  /\ Campaigns \cap Vouchers = {}
  /\ \A v \in Vouchers :
       /\ VoucherRows[v].campaign \in Campaigns
       /\ Limits(VoucherRows[v])
  /\ \A c \in Campaigns :
       /\ CampaignRows[c].type \in {"fixed_amount", "percentage_bps"}
       /\ CampaignRows[c].value \in Nat \ {0}
       /\ CampaignRows[c].type = "percentage_bps" => CampaignRows[c].value <= 10000
       /\ CampaignRows[c].maxDiscount \in Nat \cup {NoLimit}
       /\ CampaignRows[c].priority \in Int
       /\ Limits(CampaignRows[c])

\* Mutant: a limit that has been reached still admits one more.
BelowOrAt(n, limit) == limit # NoLimit => n <= limit

\* used >= limit is refused.
Below(n, limit) == limit # NoLimit => n < limit

Least(m, n) == IF m <= n THEN m ELSE n

LinePrice(line) == line.price * line.quantity
Subtotal(lines) == SumFunction([l \in DOMAIN lines |-> LinePrice(lines[l])])

-----------------------------------------------------------------------------
(* Usage limits: redeemed is a set of [campaign, voucher, user, of]         *)

Available(redeemed, app, u) ==
  LET ofCampaign == {r \in redeemed : r.campaign = app.campaign}
      ofVoucher == {r \in redeemed : r.voucher = app.voucher}
      Allows(row, uses) ==
        /\ Below(Cardinality(uses), row.limitTotal)
        /\ Below(Cardinality({r \in uses : r.user = u}), row.limitPerUser)
  IN /\ Allows(CampaignRows[app.campaign], ofCampaign)
     /\ app.voucher # 0 => Allows(VoucherRows[app.voucher], ofVoucher)

-----------------------------------------------------------------------------
(* What one campaign takes off                                              *)

Eligible(c, lines) == {l \in DOMAIN lines : lines[l].product \in CampaignRows[c].scope}

Worth(lines, S) == SumFunction([l \in S |-> LinePrice(lines[l])])

\* The discount of campaign c on the lines; 0 if it does not apply.
Discount(c, lines) ==
  LET row == CampaignRows[c]
      eligible == Eligible(c, lines)
      worth == Worth(lines, eligible)
      nominal == IF row.type = "fixed_amount" THEN row.value
                 ELSE (worth * row.value) \div 10000
      capped == IF row.maxDiscount = NoLimit THEN nominal ELSE Least(nominal, row.maxDiscount)
  IN IF \/ eligible = {}
        \/ worth < row.minSubtotal
        \/ SumFunction([l \in eligible |-> lines[l].quantity]) < row.minQuantity
     THEN 0
     ELSE Least(capped, worth)

-----------------------------------------------------------------------------
(* Which campaigns apply, and in which order they cut the lines             *)

\* live holds the campaigns and vouchers that are active and in their window.
Candidates(live, codes) ==
  {[campaign |-> c, voucher |-> 0] :
     c \in {d \in Campaigns \cap live : ~CampaignRows[d].requiresVoucher}}
  \cup {[campaign |-> VoucherRows[v].campaign, voucher |-> v] :
          v \in {w \in codes \cap live : VoucherRows[w].campaign \in live}}

\* The applications of those the user can still use and that take off anything.
Applications(redeemed, live, u, lines, codes) ==
  {app \in {[campaign |-> c.campaign, voucher |-> c.voucher,
             discount |-> Discount(c.campaign, lines)] :
               c \in {d \in Candidates(live, codes) : Available(redeemed, d, u)}} :
     app.discount > 0}

\* By priority, then the larger discount first; ties keep the candidates'
\* order: campaigns that apply by themselves, then vouchers.
Before(a, b) ==
  LET rank(app) == CampaignRows[app.campaign].priority
  IN \/ rank(a) < rank(b)
     \/ rank(a) = rank(b) /\ a.discount > b.discount
     \/ /\ rank(a) = rank(b) /\ a.discount = b.discount
        /\ \/ a.voucher < b.voucher
           \/ a.voucher = b.voucher /\ a.campaign < b.campaign

\* The elements of S as a sequence, in the order Op.
InOrder(S, Op(_, _)) ==
  [k \in 1 .. Cardinality(S) |-> CHOOSE a \in S : Cardinality({b \in S : Op(b, a)}) = k - 1]

\* A first application that is exclusive, or does not stack, stays alone.
Selected(apps) ==
  LET row(app) == CampaignRows[app.campaign]
      first == InOrder(apps, Before)[1]
  IN IF apps = {} THEN <<>>
     ELSE IF row(first).exclusive \/ ~row(first).stackable THEN <<first>>
     ELSE InOrder({app \in apps : row(app).stackable}, Before)

\* The part of an application's discount that line l is allotted: in
\* proportion, rounded down, and what is left to the last line.
Share(app, lines, l) ==
  LET eligible == Eligible(app.campaign, lines)
      worth == Worth(lines, eligible)
      Proportional(k) == (app.discount * LinePrice(lines[k])) \div worth
  IN IF l \notin eligible THEN 0
     ELSE IF l = Max(eligible)
       THEN app.discount - SumFunction([k \in eligible \ {l} |-> Proportional(k)])
     ELSE Proportional(l)

\* What the first n of the selected applications take off line l: one after the
\* other they cut it, none further than to zero.
Cut(selected, lines, l, n) ==
  Least(LinePrice(lines[l]), SumFunction([k \in 1 .. n |-> Share(selected[k], lines, l)]))

\* What the k-th of them takes off the lines.
Gives(selected, lines, k) ==
  SumFunction([l \in DOMAIN lines |->
    Cut(selected, lines, l, k) - Cut(selected, lines, l, k - 1)])

\* PromotionService.evaluateCheckout.  Applications that find nothing left to
\* cut are dropped.
Evaluate(redeemed, live, u, lines, codes) ==
  LET selected == Selected(Applications(redeemed, live, u, lines, codes))
      giving == InOrder({k \in DOMAIN selected : Gives(selected, lines, k) > 0}, <)
      cuts == [l \in DOMAIN lines |-> Cut(selected, lines, l, Len(selected))]
  IN [apps |-> [i \in DOMAIN giving |->
                  [campaign |-> selected[giving[i]].campaign,
                   voucher |-> selected[giving[i]].voucher,
                   gives |-> Gives(selected, lines, giving[i])]],
      cuts |-> cuts,
      total |-> SumFunction([l \in DOMAIN lines |-> LinePrice(lines[l]) - cuts[l]])]

=============================================================================
