---------------------------- MODULE MCCheckout ----------------------------
(***************************************************************************)
(* Checkout for TLC.  Product a is scarce and limited, b is neither.       *)
(* Campaign 1 halves the price of a once for each buyer; campaign 2 takes  *)
(* one IC off anything for whoever has the voucher 11, and ends with its   *)
(* first use.  Buyer u1 has the web shop and the game, u2 the game only.   *)
(***************************************************************************)
EXTENDS Checkout

CONSTANTS u1, u2, a, b, sv1, sv2

MCPlaces == {<<a, sv1>>, <<b, sv1>>}
MCOwnerOf == [s \in Sessions |-> u1]
MCListPrice == (a :> 2) @@ (b :> 1)
MCMaxUnits == (u1 :> 2) @@ (u2 :> 0)
MCMaxPerUser == (a :> 2) @@ (b :> NoLimit)

Terms(type, value, scope, voucher, total, each) ==
  [type |-> type, value |-> value, maxDiscount |-> NoLimit, minSubtotal |-> 0,
   minQuantity |-> 0, priority |-> 100, stackable |-> TRUE, exclusive |-> FALSE,
   requiresVoucher |-> voucher, scope |-> scope, limitTotal |-> total, limitPerUser |-> each]

MCCampaignRows == (1 :> Terms("percentage_bps", 5000, {a}, FALSE, NoLimit, 1))
               @@ (2 :> Terms("fixed_amount", 1, {a, b}, TRUE, 1, NoLimit))
MCVoucherRows == (11 :> [campaign |-> 2, limitTotal |-> NoLimit, limitPerUser |-> 1])

\* For the configurations run by hand: a cart with a for two servers, and two
\* vouchers of campaign 2, which then has no limit.
MCSplitPlaces == {<<a, sv1>>, <<a, sv2>>}
MCRoomyUnits == (u1 :> 3) @@ (u2 :> 0)
MCOpenCampaign == (2 :> Terms("fixed_amount", 1, {a, b}, TRUE, NoLimit, NoLimit))
MCTwoVouchers == [v \in {11, 12} |-> [campaign |-> 2, limitTotal |-> NoLimit, limitPerUser |-> 1]]

\* A cart that cannot be checked out any more makes no difference.
Matters ==
  <<[u \in Users |-> IF HasKey(u) THEN cart[u] ELSE [w \in Places |-> 0]],
    stock, supply, shopVars, drafts, offer, salesVars, changes>>

Interchangeable == Permutations(Sessions)

=============================================================================
