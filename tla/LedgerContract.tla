--------------------------- MODULE LedgerContract ---------------------------
(***************************************************************************)
(* What the wallet promises its callers: a posting takes effect once, as a *)
(* whole, and only if every account it debits can pay.                     *)
(***************************************************************************)
EXTENDS Integers

CONSTANTS Accounts, Overdraft, Requests, NoRequest, Opening

VARIABLES
  balance,   \* of each account
  posted     \* the request that was posted under each idempotency key

vars == <<balance, posted>>

Init ==
  /\ balance = Opening
  /\ posted = [k \in {r.key : r \in Requests} |-> NoRequest]

Post(r) ==
  /\ posted[r.key] = NoRequest
  /\ \A a \in Accounts \ Overdraft :
       r.amount[a] < 0 => balance[a] + r.amount[a] >= 0
  /\ balance' = [a \in Accounts |-> balance[a] + r.amount[a]]
  /\ posted' = [posted EXCEPT ![r.key] = r]

Next == \E r \in Requests : Post(r)

Spec == Init /\ [][Next]_vars
=============================================================================
