---------------------------- MODULE WalletLedger ----------------------------
(***************************************************************************)
(* The wallet's double-entry ledger: WalletService.post run by concurrent  *)
(* callers, each inside a database transaction of its own.  A posting looks*)
(* its idempotency key up, inserts the key, updates the accounts one by one*)
(* in the order of their keys, and commits.                                *)
(*                                                                         *)
(* The database is modelled at READ COMMITTED, the weakest level a caller  *)
(* uses: an inserted key and an updated row stay locked until the          *)
(* transaction ends, and an update sees the last committed row.  The       *)
(* Serializable level most callers ask for adds nothing but aborts, which  *)
(* Fail allows at any time.                                                *)
(***************************************************************************)
EXTENDS Integers, Sequences

CONSTANTS
  Accounts,   \* account rows, numbered in the order of their keys
  Overdraft,  \* the issuance and clearing accounts of the shop
  Available,  \* the users' available accounts
  Requests,   \* postings: an idempotency key and an amount for each account
  NoRequest,
  Opening,    \* balances when the ledger starts
  Callers     \* concurrent executions of post

ASSUME AccountsAssumption ==
  /\ Accounts \subseteq Int
  /\ Overdraft \subseteq Accounts
  /\ Available \subseteq Accounts
  /\ Opening \in [Accounts -> Int]
  /\ \A a \in Accounts \ Overdraft : Opening[a] >= 0

ASSUME RequestsAssumption ==
  /\ NoRequest \notin Requests
  /\ \A r \in Requests :
       /\ r.amount \in [Accounts -> Int]
       /\ \E a, b \in Accounts : a # b /\ r.amount[a] # 0 /\ r.amount[b] # 0

Keys == {r.key : r \in Requests}

Stages == {"idle", "insert", "update", "announce"}
Answers == {"none", "posted", "replayed", "conflict", "short", "failed"}
Entry == [key : Keys, amount : Int, after : Int]

VARIABLES
  balance,    \* WalletAccount.balance, committed
  points,     \* User.pointsBalance of the owner of an available account
  posted,     \* the committed LedgerTransaction of each key
  entries,    \* committed LedgerEntry rows of each account, in order
  doing,      \* the request a caller is executing, or executed last
  stage,      \* how far it is
  wrote,      \* account rows its open transaction has updated, and has locked
  after,      \* the values it wrote there
  answer,     \* what the caller was told last
  announced   \* how often the posting of a key was announced

ledgerVars == <<balance, points, posted, entries>>
vars == <<ledgerVars, doing, stage, wrote, after, answer, announced>>

\* Only open transactions hold rows.
TypeOK ==
  /\ balance \in [Accounts -> Int]
  /\ points \in [Available -> Int]
  /\ posted \in [Keys -> Requests \cup {NoRequest}]
  /\ entries \in [Accounts -> Seq(Entry)]
  /\ doing \in [Callers -> Requests \cup {NoRequest}]
  /\ stage \in [Callers -> Stages]
  /\ wrote \in [Callers -> SUBSET Accounts]
  /\ \A p \in Callers : wrote[p] # {} => stage[p] = "update"
  /\ after \in [Callers -> [Accounts -> Int]]
  /\ answer \in [Callers -> Answers]
  /\ announced \in [Keys -> Nat]

Init ==
  /\ balance = Opening
  /\ points = [a \in Available |-> Opening[a]]
  /\ posted = [k \in Keys |-> NoRequest]
  /\ entries = [a \in Accounts |-> <<>>]
  /\ doing = [p \in Callers |-> NoRequest]
  /\ stage = [p \in Callers |-> "idle"]
  /\ wrote = [p \in Callers |-> {}]
  /\ after = [p \in Callers |-> Opening]
  /\ answer = [p \in Callers |-> "none"]
  /\ announced = [k \in Keys |-> 0]

-----------------------------------------------------------------------------

\* Zero amounts are dropped before anything is written.
Touched(r) == {a \in Accounts : r.amount[a] # 0}

\* A transaction that rolls back, or is over, holds no row.
End(p, what) ==
  /\ stage' = [stage EXCEPT ![p] = "idle"]
  /\ wrote' = [wrote EXCEPT ![p] = {}]
  /\ after' = [after EXCEPT ![p] = Opening]
  /\ answer' = [answer EXCEPT ![p] = what]

\* Mutant: any transaction stored under the key answers for the request.
FoundUnchecked(r) == "replayed"

\* The key is taken: by this very request, or by another one.
Found(r) == IF posted[r.key] = r THEN "replayed" ELSE "conflict"

\* post looks its key up; nothing is posted under it.
Begin(p, r) ==
  /\ stage[p] = "idle"
  /\ posted[r.key] = NoRequest
  /\ doing' = [doing EXCEPT ![p] = r]
  /\ stage' = [stage EXCEPT ![p] = "insert"]
  /\ answer' = [answer EXCEPT ![p] = "none"]
  /\ UNCHANGED <<ledgerVars, wrote, after, announced>>

\* post finds its key.
Replay(p, r) ==
  /\ stage[p] = "idle"
  /\ posted[r.key] # NoRequest
  /\ doing' = [doing EXCEPT ![p] = r]
  /\ answer' = [answer EXCEPT ![p] = Found(r)]
  /\ UNCHANGED <<ledgerVars, stage, wrote, after, announced>>

\* Mutant: the key column is not unique.
HoldsNothing(q, k) == FALSE

\* The open transaction of q has inserted the key k.
HoldsKey(q, k) == stage[q] = "update" /\ doing[q].key = k

\* The unique index makes a second inserter wait for the first ...
Insert(p) ==
  LET k == doing[p].key IN
  /\ stage[p] = "insert"
  /\ posted[k] = NoRequest
  /\ \A q \in Callers : ~HoldsKey(q, k)
  /\ stage' = [stage EXCEPT ![p] = "update"]
  /\ UNCHANGED <<ledgerVars, doing, wrote, after, answer, announced>>

\* ... and fail once that has committed.  post on its own looks the key up
\* again; inside a caller's transaction the error ends it.
InsertLost(p) ==
  /\ stage[p] = "insert"
  /\ posted[doing[p].key] # NoRequest
  /\ \E what \in {Found(doing[p]), "failed"} : End(p, what)
  /\ UNCHANGED <<ledgerVars, doing, announced>>

\* Mutant: rows are updated in whatever order the entries come.
InAnyOrder(p, a) == a \in Touched(doing[p]) \ wrote[p]

\* The row p updates next.
Upcoming(p, a) ==
  LET left == Touched(doing[p]) \ wrote[p]
  IN  a \in left /\ \A b \in left : a <= b

\* No other open transaction has updated the row.
Free(p, a) == \A q \in Callers \ {p} : a \notin wrote[q]

\* The condition of the conditional update.
Covered(r, a) ==
  r.amount[a] < 0 /\ a \notin Overdraft => balance[a] >= 0 - r.amount[a]

\* Mutant: the update does not lock, so the value it adds to may be stale.
UpdateUnlocked(p, a) ==
  /\ stage[p] = "update"
  /\ Upcoming(p, a)
  /\ Covered(doing[p], a)
  /\ wrote' = [wrote EXCEPT ![p] = @ \cup {a}]
  /\ after' = [after EXCEPT ![p][a] = balance[a] + doing[p].amount[a]]
  /\ UNCHANGED <<ledgerVars, doing, stage, answer, announced>>

Update(p, a) ==
  /\ stage[p] = "update"
  /\ Upcoming(p, a) /\ Free(p, a)
  /\ Covered(doing[p], a)
  /\ wrote' = [wrote EXCEPT ![p] = @ \cup {a}]
  /\ after' = [after EXCEPT ![p][a] = balance[a] + doing[p].amount[a]]
  /\ UNCHANGED <<ledgerVars, doing, stage, answer, announced>>

\* The update matched no row: 409, and everything rolls back.
Short(p, a) ==
  /\ stage[p] = "update"
  /\ Upcoming(p, a) /\ Free(p, a)
  /\ ~Covered(doing[p], a)
  /\ End(p, "short")
  /\ UNCHANGED <<ledgerVars, doing, announced>>

WroteAll(p) == wrote[p] = Touched(doing[p])

\* Entries, the projection of available balances and the transaction's postedAt
\* become visible with the balances.
Commit(p) ==
  LET r == doing[p] IN
  /\ stage[p] = "update" /\ WroteAll(p)
  /\ balance' = [a \in Accounts |-> IF a \in wrote[p] THEN after[p][a] ELSE balance[a]]
  /\ points' = [a \in Available |-> IF a \in wrote[p] THEN after[p][a] ELSE points[a]]
  /\ posted' = [posted EXCEPT ![r.key] = r]
  /\ entries' = [a \in Accounts |->
       IF a \in wrote[p]
         THEN Append(entries[a], [key |-> r.key, amount |-> r.amount[a],
                                  after |-> after[p][a]])
         ELSE entries[a]]
  /\ stage' = [stage EXCEPT ![p] = "announce"]
  /\ wrote' = [wrote EXCEPT ![p] = {}]
  /\ after' = [after EXCEPT ![p] = Opening]
  /\ UNCHANGED <<doing, answer, announced>>

\* The after-commit hooks run, and the caller is answered.
Announce(p) ==
  /\ stage[p] = "announce"
  /\ announced' = [announced EXCEPT ![doing[p].key] = @ + 1]
  /\ End(p, "posted")
  /\ UNCHANGED <<ledgerVars, doing>>

\* An aborted transaction, after the last retry or inside a caller's own, or
\* a process that dies, perhaps just after its commit.
Fail(p) ==
  /\ stage[p] # "idle"
  /\ End(p, "failed")
  /\ UNCHANGED <<ledgerVars, doing, announced>>

Next ==
  \E p \in Callers :
    \/ \E r \in Requests : Begin(p, r) \/ Replay(p, r)
    \/ Insert(p)
    \/ InsertLost(p)
    \/ \E a \in Accounts : Update(p, a) \/ Short(p, a)
    \/ Commit(p)
    \/ Announce(p)
    \/ Fail(p)

Spec == Init /\ [][Next]_vars

-----------------------------------------------------------------------------

\* No account but issuance and clearing is ever overdrawn, however many debits
\* of it are under way at once.
NoDebt == \A a \in Accounts \ Overdraft : balance[a] >= 0

\* The balance a user sees, the account's balance and the entries tell the same
\* story: each balanceAfter continues the one before it, the last one is the
\* balance, and pointsBalance equals it.
LastAfter(a) ==
  IF entries[a] = <<>> THEN Opening[a] ELSE entries[a][Len(entries[a])].after

ViewsAgree ==
  /\ \A a \in Accounts :
       /\ balance[a] = LastAfter(a)
       /\ \A i \in 1 .. Len(entries[a]) :
            entries[a][i].after =
              entries[a][i].amount
                + IF i = 1 THEN Opening[a] ELSE entries[a][i - 1].after
  /\ \A a \in Available : points[a] = balance[a]

\* Whatever a caller is told about its request is so: a success means that the
\* request itself, not a namesake, is in the ledger.
HonestAnswer ==
  \A p \in Callers :
    LET r == doing[p] IN
    /\ answer[p] \in {"posted", "replayed"} => posted[r.key] = r
    /\ answer[p] = "conflict" => posted[r.key] \notin {r, NoRequest}

\* The callers cannot wait for each other in a circle: of any set of callers with
\* an open transaction one waits for none of the others.
WaitsFor(p, q) ==
  \/ stage[p] = "insert" /\ HoldsKey(q, doing[p].key)
  \/ stage[p] = "update" /\ \E a \in Accounts : Upcoming(p, a) /\ a \in wrote[q]

NoStandstill ==
  \A S \in (SUBSET Callers) \ {{}} : \E p \in S : \A q \in S \ {p} : ~WaitsFor(p, q)

\* A posting is announced at most once, and only if it is in the ledger.
AnnouncedOnce ==
  \A k \in Keys : announced[k] <= IF posted[k] = NoRequest THEN 0 ELSE 1

\* Postings take effect one at a time, whole, and once per key.
Contract == INSTANCE LedgerContract
Promise == Contract!Spec
=============================================================================
