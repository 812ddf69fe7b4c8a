------------------------ MODULE WalletLedger_proofs ------------------------
(***************************************************************************)
(* Proofs about the ledger, for every set of accounts, requests and        *)
(* callers.  The invariant says what an open transaction may rely on: the  *)
(* rows it wrote are its own and still hold the balances it added to, and  *)
(* the key it inserted is nobody else's.  Who waits for a row holds only   *)
(* rows before it.                                                         *)
(***************************************************************************)
EXTENDS WalletLedger, SequenceTheorems, SumTheorems, TLAPS

\* The rows a transaction has written are locked: no one else has written them,
\* and their committed balances are those the update saw.
RowLocks ==
  /\ \A p \in Callers : stage[p] # "idle" => doing[p] \in Requests
  /\ \A p \in Callers : wrote[p] \subseteq Touched(doing[p])
  /\ \A p, q \in Callers : p # q => wrote[p] \cap wrote[q] = {}
  /\ \A p \in Callers : \A a \in wrote[p] :
       /\ after[p][a] = balance[a] + doing[p].amount[a]
       /\ Covered(doing[p], a)

\* The key a transaction has inserted is not in the ledger and in no other
\* open transaction.
KeyLocks ==
  /\ \A p \in Callers : stage[p] = "update" => posted[doing[p].key] = NoRequest
  /\ \A p, q \in Callers :
       p # q /\ stage[p] = "update" /\ stage[q] = "update"
         => doing[p].key # doing[q].key

\* A transaction about to be announced is in the ledger, unannounced, and no one
\* else is about to announce it.
Announcers ==
  /\ \A p \in Callers : stage[p] = "announce" =>
       /\ posted[doing[p].key] = doing[p]
       /\ announced[doing[p].key] = 0
  /\ \A p, q \in Callers :
       p # q /\ stage[p] = "announce" /\ stage[q] = "announce"
         => doing[p].key # doing[q].key

Told ==
  /\ \A p \in Callers : answer[p] # "none" => doing[p] \in Requests
  /\ HonestAnswer

Inv ==
  /\ TypeOK /\ RowLocks /\ KeyLocks
  /\ Announcers /\ AnnouncedOnce /\ Told
  /\ NoDebt /\ ViewsAgree

USE AccountsAssumption, RequestsAssumption

LEMMA KeyOf == \A r \in Requests : r.key \in Keys
BY DEF Keys

LEMMA AmountOf == \A r \in Requests, a \in Accounts : r.amount[a] \in Int
OBVIOUS

LEMMA IntSum == \A x, y \in Int : x + y \in Int
OBVIOUS

LEMMA InitInv == Init => Inv
<1> SUFFICES ASSUME Init PROVE Inv
  OBVIOUS
<1> USE DEF Init
<1>1. TypeOK
  BY DEF TypeOK, Keys, Stages, Answers
<1>2. RowLocks /\ KeyLocks /\ Announcers
  BY DEF RowLocks, KeyLocks, Announcers
<1>3. AnnouncedOnce /\ Told /\ NoDebt
  BY DEF AnnouncedOnce, Told, HonestAnswer, NoDebt
<1>4. ViewsAgree
  BY DEF ViewsAgree, LastAfter
<1> QED
  BY <1>1, <1>2, <1>3, <1>4 DEF Inv

LEMMA TypesKept == Inv /\ [Next]_vars => TypeOK'
<1> SUFFICES ASSUME Inv, [Next]_vars PROVE TypeOK'
  OBVIOUS
<1> USE DEF Inv, TypeOK, RowLocks, Keys, Stages, Answers, ledgerVars
<1>1. ASSUME NEW p \in Callers, NEW r \in Requests, Begin(p, r) PROVE TypeOK'
  BY <1>1 DEF Begin
<1>2. ASSUME NEW p \in Callers, NEW r \in Requests, Replay(p, r) PROVE TypeOK'
  BY <1>2 DEF Replay, Found
<1>3. ASSUME NEW p \in Callers, Insert(p) PROVE TypeOK'
  BY <1>3 DEF Insert, HoldsKey
<1>4. ASSUME NEW p \in Callers, InsertLost(p) PROVE TypeOK'
  <2>1. PICK what \in {Found(doing[p]), "failed"} : End(p, what)
    BY <1>4 DEF InsertLost
  <2>2. /\ stage[p] = "insert" /\ doing[p] \in Requests
        /\ posted[doing[p].key] # NoRequest
        /\ UNCHANGED <<ledgerVars, doing, announced>>
    BY <1>4 DEF InsertLost
  <2>3. what \in {"replayed", "conflict", "failed"}
    BY DEF Found
  <2> QED
    BY <2>1, <2>2, <2>3 DEF End
<1>5. ASSUME NEW p \in Callers, NEW a \in Accounts, Update(p, a) PROVE TypeOK'
  <2>1. wrote' = [wrote EXCEPT ![p] = @ \cup {a}] /\ stage[p] = "update"
    BY <1>5 DEF Update
  <2>2. wrote' \in [Callers -> SUBSET Accounts]
    BY <2>1
  <2>3. balance[a] + doing[p].amount[a] \in Int
    <3>1. doing[p] \in Requests /\ balance[a] \in Int
      BY <1>5, <2>1
    <3>2. doing[p].amount[a] \in Int
      BY <1>5, <3>1, AmountOf
    <3> HIDE DEF Inv, TypeOK, RowLocks
    <3> QED
      BY <3>1, <3>2, IntSum
  <2>4. after' \in [Callers -> [Accounts -> Int]]
    BY <1>5, <2>3 DEF Update
  <2>5. \A q \in Callers : wrote'[q] # {} => stage[q] = "update"
    BY <2>1
  <2> QED
    BY <1>5, <2>2, <2>4, <2>5 DEF Update
<1>6. ASSUME NEW p \in Callers, NEW a \in Accounts, Short(p, a) PROVE TypeOK'
  BY <1>6 DEF Short, End
<1>7. ASSUME NEW p \in Callers, Commit(p) PROVE TypeOK'
  <2> DEFINE r == doing[p]
             new(a) == [key |-> r.key, amount |-> r.amount[a], after |-> after[p][a]]
  <2>1. r \in Requests /\ r.key \in Keys
    BY <1>7, KeyOf DEF Commit
  <2>2. ASSUME NEW a \in Accounts PROVE new(a) \in Entry
    <3>1. r.amount[a] \in Int
      BY <2>1, AmountOf
    <3>2. after[p][a] \in Int
      BY <1>7
    <3> HIDE DEF Inv, TypeOK
    <3> QED
      BY <2>1, <3>1, <3>2 DEF Entry
  <2>3. entries' \in [Accounts -> Seq(Entry)]
    <3>1. \A a \in Accounts : Append(entries[a], new(a)) \in Seq(Entry)
      BY <2>2
    <3> QED
      BY <1>7, <3>1 DEF Commit
  <2>4. balance' \in [Accounts -> Int] /\ points' \in [Available -> Int]
    BY <1>7 DEF Commit
  <2>5. posted' \in [Keys -> Requests \cup {NoRequest}]
    BY <1>7, <2>1 DEF Commit
  <2>6. /\ stage' \in [Callers -> Stages]
        /\ wrote' \in [Callers -> SUBSET Accounts]
        /\ after' \in [Callers -> [Accounts -> Int]]
        /\ \A q \in Callers : wrote'[q] # {} => stage'[q] = "update"
    BY <1>7 DEF Commit
  <2> QED
    BY <1>7, <2>3, <2>4, <2>5, <2>6 DEF Commit
<1>8. ASSUME NEW p \in Callers, Announce(p) PROVE TypeOK'
  <2>1. doing[p] \in Requests /\ doing[p].key \in Keys
    BY <1>8, KeyOf DEF Announce
  <2>2. announced' = [announced EXCEPT ![doing[p].key] = announced[doing[p].key] + 1]
    BY <1>8 DEF Announce
  <2>3. announced[doing[p].key] + 1 \in Nat
    <3>1. announced[doing[p].key] \in Nat
      BY <2>1
    <3> HIDE DEF Inv, TypeOK, RowLocks
    <3> QED
      BY <3>1
  <2>4. announced' \in [Keys -> Nat]
    BY <2>1, <2>2, <2>3
  <2> QED
    BY <1>8, <2>4 DEF Announce, End
<1>9. ASSUME NEW p \in Callers, Fail(p) PROVE TypeOK'
  BY <1>9 DEF Fail, End
<1>10. CASE UNCHANGED vars
  BY <1>10 DEF vars
<1> QED
  BY <1>1, <1>2, <1>3, <1>4, <1>5, <1>6, <1>7, <1>8, <1>9, <1>10 DEF Next

LEMMA RowLocksKept == Inv /\ [Next]_vars => RowLocks'
<1> SUFFICES ASSUME Inv, [Next]_vars PROVE RowLocks'
  OBVIOUS
<1> USE DEF Inv, TypeOK, RowLocks, ledgerVars, Keys, Stages
<1>1. ASSUME NEW p \in Callers, NEW r \in Requests, Begin(p, r) PROVE RowLocks'
  BY <1>1 DEF Begin, Covered
<1>2. ASSUME NEW p \in Callers, NEW r \in Requests, Replay(p, r) PROVE RowLocks'
  BY <1>2 DEF Replay, Found, Covered
<1>3. ASSUME NEW p \in Callers, Insert(p) PROVE RowLocks'
  BY <1>3 DEF Insert, HoldsKey, Covered
<1>4. ASSUME NEW p \in Callers, InsertLost(p) PROVE RowLocks'
  <2>1. PICK what \in {Found(doing[p]), "failed"} : End(p, what)
    BY <1>4 DEF InsertLost
  <2>2. /\ stage[p] = "insert" /\ doing[p] \in Requests
        /\ posted[doing[p].key] # NoRequest
        /\ UNCHANGED <<ledgerVars, doing, announced>>
    BY <1>4 DEF InsertLost
  <2>3. what \in {"replayed", "conflict", "failed"}
    BY DEF Found
  <2> QED
    BY <2>1, <2>2, <2>3 DEF End, Covered
<1>5. ASSUME NEW p \in Callers, NEW a \in Accounts, Update(p, a) PROVE RowLocks'
  BY <1>5 DEF Update, Upcoming, Free, Touched, Covered
<1>6. ASSUME NEW p \in Callers, NEW a \in Accounts, Short(p, a) PROVE RowLocks'
  BY <1>6 DEF Short, End, Covered
<1>7. ASSUME NEW p \in Callers, Commit(p) PROVE RowLocks'
  BY <1>7, SMTT(60) DEF Commit, WroteAll, Touched, Covered
<1>8. ASSUME NEW p \in Callers, Announce(p) PROVE RowLocks'
  BY <1>8 DEF Announce, End, Covered
<1>9. ASSUME NEW p \in Callers, Fail(p) PROVE RowLocks'
  BY <1>9 DEF Fail, End, Covered
<1>10. CASE UNCHANGED vars
  BY <1>10 DEF vars, Covered
<1> QED
  BY <1>1, <1>2, <1>3, <1>4, <1>5, <1>6, <1>7, <1>8, <1>9, <1>10 DEF Next

LEMMA KeyLocksKept == Inv /\ [Next]_vars => KeyLocks'
<1> SUFFICES ASSUME Inv, [Next]_vars PROVE KeyLocks'
  OBVIOUS
<1> USE DEF Inv, TypeOK, RowLocks, KeyLocks, Keys, ledgerVars
<1>1. ASSUME NEW p \in Callers, NEW r \in Requests, Begin(p, r) PROVE KeyLocks'
  BY <1>1 DEF Begin
<1>2. ASSUME NEW p \in Callers, NEW r \in Requests, Replay(p, r) PROVE KeyLocks'
  BY <1>2 DEF Replay, Found
<1>3. ASSUME NEW p \in Callers, Insert(p) PROVE KeyLocks'
  BY <1>3 DEF Insert, HoldsKey
<1>4. ASSUME NEW p \in Callers, InsertLost(p) PROVE KeyLocks'
  BY <1>4 DEF InsertLost, End, Found
<1>5. ASSUME NEW p \in Callers, NEW a \in Accounts, Update(p, a) PROVE KeyLocks'
  BY <1>5 DEF Update
<1>6. ASSUME NEW p \in Callers, NEW a \in Accounts, Short(p, a) PROVE KeyLocks'
  BY <1>6 DEF Short, End
<1>7. ASSUME NEW p \in Callers, Commit(p) PROVE KeyLocks'
  BY <1>7 DEF Commit
<1>8. ASSUME NEW p \in Callers, Announce(p) PROVE KeyLocks'
  BY <1>8 DEF Announce, End
<1>9. ASSUME NEW p \in Callers, Fail(p) PROVE KeyLocks'
  BY <1>9 DEF Fail, End
<1>10. CASE UNCHANGED vars
  BY <1>10 DEF vars
<1> QED
  BY <1>1, <1>2, <1>3, <1>4, <1>5, <1>6, <1>7, <1>8, <1>9, <1>10 DEF Next

\* A step that makes nobody an announcer and leaves the ledger alone.
NoNewAnnouncer ==
  /\ posted' = posted /\ announced' = announced
  /\ \A q \in Callers :
       stage'[q] = "announce" => stage[q] = "announce" /\ doing'[q] = doing[q]

LEMMA AnnouncersStay == Announcers /\ NoNewAnnouncer => Announcers'
BY DEF Announcers, NoNewAnnouncer

LEMMA AnnouncersKept == Inv /\ [Next]_vars => Announcers'
<1> SUFFICES ASSUME Inv, [Next]_vars PROVE Announcers'
  OBVIOUS
<1>t. TypeOK /\ Announcers
  BY DEF Inv
<1>1. ASSUME NEW p \in Callers, NEW r \in Requests, Begin(p, r) PROVE Announcers'
  <2>1. NoNewAnnouncer
    BY <1>1, <1>t DEF Begin, NoNewAnnouncer, TypeOK, ledgerVars
  <2> QED
    BY <2>1, <1>t, AnnouncersStay
<1>2. ASSUME NEW p \in Callers, NEW r \in Requests, Replay(p, r) PROVE Announcers'
  <2>1. NoNewAnnouncer
    BY <1>2, <1>t DEF Replay, NoNewAnnouncer, TypeOK, ledgerVars
  <2> QED
    BY <2>1, <1>t, AnnouncersStay
<1>3. ASSUME NEW p \in Callers, Insert(p) PROVE Announcers'
  <2>1. NoNewAnnouncer
    BY <1>3, <1>t DEF Insert, NoNewAnnouncer, TypeOK, ledgerVars
  <2> QED
    BY <2>1, <1>t, AnnouncersStay
<1>4. ASSUME NEW p \in Callers, InsertLost(p) PROVE Announcers'
  <2>1. NoNewAnnouncer
    BY <1>4, <1>t DEF InsertLost, End, NoNewAnnouncer, TypeOK, ledgerVars
  <2> QED
    BY <2>1, <1>t, AnnouncersStay
<1>5. ASSUME NEW p \in Callers, NEW a \in Accounts, Update(p, a) PROVE Announcers'
  <2>1. NoNewAnnouncer
    BY <1>5, <1>t DEF Update, NoNewAnnouncer, TypeOK, ledgerVars
  <2> QED
    BY <2>1, <1>t, AnnouncersStay
<1>6. ASSUME NEW p \in Callers, NEW a \in Accounts, Short(p, a) PROVE Announcers'
  <2>1. NoNewAnnouncer
    BY <1>6, <1>t DEF Short, End, NoNewAnnouncer, TypeOK, ledgerVars
  <2> QED
    BY <2>1, <1>t, AnnouncersStay
<1>7. ASSUME NEW p \in Callers, Commit(p) PROVE Announcers'
  <2> USE DEF Inv, TypeOK, RowLocks, KeyLocks, Announcers, AnnouncedOnce, Keys, ledgerVars
  <2>1. doing[p] \in Requests /\ doing[p].key \in Keys /\ posted[doing[p].key] = NoRequest
    BY <1>7, KeyOf DEF Commit
  <2>2. /\ posted'[doing[p].key] = doing[p]
        /\ \A k \in Keys \ {doing[p].key} : posted'[k] = posted[k]
    BY <1>7, <2>1 DEF Commit
  <2>3. announced[doing[p].key] = 0
    <3>1. announced[doing[p].key] \in Nat /\ announced[doing[p].key] <= 0
      BY <2>1
    <3> QED
      BY <3>1
  <2>4. ASSUME NEW q \in Callers, stage[q] = "announce"
        PROVE  /\ posted[doing[q].key] = doing[q]
               /\ announced[doing[q].key] = 0
               /\ doing[q].key # doing[p].key
               /\ doing[q].key \in Keys
    <3>1. doing[q] \in Requests /\ posted[doing[q].key] = doing[q]
      BY <2>4
    <3>2. announced[doing[q].key] = 0
      BY <2>4
    <3> QED
      BY <2>1, <3>1, <3>2, KeyOf
  <2>5. /\ stage' = [stage EXCEPT ![p] = "announce"]
        /\ doing' = doing /\ announced' = announced
    BY <1>7 DEF Commit
  <2>6. \A q \in Callers : stage'[q] = "announce" => q = p \/ stage[q] = "announce"
    BY <2>5
  <2>7. doing[p] = doing'[p] /\ announced'[doing[p].key] = 0
    BY <2>3, <2>5
  <2>8. ASSUME NEW q \in Callers, stage[q] = "announce"
        PROVE  posted'[doing'[q].key] = doing'[q] /\ announced'[doing'[q].key] = 0
    <3> HIDE DEF Inv, TypeOK, RowLocks, KeyLocks, Announcers, AnnouncedOnce
    <3> QED
      BY <2>2, <2>4, <2>5, <2>8
  <2> HIDE DEF Inv, TypeOK, RowLocks, KeyLocks, AnnouncedOnce
  <2>9. \A q \in Callers : stage'[q] = "announce" =>
          posted'[doing'[q].key] = doing'[q] /\ announced'[doing'[q].key] = 0
    BY <2>2, <2>6, <2>7, <2>8
  <2>10. ASSUME NEW q \in Callers, NEW r \in Callers, q # r,
                stage'[q] = "announce", stage'[r] = "announce"
         PROVE  doing'[q].key # doing'[r].key
    <3>1. CASE q = p
      BY <3>1, <2>4, <2>5, <2>6, <2>10
    <3>2. CASE r = p
      BY <3>2, <2>4, <2>5, <2>6, <2>10
    <3>3. CASE q # p /\ r # p
      <4>1. stage[q] = "announce" /\ stage[r] = "announce"
        BY <3>3, <2>6, <2>10
      <4> QED
        BY <4>1, <2>5, <2>10 DEF Inv
    <3> QED
      BY <3>1, <3>2, <3>3
  <2> QED
    BY <2>9, <2>10
<1>8. ASSUME NEW p \in Callers, Announce(p) PROVE Announcers'
  <2>1. /\ posted' = posted /\ doing' = doing
        /\ stage[p] = "announce" /\ stage' = [stage EXCEPT ![p] = "idle"]
        /\ announced' = [announced EXCEPT ![doing[p].key] = @ + 1]
    BY <1>8 DEF Announce, End, ledgerVars
  <2>2. ASSUME NEW q \in Callers, stage'[q] = "announce"
        PROVE  q # p /\ stage[q] = "announce"
    BY <2>1, <2>2, <1>t DEF TypeOK
  <2>3. ASSUME NEW q \in Callers, stage'[q] = "announce"
        PROVE  posted'[doing'[q].key] = doing'[q] /\ announced'[doing'[q].key] = 0
    <3>1. /\ doing[q].key # doing[p].key
          /\ posted[doing[q].key] = doing[q] /\ announced[doing[q].key] = 0
      BY <2>1, <2>2, <2>3, <1>t DEF Announcers
    <3>2. announced'[doing[q].key] = announced[doing[q].key]
      BY <2>1, <3>1, <1>t DEF TypeOK
    <3> QED
      BY <2>1, <3>1, <3>2
  <2>4. ASSUME NEW q \in Callers, NEW r \in Callers, q # r,
               stage'[q] = "announce", stage'[r] = "announce"
        PROVE  doing'[q].key # doing'[r].key
    BY <2>1, <2>2, <2>4, <1>t DEF Announcers
  <2> QED
    BY <2>3, <2>4 DEF Announcers
<1>9. ASSUME NEW p \in Callers, Fail(p) PROVE Announcers'
  <2>1. NoNewAnnouncer
    BY <1>9, <1>t DEF Fail, End, NoNewAnnouncer, TypeOK, ledgerVars
  <2> QED
    BY <2>1, <1>t, AnnouncersStay
<1>10. CASE UNCHANGED vars
  BY <1>10, <1>t DEF vars, ledgerVars, Announcers
<1> QED
  BY <1>1, <1>2, <1>3, <1>4, <1>5, <1>6, <1>7, <1>8, <1>9, <1>10 DEF Next

LEMMA AnnouncedKept == Inv /\ [Next]_vars => AnnouncedOnce'
<1> SUFFICES ASSUME Inv, [Next]_vars PROVE AnnouncedOnce'
  OBVIOUS
<1> USE DEF Inv, TypeOK, RowLocks, KeyLocks, Announcers, AnnouncedOnce, Keys, ledgerVars
<1>1. ASSUME NEW p \in Callers, NEW r \in Requests, Begin(p, r) PROVE AnnouncedOnce'
  BY <1>1 DEF Begin
<1>2. ASSUME NEW p \in Callers, NEW r \in Requests, Replay(p, r) PROVE AnnouncedOnce'
  BY <1>2 DEF Replay, Found
<1>3. ASSUME NEW p \in Callers, Insert(p) PROVE AnnouncedOnce'
  BY <1>3 DEF Insert, HoldsKey
<1>4. ASSUME NEW p \in Callers, InsertLost(p) PROVE AnnouncedOnce'
  BY <1>4 DEF InsertLost, End, Found
<1>5. ASSUME NEW p \in Callers, NEW a \in Accounts, Update(p, a) PROVE AnnouncedOnce'
  BY <1>5 DEF Update
<1>6. ASSUME NEW p \in Callers, NEW a \in Accounts, Short(p, a) PROVE AnnouncedOnce'
  BY <1>6 DEF Short, End
<1>7. ASSUME NEW p \in Callers, Commit(p) PROVE AnnouncedOnce'
  <2>1. doing[p] \in Requests /\ doing[p].key \in Keys /\ posted[doing[p].key] = NoRequest
    BY <1>7, KeyOf DEF Commit
  <2>2. /\ posted'[doing[p].key] = doing[p]
        /\ \A k \in Keys \ {doing[p].key} : posted'[k] = posted[k]
    BY <1>7, <2>1 DEF Commit
  <2>3. announced' = announced
    BY <1>7 DEF Commit
  <2>4. ASSUME NEW k \in Keys
        PROVE  announced'[k] <= IF posted'[k] = NoRequest THEN 0 ELSE 1
    <3>1. announced[k] \in Nat /\ announced[k] <= IF posted[k] = NoRequest THEN 0 ELSE 1
      OBVIOUS
    <3>2. CASE k = doing[p].key
      <4>1. announced[k] <= 0 /\ announced'[k] = announced[k]
        BY <2>1, <2>3, <3>1, <3>2
      <4>2. posted'[k] # NoRequest
        BY <2>1, <2>2, <3>2
      <4> HIDE DEF Inv, TypeOK, AnnouncedOnce
      <4> QED
        BY <3>1, <4>1, <4>2
    <3>3. CASE k # doing[p].key
      BY <2>2, <2>3, <3>1, <3>3
    <3> QED
      BY <3>2, <3>3
  <2> QED
    BY <2>4
<1>8. ASSUME NEW p \in Callers, Announce(p) PROVE AnnouncedOnce'
  <2>1. doing[p] \in Requests /\ doing[p].key \in Keys
    BY <1>8, KeyOf DEF Announce
  <2>2. posted[doing[p].key] = doing[p] /\ announced[doing[p].key] = 0
    BY <1>8 DEF Announce
  <2>3. posted' = posted
    BY <1>8 DEF Announce
  <2>4. announced' = [announced EXCEPT ![doing[p].key] = announced[doing[p].key] + 1]
    BY <1>8 DEF Announce
  <2>5. ASSUME NEW k \in Keys
        PROVE  announced'[k] <= IF posted'[k] = NoRequest THEN 0 ELSE 1
    <3>1. announced[k] \in Nat /\ announced[k] <= IF posted[k] = NoRequest THEN 0 ELSE 1
      OBVIOUS
    <3>2. CASE k = doing[p].key
      <4>1. announced'[k] = 1
        BY <2>1, <2>2, <2>4, <3>2
      <4>2. posted'[k] # NoRequest
        BY <2>1, <2>2, <2>3, <3>2
      <4> QED
        BY <4>1, <4>2
    <3>3. CASE k # doing[p].key
      BY <2>3, <2>4, <3>1, <3>3
    <3> QED
      BY <3>2, <3>3
  <2> QED
    BY <2>5
<1>9. ASSUME NEW p \in Callers, Fail(p) PROVE AnnouncedOnce'
  BY <1>9 DEF Fail, End
<1>10. CASE UNCHANGED vars
  BY <1>10 DEF vars
<1> QED
  BY <1>1, <1>2, <1>3, <1>4, <1>5, <1>6, <1>7, <1>8, <1>9, <1>10 DEF Next

LEMMA ToldKept == Inv /\ [Next]_vars => Told'
<1> SUFFICES ASSUME Inv, [Next]_vars PROVE Told'
  OBVIOUS
<1> USE DEF Inv, TypeOK, RowLocks, KeyLocks, Announcers, Told, HonestAnswer, Keys, ledgerVars
<1>1. ASSUME NEW p \in Callers, NEW r \in Requests, Begin(p, r) PROVE Told'
  BY <1>1 DEF Begin
<1>2. ASSUME NEW p \in Callers, NEW r \in Requests, Replay(p, r) PROVE Told'
  BY <1>2 DEF Replay, Found
<1>3. ASSUME NEW p \in Callers, Insert(p) PROVE Told'
  BY <1>3 DEF Insert, HoldsKey
<1>4. ASSUME NEW p \in Callers, InsertLost(p) PROVE Told'
  <2>1. PICK what \in {Found(doing[p]), "failed"} : End(p, what)
    BY <1>4 DEF InsertLost
  <2>2. /\ stage[p] = "insert" /\ doing[p] \in Requests
        /\ posted[doing[p].key] # NoRequest
        /\ UNCHANGED <<ledgerVars, doing, announced>>
    BY <1>4 DEF InsertLost
  <2>3. what \in {"replayed", "conflict", "failed"}
    BY DEF Found
  <2> QED
    BY <2>1, <2>2, <2>3 DEF End, Found
<1>5. ASSUME NEW p \in Callers, NEW a \in Accounts, Update(p, a) PROVE Told'
  BY <1>5 DEF Update
<1>6. ASSUME NEW p \in Callers, NEW a \in Accounts, Short(p, a) PROVE Told'
  BY <1>6 DEF Short, End
<1>7. ASSUME NEW p \in Callers, Commit(p) PROVE Told'
  <2>1. doing[p] \in Requests /\ doing[p].key \in Keys /\ posted[doing[p].key] = NoRequest
    BY <1>7, KeyOf DEF Commit
  <2>2. /\ posted'[doing[p].key] = doing[p]
        /\ \A k \in Keys \ {doing[p].key} : posted'[k] = posted[k]
    BY <1>7, <2>1 DEF Commit
  <2>3. \A q \in Callers : answer[q] # "none" =>
           doing[q] \in Requests /\ doing[q].key \in Keys
    BY KeyOf
  <2>4. doing' = doing /\ answer' = answer
    BY <1>7 DEF Commit
  <2>5. ASSUME NEW q \in Callers, answer[q] \in {"posted", "replayed", "conflict"}
        PROVE  posted[doing[q].key] # NoRequest
    BY <2>3, <2>5
  <2>6. ASSUME NEW q \in Callers, answer[q] \in {"posted", "replayed", "conflict"}
        PROVE  posted'[doing[q].key] = posted[doing[q].key]
    <3>1. doing[q].key \in Keys /\ posted[doing[q].key] # NoRequest
      BY <2>3, <2>5, <2>6
    <3> HIDE DEF Inv, TypeOK, RowLocks, KeyLocks, Announcers, Told, HonestAnswer
    <3> QED
      BY <2>1, <2>2, <3>1
  <2>7. Told
    BY DEF Inv
  <2> HIDE DEF Inv, TypeOK, RowLocks, KeyLocks, Announcers
  <2>8. \A q \in Callers : answer'[q] # "none" => doing'[q] \in Requests
    BY <2>4, <2>7
  <2>9. HonestAnswer'
    BY <2>4, <2>6, <2>7
  <2> QED
    BY <2>8, <2>9
<1>8. ASSUME NEW p \in Callers, Announce(p) PROVE Told'
  BY <1>8 DEF Announce, End
<1>9. ASSUME NEW p \in Callers, Fail(p) PROVE Told'
  BY <1>9 DEF Fail, End
<1>10. CASE UNCHANGED vars
  BY <1>10 DEF vars
<1> QED
  BY <1>1, <1>2, <1>3, <1>4, <1>5, <1>6, <1>7, <1>8, <1>9, <1>10 DEF Next

\* Committing adds a request's amounts to the balances that are there at that
\* moment, and every account it debits can pay: a posting is atomic.
LEMMA CommitPosts ==
  ASSUME Inv, NEW p \in Callers, Commit(p)
  PROVE  /\ doing[p] \in Requests
         /\ posted[doing[p].key] = NoRequest
         /\ \A a \in Accounts \ Overdraft :
              doing[p].amount[a] < 0 => balance[a] + doing[p].amount[a] >= 0
         /\ balance' = [a \in Accounts |-> balance[a] + doing[p].amount[a]]
<1> USE DEF Inv
<1>1. stage[p] = "update" /\ wrote[p] = Touched(doing[p])
  BY DEF Commit, WroteAll
<1>2. doing[p] \in Requests
  BY <1>1 DEF RowLocks
<1>3. posted[doing[p].key] = NoRequest
  BY <1>1 DEF KeyLocks
<1>4. ASSUME NEW a \in Accounts
      PROVE  /\ balance[a] \in Int /\ doing[p].amount[a] \in Int
             /\ a \in wrote[p] <=> doing[p].amount[a] # 0
  BY <1>1, <1>2, <1>4, AmountOf DEF TypeOK, Touched
<1>5. ASSUME NEW a \in Accounts \ Overdraft, doing[p].amount[a] < 0
      PROVE  balance[a] + doing[p].amount[a] >= 0
  <2>1. Covered(doing[p], a)
    BY <1>4, <1>5 DEF RowLocks
  <2> QED
    BY <1>4, <1>5, <2>1 DEF Covered
<1>6. ASSUME NEW a \in Accounts
      PROVE  balance[a] + doing[p].amount[a]
               = IF a \in wrote[p] THEN after[p][a] ELSE balance[a]
  <2>1. CASE a \in wrote[p]
    BY <1>6, <2>1 DEF RowLocks
  <2>2. CASE a \notin wrote[p]
    <3>1. balance[a] \in Int /\ doing[p].amount[a] = 0
      BY <1>4, <1>6, <2>2
    <3> QED
      BY <2>2, <3>1
  <2> QED
    BY <2>1, <2>2
<1>7. balance' = [a \in Accounts |-> balance[a] + doing[p].amount[a]]
  BY <1>6 DEF Commit
<1> QED
  BY <1>2, <1>3, <1>5, <1>7

\* Only a commit changes what is in the ledger.
LEMMA OnlyCommits ==
  ASSUME [Next]_vars
  PROVE  (UNCHANGED ledgerVars) \/ \E p \in Callers : Commit(p)
BY DEF Next, vars, ledgerVars, Begin, Replay, Insert, InsertLost, Update, Short,
       Announce, Fail

LEMMA NoDebtKept == Inv /\ [Next]_vars => NoDebt'
<1> SUFFICES ASSUME Inv, [Next]_vars PROVE NoDebt'
  OBVIOUS
<1>1. CASE UNCHANGED ledgerVars
  BY <1>1 DEF Inv, NoDebt, ledgerVars
<1>2. ASSUME NEW p \in Callers, Commit(p) PROVE NoDebt'
  <2>1. /\ doing[p] \in Requests
        /\ \A a \in Accounts \ Overdraft :
             doing[p].amount[a] < 0 => balance[a] + doing[p].amount[a] >= 0
        /\ balance' = [a \in Accounts |-> balance[a] + doing[p].amount[a]]
    BY <1>2, CommitPosts
  <2>2. ASSUME NEW a \in Accounts \ Overdraft PROVE balance'[a] >= 0
    <3>1. balance[a] \in Int /\ balance[a] >= 0 /\ doing[p].amount[a] \in Int
      BY <2>1, <2>2, AmountOf DEF Inv, TypeOK, NoDebt
    <3>2. balance'[a] = balance[a] + doing[p].amount[a]
      BY <2>1
    <3> QED
      BY <2>1, <2>2, <3>1, <3>2
  <2> QED
    BY <2>2 DEF NoDebt
<1> QED
  BY <1>1, <1>2, OnlyCommits

LEMMA Appended ==
  ASSUME NEW S, NEW s \in Seq(S), NEW e \in S
  PROVE  /\ Len(Append(s, e)) = Len(s) + 1 /\ Len(s) \in Nat
         /\ \A i \in 1 .. Len(s) : Append(s, e)[i] = s[i]
         /\ Append(s, e)[Len(s) + 1] = e
         /\ Append(s, e) # <<>>
         /\ s = <<>> <=> Len(s) = 0
BY AppendProperties, EmptySeq, LenProperties

\* Appending the entry whose balanceAfter is the new balance extends the chain.
LEMMA ViewsKept == Inv /\ [Next]_vars => ViewsAgree'
<1> SUFFICES ASSUME Inv, [Next]_vars PROVE ViewsAgree'
  OBVIOUS
<1>1. CASE UNCHANGED ledgerVars
  BY <1>1 DEF Inv, ViewsAgree, LastAfter, ledgerVars
<1>2. ASSUME NEW p \in Callers, Commit(p) PROVE ViewsAgree'
  <2> DEFINE r == doing[p]
             new(a) == [key |-> r.key, amount |-> r.amount[a], after |-> after[p][a]]
  <2>1. r \in Requests /\ r.key \in Keys
    BY <1>2, CommitPosts, KeyOf
  <2>2. \A a \in Accounts : /\ new(a) \in Entry
                             /\ new(a).amount = r.amount[a]
                             /\ new(a).after = after[p][a]
    <3> SUFFICES ASSUME NEW a \in Accounts
                 PROVE  /\ new(a) \in Entry
                        /\ new(a).amount = r.amount[a]
                        /\ new(a).after = after[p][a]
      OBVIOUS
    <3>1. r.amount[a] \in Int
      BY <2>1, AmountOf
    <3>2. after[p] \in [Accounts -> Int]
      BY <1>2 DEF Inv, TypeOK
    <3> QED
      BY <2>1, <3>1, <3>2 DEF Entry
  <2>3. ASSUME NEW a \in Accounts
        PROVE  /\ balance'[a] = LastAfter(a)'
               /\ \A i \in 1 .. Len(entries'[a]) :
                    entries'[a][i].after =
                      entries'[a][i].amount
                        + IF i = 1 THEN Opening[a] ELSE entries'[a][i - 1].after
    <3>1. /\ entries[a] \in Seq(Entry) /\ balance[a] = LastAfter(a)
          /\ \A i \in 1 .. Len(entries[a]) :
               entries[a][i].after =
                 entries[a][i].amount
                   + IF i = 1 THEN Opening[a] ELSE entries[a][i - 1].after
      BY <2>3 DEF Inv, TypeOK, ViewsAgree
    <3>2. CASE a \notin wrote[p]
      <4>1. entries'[a] = entries[a] /\ balance'[a] = balance[a]
        BY <1>2, <2>3, <3>2 DEF Commit
      <4> QED
        BY <3>1, <4>1 DEF LastAfter
    <3>3. CASE a \in wrote[p]
      <4> DEFINE s == entries[a]
      <4>1. entries'[a] = Append(s, new(a)) /\ balance'[a] = after[p][a]
        BY <1>2, <2>3, <3>3 DEF Commit
      <4>2. after[p][a] = balance[a] + r.amount[a]
        BY <1>2, <3>3 DEF Inv, RowLocks
      <4>3. /\ s \in Seq(Entry) /\ new(a) \in Entry
            /\ new(a).amount = r.amount[a] /\ new(a).after = after[p][a]
        BY <2>2, <2>3, <3>1
      <4> HIDE DEF new, r
      <4>4. /\ Len(Append(s, new(a))) = Len(s) + 1 /\ Len(s) \in Nat
            /\ \A i \in 1 .. Len(s) : Append(s, new(a))[i] = s[i]
            /\ Append(s, new(a))[Len(s) + 1] = new(a)
            /\ Append(s, new(a)) # <<>>
            /\ s = <<>> <=> Len(s) = 0
        BY <4>3, Appended
      <4>5. balance'[a] = LastAfter(a)'
        BY <4>1, <4>3, <4>4 DEF LastAfter
      <4>6. ASSUME NEW i \in 1 .. Len(s) + 1
            PROVE  entries'[a][i].after =
                     entries'[a][i].amount
                       + IF i = 1 THEN Opening[a] ELSE entries'[a][i - 1].after
        <5>1. CASE i <= Len(s)
          <6>1. /\ entries'[a][i] = s[i]
                /\ i # 1 => i - 1 \in 1 .. Len(s) /\ entries'[a][i - 1] = s[i - 1]
            BY <4>1, <4>4, <4>6, <5>1
          <6> QED
            BY <3>1, <4>4, <4>6, <5>1, <6>1
        <5>2. CASE i = Len(s) + 1
          <6>1. balance[a] = IF i = 1 THEN Opening[a] ELSE s[i - 1].after
            BY <3>1, <4>4, <5>2 DEF LastAfter
          <6>2. /\ entries'[a][i] = new(a)
                /\ i # 1 => entries'[a][i - 1] = s[i - 1]
            BY <4>1, <4>4, <5>2
          <6>3. balance[a] \in Int /\ r.amount[a] \in Int
            BY <2>1, <2>3, AmountOf DEF Inv, TypeOK
          <6> QED
            BY <4>2, <4>3, <6>1, <6>2, <6>3
        <5> QED
          BY <4>4, <4>6, <5>1, <5>2
      <4> QED
        BY <4>1, <4>4, <4>5, <4>6
    <3> QED
      BY <3>2, <3>3
  <2>4. \A a \in Available : points'[a] = balance'[a]
    BY <1>2 DEF Commit, Inv, ViewsAgree
  <2> QED
    BY <2>3, <2>4 DEF ViewsAgree
<1> QED
  BY <1>1, <1>2, OnlyCommits

LEMMA NextInv == Inv /\ [Next]_vars => Inv'
BY TypesKept, RowLocksKept, KeyLocksKept, AnnouncersKept, AnnouncedKept, ToldKept, NoDebtKept,
   ViewsKept DEF Inv

LEMMA SpecInv == Spec => []Inv
<1>1. Init => Inv
  BY InitInv
<1>2. Inv /\ [Next]_vars => Inv'
  BY NextInv
<1> QED
  BY <1>1, <1>2, PTL DEF Spec

\* The rows and the callers of WalletService.post stay well-formed, and only open
\* transactions hold rows.
THEOREM LedgerTypes == Spec => []TypeOK
<1>1. Inv => TypeOK
  BY DEF Inv
<1> QED
  BY <1>1, SpecInv, PTL

\* No account but issuance and clearing is ever overdrawn by concurrent postings.
THEOREM LedgerNeverInDebt == Spec => []NoDebt
<1>1. Inv => NoDebt
  BY DEF Inv
<1> QED
  BY <1>1, SpecInv, PTL

\* pointsBalance, the account balances and the chain of balanceAfter never
\* disagree.
THEOREM LedgerViewsAgree == Spec => []ViewsAgree
<1>1. Inv => ViewsAgree
  BY DEF Inv
<1> QED
  BY <1>1, SpecInv, PTL

\* A caller that is told of success finds its own request in the ledger.
THEOREM LedgerAnswersHonestly == Spec => []HonestAnswer
<1>1. Inv => HonestAnswer
  BY DEF Inv, Told
<1> QED
  BY <1>1, SpecInv, PTL

\* The after-commit announcement of a posting is made at most once, and never for
\* one that rolled back.
THEOREM LedgerAnnouncesOnce == Spec => []AnnouncedOnce
<1>1. Inv => AnnouncedOnce
  BY DEF Inv
<1> QED
  BY <1>1, SpecInv, PTL

\* Row by row, under locks, post does what the contract does in one step: every
\* posting is atomic, covered by the accounts it debits, and made once per key.
THEOREM LedgerKeepsContract == Spec => Promise
<1>1. Init => Contract!Init
  BY DEF Init, Contract!Init, Keys
<1>2. Inv /\ [Next]_vars => [Contract!Next]_(Contract!vars)
  <2> SUFFICES ASSUME Inv, [Next]_vars PROVE [Contract!Next]_(Contract!vars)
    OBVIOUS
  <2>1. CASE UNCHANGED ledgerVars
    BY <2>1 DEF ledgerVars, Contract!vars
  <2>2. ASSUME NEW p \in Callers, Commit(p) PROVE Contract!Next
    <3>1. Contract!Post(doing[p])
      BY <2>2, CommitPosts DEF Contract!Post, Commit
    <3> QED
      BY <2>2, <3>1, CommitPosts DEF Contract!Next
  <2> QED
    BY <2>1, <2>2, OnlyCommits
<1> QED
  BY <1>1, <1>2, SpecInv, PTL DEF Spec, Promise, Contract!Spec

-----------------------------------------------------------------------------
(* Nobody waits in a circle. *)

\* A finite set of integers has a greatest one.
LEMMA Greatest ==
  ASSUME NEW T, IsFiniteSet(T), T \subseteq Int, T # {}
  PROVE  \E m \in T : \A x \in T : x <= m
<1> DEFINE Has(s) == \E m \in s : \A x \in s : x <= m
           C == {s \in SUBSET T : s # {} => Has(s)}
<1>1. {} \in C
  OBVIOUS
<1>2. ASSUME NEW s \in SUBSET T, NEW x \in T \ s, s \in C PROVE s \cup {x} \in C
  <2>1. CASE s = {}
    <3>1. x <= x
      OBVIOUS
    <3> QED
      BY <2>1, <3>1
  <2>2. CASE s # {}
    <3>1. PICK m \in s : \A y \in s : y <= m
      BY <1>2, <2>2
    <3>2. m \in Int /\ x \in Int /\ \A y \in s : y \in Int
      OBVIOUS
    <3>3. CASE x <= m
      BY <3>1, <3>2, <3>3
    <3>4. CASE ~(x <= m)
      <4>1. \A y \in s \cup {x} : y <= x
        BY <3>1, <3>2, <3>4
      <4> QED
        BY <4>1
    <3> QED
      BY <3>3, <3>4
  <2> QED
    BY <2>1, <2>2
<1> HIDE DEF C
<1>3. T \in C
  BY <1>1, <1>2, SubsetsInFamily
<1> QED
  BY <1>3 DEF C

Open == {p \in Callers : stage[p] # "idle"}

\* What keeps callers from waiting in a circle: a transaction holds only rows
\* before those it has still to update, and only finitely many are open.
Ascending ==
  \A p \in Callers : \A a \in wrote[p], b \in Touched(doing[p]) \ wrote[p] : a < b

LEMMA OpenKept ==
  ASSUME TypeOK, IsFiniteSet(Open), [Next]_vars
  PROVE  IsFiniteSet(Open')
<1>1. ASSUME NEW p \in Callers, NEW new, stage' = [stage EXCEPT ![p] = new]
      PROVE  IsFiniteSet(Open')
  <2>1. Open' \subseteq Open \cup {p}
    BY <1>1 DEF Open, TypeOK
  <2>2. IsFiniteSet(Open \cup {p})
    BY FS_AddElement
  <2> QED
    BY <2>1, <2>2, FS_Subset
<1>2. CASE stage' = stage
  <2>1. Open' = Open
    BY <1>2 DEF Open
  <2> QED
    BY <2>1
<1>3. ASSUME NEW p \in Callers, NEW what, End(p, what) PROVE IsFiniteSet(Open')
  BY <1>1, <1>3 DEF End
<1>4. CASE UNCHANGED vars
  BY <1>2, <1>4 DEF vars
<1>5. ASSUME NEW p \in Callers, InsertLost(p) PROVE \E what : End(p, what)
  BY <1>5 DEF InsertLost
<1>6. ASSUME NEW p \in Callers,
             \/ \E r \in Requests : Begin(p, r) \/ Replay(p, r)
             \/ Insert(p) \/ InsertLost(p) \/ Commit(p) \/ Announce(p) \/ Fail(p)
             \/ \E a \in Accounts : Update(p, a) \/ Short(p, a)
      PROVE  IsFiniteSet(Open')
  <2>1. ASSUME NEW r, Begin(p, r) PROVE IsFiniteSet(Open')
    BY <1>1, <2>1 DEF Begin
  <2>2. ASSUME NEW r, Replay(p, r) PROVE IsFiniteSet(Open')
    BY <1>2, <2>2 DEF Replay
  <2>3. CASE Insert(p) \/ Commit(p)
    BY <1>1, <2>3 DEF Insert, Commit
  <2>4. CASE InsertLost(p) \/ Announce(p) \/ Fail(p)
    BY <1>3, <1>5, <2>4 DEF Announce, Fail
  <2>5. ASSUME NEW a, Update(p, a) PROVE IsFiniteSet(Open')
    BY <1>2, <2>5 DEF Update
  <2>6. ASSUME NEW a, Short(p, a) PROVE IsFiniteSet(Open')
    BY <1>3, <2>6 DEF Short
  <2> QED
    BY <1>6, <2>1, <2>2, <2>3, <2>4, <2>5, <2>6
<1> QED
  BY <1>4, <1>6 DEF Next

LEMMA AscendingKept == Inv /\ Ascending /\ [Next]_vars => Ascending'
<1> SUFFICES ASSUME Inv, Ascending, [Next]_vars PROVE Ascending'
  OBVIOUS
<1> USE DEF Ascending, Inv, TypeOK
<1>1. ASSUME NEW p \in Callers, NEW r, Begin(p, r) \/ Replay(p, r) PROVE Ascending'
  BY <1>1 DEF Begin, Replay
<1>2. ASSUME NEW p \in Callers, Insert(p) PROVE Ascending'
  BY <1>2 DEF Insert
<1>3. ASSUME NEW p \in Callers, NEW what, End(p, what), doing' = doing PROVE Ascending'
  BY <1>3 DEF End
<1>4. ASSUME NEW p \in Callers, InsertLost(p) \/ Announce(p) \/ Fail(p) PROVE Ascending'
  BY <1>3, <1>4 DEF InsertLost, Announce, Fail
<1>5. ASSUME NEW p \in Callers, NEW a \in Accounts, Short(p, a) PROVE Ascending'
  BY <1>3, <1>5 DEF Short
<1>6. ASSUME NEW p \in Callers, NEW a \in Accounts, Update(p, a) PROVE Ascending'
  <2>1. wrote' = [wrote EXCEPT ![p] = @ \cup {a}] /\ doing' = doing /\ Upcoming(p, a)
    BY <1>6 DEF Update
  <2>2. \A b \in Touched(doing[p]) \ wrote[p] : b # a => a < b
    <3>1. \A b \in Touched(doing[p]) \ wrote[p] : a <= b
      BY <2>1 DEF Upcoming
    <3>2. a \in Int /\ \A b \in Touched(doing[p]) : b \in Int
      BY DEF Touched
    <3> QED
      BY <3>1, <3>2
  <2>3. Touched(doing[p])' = Touched(doing[p])
    BY <2>1 DEF Touched
  <2> QED
    BY <2>1, <2>2, <2>3 DEF Touched
<1>7. ASSUME NEW p \in Callers, Commit(p) PROVE Ascending'
  BY <1>7 DEF Commit
<1>8. CASE UNCHANGED vars
  BY <1>8 DEF vars
<1> QED
  BY <1>1, <1>2, <1>4, <1>5, <1>6, <1>7, <1>8 DEF Next

LEMMA SpecWaiting == Spec => [](Inv /\ Ascending /\ IsFiniteSet(Open))
<1>1. Init => Inv /\ Ascending /\ IsFiniteSet(Open)
  <2> SUFFICES ASSUME Init PROVE Ascending /\ IsFiniteSet(Open)
    BY InitInv
  <2>1. Open = {}
    BY DEF Init, Open
  <2> QED
    BY <2>1, FS_EmptySet DEF Init, Ascending
<1>2. Inv /\ Ascending /\ IsFiniteSet(Open) /\ [Next]_vars
        => (Inv /\ Ascending /\ IsFiniteSet(Open))'
  <2> SUFFICES ASSUME Inv, Ascending, IsFiniteSet(Open), [Next]_vars
               PROVE  Inv' /\ Ascending' /\ IsFiniteSet(Open')
    OBVIOUS
  <2>1. TypeOK
    BY DEF Inv
  <2> QED
    BY <2>1, NextInv, AscendingKept, OpenKept
<1> QED
  BY <1>1, <1>2, PTL DEF Spec

\* Of callers that update rows and wait, the one that waits for the greatest row
\* waits for none of them: who holds that row waits for a greater one.
LEMMA SomeoneGoesOn ==
  ASSUME Inv, Ascending, IsFiniteSet(Open)
  PROVE  NoStandstill
<1> SUFFICES ASSUME NEW S \in SUBSET Callers, S # {},
                    ~\E p \in S : \A q \in S \ {p} : ~WaitsFor(p, q)
             PROVE  FALSE
  BY Zenon DEF NoStandstill
<1> DEFINE waiting == {p \in S : stage[p] = "update"}
           rows == {a \in Accounts : \E p \in waiting : Upcoming(p, a)}
<1>1. ASSUME NEW p \in S, NEW q \in S, WaitsFor(p, q) PROVE q \in waiting
  <2>1. stage[q] = "update" \/ wrote[q] # {}
    BY <1>1 DEF WaitsFor, HoldsKey
  <2> QED
    BY <2>1 DEF Inv, TypeOK
<1>2. ASSUME NEW p \in waiting
      PROVE  \E q \in waiting, a \in rows : Upcoming(p, a) /\ a \in wrote[q]
  <2>1. PICK q \in S : WaitsFor(p, q)
    OBVIOUS
  <2>2. PICK a \in Accounts : Upcoming(p, a) /\ a \in wrote[q]
    BY <2>1 DEF WaitsFor
  <2>3. q \in waiting
    BY <1>1, <2>1
  <2> QED
    BY <2>2, <2>3
<1>3. waiting # {}
  BY <1>1
<1>4. rows # {}
  BY <1>2, <1>3
<1>5. \A p \in S, a, b \in Accounts : Upcoming(p, a) /\ Upcoming(p, b) => a = b
  BY DEF Upcoming
<1>6. IsFiniteSet(rows)
  <2> DEFINE holders == {p \in waiting : \E a \in rows : Upcoming(p, a)}
             upcoming == [p \in holders |-> CHOOSE a \in rows : Upcoming(p, a)]
  <2>1. IsFiniteSet(holders)
    <3>1. holders \subseteq Open
      BY DEF Open
    <3> QED
      BY <3>1, FS_Subset
  <2>2. \A p \in holders : upcoming[p] \in rows /\ Upcoming(p, upcoming[p])
    OBVIOUS
  <2>3. ASSUME NEW a \in rows PROVE \E p \in holders : upcoming[p] = a
    <3>1. PICK p \in waiting : Upcoming(p, a)
      OBVIOUS
    <3>2. p \in holders
      BY <3>1
    <3> QED
      BY <1>5, <2>2, <3>1, <3>2
  <2> HIDE DEF holders, rows
  <2>4. upcoming \in Surjection(holders, rows)
    <3>1. upcoming \in [holders -> rows]
      BY <2>2
    <3> HIDE DEF upcoming
    <3> QED
      BY <2>3, <3>1 DEF Surjection
  <2> QED
    BY <2>1, <2>4, FS_Surjection
<1>7. PICK m \in rows : \A a \in rows : a <= m
  <2>1. rows \subseteq Int
    OBVIOUS
  <2> HIDE DEF rows
  <2> QED
    BY <1>4, <1>6, <2>1, Greatest
<1>8. PICK p \in waiting : Upcoming(p, m)
  OBVIOUS
<1>9. PICK q \in waiting : m \in wrote[q]
  <2>1. PICK q \in waiting, a \in rows : Upcoming(p, a) /\ a \in wrote[q]
    BY <1>2
  <2>2. a = m
    BY <1>5, <1>8, <2>1
  <2> QED
    BY <2>1, <2>2
<1>10. PICK b \in rows : Upcoming(q, b)
  BY <1>2
<1>11. m < b
  BY <1>9, <1>10 DEF Ascending, Upcoming
<1> QED
  BY <1>7, <1>10, <1>11

\* Concurrent postings never wait for each other in a circle, whatever accounts
\* and keys they use: every posting updates its rows in the order of the keys.
THEOREM LedgerNeverStandsStill == Spec => []NoStandstill
  BY SpecWaiting, SomeoneGoesOn, PTL
=============================================================================
