---------------------------- MODULE DinoListing ----------------------------
(* Listing a dino for sale. The game server asks the backend for a lock     *)
(* (prepareLock), re-checks the dino when the answer arrives, journals the  *)
(* sale, destroys the dino and confirms the lock, which creates the         *)
(* listing (confirmLock). A recovery pass after every poll resumes what a   *)
(* crash or a lost answer left behind. The game server is one thread; the   *)
(* backend's handlers interleave.                                           *)
EXTENDS Naturals, FiniteSets

CONSTANTS
    Dinos, Locks, Prices, Handlers,
    Linked,         \* dinos whose seller's Steam account belongs to a user
    Possible        \* the mishaps a behaviour may meet

Mishaps == {
    "late",         \* a confirmation may arrive after the lock's ten minutes
    "rollback",     \* a crash took the world back to its last save
    "away",         \* a living dino was out of FindDinoWithID's sight
    "hasty"}        \* a dino was sold again before the recovery pass had run

ASSUME ListingAssumption ==
    /\ Possible \subseteq Mishaps
    /\ Linked \subseteq Dinos
    /\ "none" \notin Dinos

VARIABLES
    place,      \* dino -> where it is; "removed" is the plugin's Destroy
    saved,      \* the places of the last world save
    mishaps,    \* the mishaps met so far
    lock,       \* DinoAssetLock.status
    overdue,    \* locks past expiresAt
    subject,    \* lock -> dino and price, as captured by the /sell callback
    listings,   \* locks that have a DinoListing
    confirms,   \* handler -> the confirmLock request it serves
    offers,     \* prepared locks whose answer has not reached the game thread
    thread,     \* the game thread inside the /sell callback
    journal,    \* dino_listing records of the delivery journal
    acks        \* successful confirmations not yet seen by the game thread

game == <<place, saved, mishaps>>
backend == <<lock, overdue, subject, listings>>
sellVars == <<place, saved, mishaps, lock, overdue, subject, listings, confirms,
          offers, thread, journal, acks>>

Subjects == [dino : Dinos, price : Prices]
NoSubject == [dino |-> "none", price |-> "none"]
Idle == [lock |-> "idle", at |-> "idle"]
Places == {"world", "away", "removed"}
LockStatuses == {"none", "prepared", "confirmed", "expired"}
Records == {"none", "prepared", "mutating", "completed"}

Of(d) == {l \in Locks : subject[l].dino = d}
PlaceOf(l) == place[subject[l].dino]

Meet(m) == m \in Possible /\ mishaps' = mishaps \cup {m}

ListingInit ==
    /\ place = [d \in Dinos |-> "world"] /\ saved = place /\ mishaps = {}
    /\ lock = [l \in Locks |-> "none"] /\ overdue = {}
    /\ subject = [l \in Locks |-> NoSubject]
    /\ listings = {} /\ confirms = [h \in Handlers |-> Idle]
    /\ offers = {} /\ thread = Idle
    /\ journal = [l \in Locks |-> "none"] /\ acks = {}

(* ---------------------------------------------------------------------- *)
(* The game thread                                                        *)

\* /sell: the dino's snapshot is taken and prepareLock stores a lock.
Prepare(d, p, l) ==
    /\ thread = Idle /\ place[d] = "world" /\ lock[l] = "none"
    /\ lock' = [lock EXCEPT ![l] = "prepared"]
    /\ subject' = [subject EXCEPT ![l] = [dino |-> d, price |-> p]]
    /\ offers' = offers \cup {l}
    /\ UNCHANGED <<game, overdue, listings, confirms, thread, journal, acks>>

\* The answer is lost, the player or the dino changed, or the journal cannot
\* be written: the dino stays.
Decline(l) ==
    /\ l \in offers /\ thread = Idle
    /\ offers' = offers \ {l}
    /\ UNCHANGED <<game, backend, confirms, thread, journal, acks>>

\* Journal->Begin, once the dino is found again.
BeginListing(l) ==
    /\ l \in offers /\ thread = Idle
    /\ PlaceOf(l) = "world" /\ journal[l] = "none"
    /\ IF \E k \in Of(subject[l].dino) : journal[k] = "mutating"
       THEN Meet("hasty") ELSE mishaps' = mishaps
    /\ offers' = offers \ {l}
    /\ journal' = [journal EXCEPT ![l] = "prepared"]
    /\ thread' = [lock |-> l, at |-> "mark"]
    /\ UNCHANGED <<place, saved, backend, confirms, acks>>

\* Journal->MarkMutating; when the file cannot be replaced, Journal->Abort,
\* which may be unable to write either.
MarkListing(l) ==
    /\ thread = [lock |-> l, at |-> "mark"]
    /\ \/ /\ journal' = [journal EXCEPT ![l] = "mutating"]
          /\ thread' = [lock |-> l, at |-> "destroy"]
       \/ /\ \/ journal' = [journal EXCEPT ![l] = "none"]
             \/ journal' = journal
          /\ thread' = Idle
    /\ UNCHANGED <<game, backend, confirms, offers, acks>>

Destroy(l) ==
    /\ thread = [lock |-> l, at |-> "destroy"]
    /\ place' = [place EXCEPT ![subject[l].dino] = "removed"]
    /\ thread' = [lock |-> l, at |-> "send"]
    /\ UNCHANGED <<saved, mishaps, backend, confirms, offers, journal, acks>>

\* ConfirmPreparedDinoListing: the request reaches a handler or is lost.
Confirm(l) ==
    \/ confirms' = confirms
    \/ \E h \in Handlers :
          /\ confirms[h] = Idle
          /\ confirms' = [confirms EXCEPT ![h] = [lock |-> l, at |-> "sent"]]

SendConfirm(l) ==
    /\ thread = [lock |-> l, at |-> "send"]
    /\ Confirm(l) /\ thread' = Idle
    /\ UNCHANGED <<game, backend, offers, journal, acks>>

\* Mutant: recovery abandons every unfinished record.
CancelAny(l) ==
    /\ thread = Idle /\ journal[l] \in {"prepared", "mutating"}
    /\ journal' = [journal EXCEPT ![l] = "none"]
    /\ UNCHANGED <<game, backend, confirms, offers, thread, acks>>

\* RecoverPendingDinoListings: a record never marked, or one whose dino is
\* still there, is abandoned.
CancelListing(l) ==
    /\ thread = Idle
    /\ \/ journal[l] = "prepared"
       \/ journal[l] = "mutating" /\ PlaceOf(l) = "world"
    /\ journal' = [journal EXCEPT ![l] = "none"]
    /\ UNCHANGED <<game, backend, confirms, offers, thread, acks>>

\* Mutant: recovery confirms without looking for the dino.
ConfirmUnchecked(l) ==
    /\ thread = Idle /\ journal[l] = "mutating"
    /\ Confirm(l)
    /\ UNCHANGED <<game, backend, offers, thread, journal, acks>>

\* RecoverPendingDinoListings: the dino is not found, so confirm once more.
ConfirmAgain(l) ==
    /\ thread = Idle /\ journal[l] = "mutating" /\ PlaceOf(l) # "world"
    /\ Confirm(l)
    /\ UNCHANGED <<game, backend, offers, thread, journal, acks>>

\* The callback of a successful confirmation: Journal->Complete.
CompleteListing(l) ==
    /\ l \in acks /\ thread = Idle
    /\ acks' = acks \ {l}
    /\ journal' = IF journal[l] = "none" THEN journal
                  ELSE [journal EXCEPT ![l] = "completed"]
    /\ UNCHANGED <<game, backend, confirms, offers, thread>>

\* The answer is lost, or the completion cannot be written.
LoseAck(l) ==
    /\ l \in acks
    /\ acks' = acks \ {l}
    /\ UNCHANGED <<game, backend, confirms, offers, thread, journal>>

Crash ==
    /\ thread' = Idle /\ offers' = {} /\ acks' = {}
    /\ \/ UNCHANGED <<place, mishaps>>
       \/ saved # place /\ place' = saved /\ Meet("rollback")
    /\ UNCHANGED <<saved, backend, confirms, journal>>

SaveWorld ==
    /\ "rollback" \in Possible /\ saved' = place
    /\ UNCHANGED <<place, mishaps, backend, confirms, offers, thread, journal, acks>>

\* The dino is put into a cryopod or uploaded, or is back.
Roam(d) ==
    /\ thread = Idle /\ Meet("away")
    /\ \/ place[d] = "world" /\ place' = [place EXCEPT ![d] = "away"]
       \/ place[d] = "away" /\ place' = [place EXCEPT ![d] = "world"]
    /\ UNCHANGED <<saved, backend, confirms, offers, thread, journal, acks>>

(* ---------------------------------------------------------------------- *)
(* The backend's confirmLock                                              *)

Finish(h) == confirms' = [confirms EXCEPT ![h] = Idle]
Proceed(h, at) == confirms' = [confirms EXCEPT ![h].at = at]

\* Mutant: only a prepared lock is answered with success.
ReadLockOnce(h) ==
    LET l == confirms[h].lock
    IN  /\ confirms[h].at = "sent"
        /\ \/ lock[l] = "prepared" /\ Proceed(h, "commit")
           \/ lock[l] # "prepared" /\ Finish(h)
        /\ UNCHANGED <<game, backend, offers, thread, journal, acks>>

\* The lock is read outside the transaction; a confirmed one is replayed.
ReadLock(h) ==
    LET l == confirms[h].lock
        linked == subject[l].dino \in Linked
    IN  /\ confirms[h].at = "sent"
        /\ \/ /\ lock[l] = "confirmed"
              /\ Finish(h) /\ acks' = acks \cup {l}
           \/ /\ lock[l] = "prepared" /\ l \in overdue
              /\ Proceed(h, "expire") /\ UNCHANGED acks
           \/ /\ lock[l] = "prepared" /\ l \notin overdue /\ linked
              /\ Proceed(h, "commit") /\ UNCHANGED acks
           \/ /\ \/ lock[l] = "expired"
                 \/ lock[l] = "prepared" /\ l \notin overdue /\ ~linked
              /\ Finish(h) /\ UNCHANGED acks
        /\ UNCHANGED <<game, backend, offers, thread, journal>>

\* The update by id that a read past expiresAt leads to.
ExpireLock(h) ==
    /\ confirms[h].at = "expire"
    /\ lock' = [lock EXCEPT ![confirms[h].lock] = "expired"]
    /\ Finish(h)
    /\ UNCHANGED <<game, overdue, subject, listings, offers, thread, journal, acks>>

\* The transaction: prepared -> confirming -> listing -> confirmed. A lock
\* that is no longer prepared, or a fingerprint already listed, rolls it back.
CommitListing(h) ==
    LET l == confirms[h].lock
        fresh == lock[l] = "prepared" /\ \A k \in listings : subject[k] # subject[l]
    IN  /\ confirms[h].at = "commit"
        /\ Finish(h)
        /\ \/ /\ fresh
              /\ lock' = [lock EXCEPT ![l] = "confirmed"]
              /\ listings' = listings \cup {l}
              /\ acks' = acks \cup {l}
           \/ ~fresh /\ UNCHANGED <<lock, listings, acks>>
        /\ UNCHANGED <<game, overdue, subject, offers, thread, journal>>

\* The request or the process serving it is lost.
LoseConfirm(h) ==
    /\ confirms[h] # Idle /\ Finish(h)
    /\ UNCHANGED <<game, backend, offers, thread, journal, acks>>

TimePasses(l) ==
    /\ lock[l] = "prepared" /\ Meet("late")
    /\ overdue' = overdue \cup {l}
    /\ UNCHANGED <<place, saved, lock, subject, listings, confirms, offers, thread, journal, acks>>

Sell(l) ==
    \/ Decline(l) \/ BeginListing(l) \/ MarkListing(l) \/ Destroy(l) \/ SendConfirm(l)
    \/ \E d \in Dinos, p \in Prices : Prepare(d, p, l)
Recover(l) == CancelListing(l) \/ ConfirmAgain(l) \/ CompleteListing(l) \/ LoseAck(l)
ConfirmLock(h) == ReadLock(h) \/ ExpireLock(h) \/ CommitListing(h) \/ LoseConfirm(h)

ListingNext ==
    \/ \E l \in Locks : Sell(l) \/ Recover(l) \/ TimePasses(l)
    \/ \E h \in Handlers : ConfirmLock(h)
    \/ \E d \in Dinos : Roam(d)
    \/ Crash \/ SaveWorld

ListingSpec == ListingInit /\ [][ListingNext]_sellVars

\* The game thread runs its callback, every poll recovers, and the network
\* lets a repeated exchange through in the end. Handlers finish.
Delivers(l) ==
    /\ ConfirmAgain(l) /\ confirms' # confirms
ListingFairness ==
    /\ \A l \in Locks :
          /\ WF_sellVars(MarkListing(l)) /\ WF_sellVars(Destroy(l)) /\ WF_sellVars(SendConfirm(l))
          /\ SF_sellVars(CancelListing(l)) /\ SF_sellVars(Delivers(l)) /\ SF_sellVars(CompleteListing(l))
    /\ \A h \in Handlers :
          /\ SF_sellVars(ReadLock(h)) /\ SF_sellVars(ExpireLock(h)) /\ SF_sellVars(CommitListing(h))
FairListingSpec == ListingSpec /\ ListingFairness

(* ---------------------------------------------------------------------- *)

\* Types, and what the game thread's position says of the journal.
ListingTypeOK ==
    /\ place \in [Dinos -> Places] /\ saved \in [Dinos -> Places]
    /\ mishaps \subseteq Mishaps
    /\ lock \in [Locks -> LockStatuses] /\ overdue \subseteq Locks
    /\ subject \in [Locks -> Subjects \cup {NoSubject}]
    /\ \A l \in Locks : lock[l] = "none" <=> subject[l] = NoSubject
    /\ listings \subseteq Locks /\ offers \subseteq Locks /\ acks \subseteq Locks
    /\ confirms \in [Handlers -> {Idle} \cup [lock : Locks, at : {"sent", "commit", "expire"}]]
    /\ journal \in [Locks -> Records]
    /\ thread \in {Idle} \cup [lock : Locks, at : {"mark", "destroy", "send"}]

\* No mishap but late confirmations so far: the world kept what was
\* destroyed, and recovery preceded the next sale.
Orderly == mishaps \subseteq {"late"}

\* In an orderly world a listed dino has left the game, and it is listed once,
\* whatever sales, crashes and repeated confirmations preceded.
OnceAndGone ==
    Orderly => \A l \in listings :
        /\ PlaceOf(l) = "removed"
        /\ \A k \in listings : subject[k].dino = subject[l].dino => k = l

\* A dino the plugin destroyed is either for sale or the journal still holds
\* its snapshot under a mutating record.
Traceable ==
    \A d \in Dinos : place[d] = "removed" =>
        \E l \in Of(d) : l \in listings \/ journal[l] = "mutating"

\* A completed record has its listing: the journal forgets a destroyed dino
\* only when the backend has it.
CompletedIsListed == \A l \in Locks : journal[l] = "completed" => l \in listings

\* Recovery that cancelled a sale (HeartShop.cpp:336, "listing cancelled
\* safely") cancelled it: in an orderly world what is listed was never cancelled.
CancelledIsNotListed == Orderly => \A l \in listings : journal[l] # "none"

\* A destroyed dino is listed in the end, and its record completed, unless
\* there was a mishap.
EventuallyListed ==
    \A d \in Linked : place[d] = "removed" ~>
        \/ mishaps # {}
        \/ \E l \in Of(d) : l \in listings /\ journal[l] = "completed"

\* Confirming a dino that no longer exists "is safe and idempotent"
\* (HeartShop.cpp:341): one dino is not listed twice.
ListedOnce ==
    \A k, l \in listings : subject[k].dino = subject[l].dino => k = l

=============================================================================
