-------------------------- MODULE MCVipPermissions --------------------------
(* VipPermissions for TLC.  The view leaves out what is not read again: the *)
(* records of a job that is over and in no server's hands, how such a job   *)
(* ended when there is a newer one, what a report says that will be         *)
(* refused, what a claim has read once it only closes older leases, and how *)
(* a membership is not synced.                                              *)
EXTENDS VipPermissions, TLC

\* Nothing is said of what happens once jobs may have run out of order, or of
\* the memberships once no job can follow a change that could not be queued.
Bounded == ~astray /\ (missed => \E j \in Jobs : ~Exists(j))

InHands(j) == \E s \in Servers : work[s].job = j
Readable == {j \in Jobs : status[j] \in {"pending", "leased", "dead_letter"} \/ InHands(j)}
Past == {j \in Jobs : Exists(j) /\ j \notin Open /\ Later(j) # {}}
Refused(s) == Busy(s, "report") /\ ~Valid(s)

View ==
  <<row, {r \in Active : sync[r] = "synced"}, missed, pin, game, news, astray, backoff, expired, host,
    [j \in Jobs |-> IF j \in Past THEN "superseded" ELSE status[j]],
    [j \in Jobs |-> IF j \in Past /\ ~InHands(j) THEN <<"none", FALSE>>
                    ELSE <<action[j], j \in over>>],
    [s \in Servers |-> IF Reading(s, "close") THEN [older |-> seen[s].older] ELSE seen[s]],
    [s \in Servers |-> IF Refused(s) THEN [says |-> "refused"] ELSE work[s]],
    [s \in Servers |-> journal[s] \cap Readable]>>

Symmetry == Permutations(Servers)
=============================================================================
