----------------------------- MODULE Deliveries -----------------------------
(***************************************************************************)
(* What the backend's queue and the game server's plugin both speak of:    *)
(* the delivery jobs, the lease tokens under which they are claimed, and   *)
(* the requests that report on a lease.                                    *)
(***************************************************************************)

CONSTANTS
  Jobs,    \* delivery jobs; job j belongs to the order of the same name
  Tokens   \* lease tokens (random UUIDs)

Requests == {"complete", "fail", "release"}
=============================================================================
