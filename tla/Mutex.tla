------------------------------- MODULE Mutex -------------------------------
(***************************************************************************)
(* What a lock in shared memory promises to the processes that share it:   *)
(* at most one holder, released only by its holder, or by a supervisor on  *)
(* behalf of a holder that has died.  Shmtx implements this module.        *)
(***************************************************************************)

CONSTANTS
  Workers,  (* the processes that take the lock *)
  Free      (* the value of holder when nobody holds the lock *)

VARIABLES
  holder,   (* the process that holds the lock, or Free *)
  down      (* the processes that have died and were not started again *)

mvars == << holder, down >>

MInit ==
  /\ holder = Free
  /\ down = {}

Acquire(p) ==
  /\ p \notin down
  /\ holder = Free
  /\ holder' = p
  /\ UNCHANGED down

Release(p) ==
  /\ p \notin down
  /\ holder = p
  /\ holder' = Free
  /\ UNCHANGED down

Die(p) ==
  /\ p \notin down
  /\ down' = down \cup {p}
  /\ UNCHANGED holder

(* The supervisor releases the lock of a dead process. *)
Reclaim(p) ==
  /\ p \in down
  /\ holder = p
  /\ holder' = Free
  /\ UNCHANGED down

(* A process is started again only when it left no lock behind. *)
Restart(p) ==
  /\ p \in down
  /\ holder # p
  /\ down' = down \ {p}
  /\ UNCHANGED holder

MNext ==
  \E p \in Workers :
    \/ Acquire(p)
    \/ Release(p)
    \/ Die(p)
    \/ Reclaim(p)
    \/ Restart(p)

MSpec == MInit /\ [][MNext]_mvars
=============================================================================
