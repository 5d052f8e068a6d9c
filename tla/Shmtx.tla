------------------------------- MODULE Shmtx -------------------------------
(***************************************************************************)
(* The mutex in shared memory of src/core/ngx_shmtx.c, in the variant that *)
(* is built on atomic operations: a word that holds the pid of the owner,  *)
(* a counter of waiting processes and a POSIX semaphore.  A worker may be  *)
(* killed between any two steps; the master then calls                     *)
(* ngx_shmtx_force_unlock with the pid of the dead worker, and only after  *)
(* that starts a new worker in its place.                                  *)
(*                                                                         *)
(* The test "*mtx->lock == 0" and the compare-and-set that follows it are  *)
(* one step: the compare-and-set repeats the test, so the pair succeeds    *)
(* exactly when the lock is free at the compare-and-set.  The spinning     *)
(* with ngx_cpu_pause only repeats that step.                              *)
(***************************************************************************)
EXTENDS Integers, FiniteSets

CONSTANTS
  Workers,       (* the processes that lock and unlock *)
  Master,        (* the process that force-unlocks for a dead worker *)
  Free,          (* the value 0 of the lock word *)
  Semaphore,     (* mtx->semaphore: sem_init() succeeded *)
  MaxFaults      (* bound on the workers killed and the failures of *)
                 (* sem_wait() other than EINTR, together           *)

Procs == Workers \cup {Master}

ASSUME ShmtxAssumption ==
  /\ IsFiniteSet(Workers)
  /\ Master \notin Workers
  /\ Free \notin Procs
  /\ Semaphore \in BOOLEAN
  /\ MaxFaults \in Nat

VARIABLES
  lock,     (* *mtx->lock: the pid of the owner, or Free *)
  wait,     (* *mtx->wait, read as a signed number *)
  sem,      (* the value of mtx->sem *)
  pc,       (* where each process is in the functions below *)
  seen,     (* the local variable wait of ngx_shmtx_wakeup *)
  crashes,  (* workers killed so far *)
  errors,   (* sem_wait() failures so far *)
  leak      (* history: entries of wait + sem whose process is gone *)

vars == << lock, wait, sem, pc, seen, crashes, errors, leak >>

Labels == { "idle", "try", "count", "recheck", "uncount", "sleep", "cs",
            "wake", "wakecas", "post", "dead", "reaped" }

Goto(p, l) == pc' = [pc EXCEPT ![p] = l]

(* The processes that have added themselves to wait and have neither taken *)
(* themselves out again nor consumed a token of the semaphore.             *)
Counted == { p \in Workers : pc[p] \in {"recheck", "uncount", "sleep"} }

(* The processes that have taken an entry out of wait and owe a token. *)
Posting == { p \in Procs : pc[p] = "post" }

Sleeping == { p \in Workers : pc[p] = "sleep" }

Up == { p \in Workers : pc[p] \notin {"dead", "reaped"} }

Init ==
  /\ lock = Free
  /\ wait = 0
  /\ sem = 0
  /\ pc = [p \in Procs |-> "idle"]
  /\ seen = [p \in Procs |-> 0]
  /\ crashes = 0
  /\ errors = 0
  /\ leak = 0

(* ngx_shmtx_trylock; a failed attempt changes nothing. *)
TryLock(p) ==
  /\ pc[p] = "idle"
  /\ lock = Free
  /\ lock' = p
  /\ Goto(p, "cs")
  /\ UNCHANGED << wait, sem, seen, crashes, errors, leak >>

(* ngx_shmtx_lock is called. *)
CallLock(p) ==
  /\ pc[p] = "idle"
  /\ Goto(p, "try")
  /\ UNCHANGED << lock, wait, sem, seen, crashes, errors, leak >>

(* One attempt to take the lock word, at the head of the loop or spinning. *)
LockAttempt(p) ==
  /\ pc[p] = "try"
  /\ lock = Free
  /\ lock' = p
  /\ Goto(p, "cs")
  /\ UNCHANGED << wait, sem, seen, crashes, errors, leak >>

(* The attempts failed and the process is going to sleep.  Without a       *)
(* semaphore it yields the processor and tries again.                      *)
LockBusy(p) ==
  /\ pc[p] = "try"
  /\ lock # Free
  /\ Semaphore
  /\ Goto(p, "count")
  /\ UNCHANGED << lock, wait, sem, seen, crashes, errors, leak >>

(* ngx_atomic_fetch_add(mtx->wait, 1) *)
LockCount(p) ==
  /\ pc[p] = "count"
  /\ wait' = wait + 1
  /\ Goto(p, "recheck")
  /\ UNCHANGED << lock, sem, seen, crashes, errors, leak >>

RecheckNoTest(p) ==
  /\ pc[p] = "recheck"
  /\ Goto(p, "sleep")
  /\ UNCHANGED << lock, wait, sem, seen, crashes, errors, leak >>

(* The attempt after announcing itself in wait: an unlock that did not see *)
(* the announcement has freed the lock before this step.                   *)
LockRecheck(p) ==
  /\ pc[p] = "recheck"
  /\ IF lock = Free
     THEN /\ lock' = p
          /\ Goto(p, "uncount")
     ELSE /\ Goto(p, "sleep")
          /\ UNCHANGED lock
  /\ UNCHANGED << wait, sem, seen, crashes, errors, leak >>

(* ngx_atomic_fetch_add(mtx->wait, -1), and the lock is held. *)
LockUncount(p) ==
  /\ pc[p] = "uncount"
  /\ wait' = wait - 1
  /\ Goto(p, "cs")
  /\ UNCHANGED << lock, sem, seen, crashes, errors, leak >>

(* sem_wait() returns with a token; EINTR repeats the call. *)
SemWait(p) ==
  /\ pc[p] = "sleep"
  /\ sem > 0
  /\ sem' = sem - 1
  /\ Goto(p, "try")
  /\ UNCHANGED << lock, wait, seen, crashes, errors, leak >>

(* sem_wait() fails otherwise: the loop is left without a token. *)
SemWaitFails(p) ==
  /\ pc[p] = "sleep"
  /\ crashes + errors < MaxFaults
  /\ errors' = errors + 1
  /\ leak' = leak + 1
  /\ Goto(p, "try")
  /\ UNCHANGED << lock, wait, sem, seen, crashes >>

(* Where ngx_shmtx_unlock and ngx_shmtx_force_unlock continue: they call   *)
(* ngx_shmtx_wakeup, which returns at once without a semaphore.            *)
AfterUnlock == IF Semaphore THEN "wake" ELSE "idle"

UnlockSilent(p) ==
  /\ pc[p] = "cs"
  /\ lock = p
  /\ lock' = Free
  /\ Goto(p, "idle")
  /\ UNCHANGED << wait, sem, seen, crashes, errors, leak >>

(* ngx_shmtx_unlock: compare-and-set from the own pid to 0. *)
Unlock(p) ==
  /\ pc[p] = "cs"
  /\ lock = p
  /\ lock' = Free
  /\ Goto(p, AfterUnlock)
  /\ UNCHANGED << wait, sem, seen, crashes, errors, leak >>

(* ngx_shmtx_wakeup reads wait; nobody to wake if it is not positive. *)
WakeRead(p) ==
  /\ pc[p] = "wake"
  /\ IF wait <= 0
     THEN /\ Goto(p, "idle")
          /\ UNCHANGED seen
     ELSE /\ seen' = [seen EXCEPT ![p] = wait]
          /\ Goto(p, "wakecas")
  /\ UNCHANGED << lock, wait, sem, crashes, errors, leak >>

WakeBlindStore(p) ==
  /\ pc[p] = "wakecas"
  /\ wait' = seen[p] - 1
  /\ Goto(p, "post")
  /\ UNCHANGED << lock, sem, seen, crashes, errors, leak >>

(* The compare-and-set on wait; if wait has moved it is read again. *)
WakeCas(p) ==
  /\ pc[p] = "wakecas"
  /\ IF wait = seen[p]
     THEN /\ wait' = wait - 1
          /\ Goto(p, "post")
     ELSE /\ Goto(p, "wake")
          /\ UNCHANGED wait
  /\ UNCHANGED << lock, sem, seen, crashes, errors, leak >>

(* sem_post(); it fails only when the semaphore is at SEM_VALUE_MAX, which *)
(* one token per waiting process does not reach.                           *)
SemPost(p) ==
  /\ pc[p] = "post"
  /\ sem' = sem + 1
  /\ Goto(p, "idle")
  /\ UNCHANGED << lock, wait, seen, crashes, errors, leak >>

(* A worker is killed.  What it left in wait, or owes to sem, stays. *)
Crash(p) ==
  /\ p \in Up
  /\ crashes + errors < MaxFaults
  /\ crashes' = crashes + 1
  /\ leak' = leak + (IF p \in Counted THEN 1 ELSE 0)
                  - (IF p \in Posting THEN 1 ELSE 0)
  /\ Goto(p, "dead")
  /\ UNCHANGED << lock, wait, sem, seen, errors >>

ForceUnlockForgotten(p) ==
  /\ pc[Master] = "idle"
  /\ pc[p] = "dead"
  /\ Goto(p, "reaped")
  /\ UNCHANGED << lock, wait, sem, seen, crashes, errors, leak >>

(* The master reaps the dead worker: ngx_shmtx_force_unlock with its pid. *)
ForceUnlock(p) ==
  /\ pc[Master] = "idle"
  /\ pc[p] = "dead"
  /\ IF lock = p
     THEN /\ lock' = Free
          /\ pc' = [pc EXCEPT ![p] = "reaped", ![Master] = AfterUnlock]
     ELSE /\ Goto(p, "reaped")
          /\ UNCHANGED lock
  /\ UNCHANGED << wait, sem, seen, crashes, errors, leak >>

(* A new worker takes the place of the dead one. *)
Respawn(p) ==
  /\ pc[Master] = "idle"
  /\ pc[p] = "reaped"
  /\ Goto(p, "idle")
  /\ UNCHANGED << lock, wait, sem, seen, crashes, errors, leak >>

Wakeup(p) == WakeRead(p) \/ WakeCas(p) \/ SemPost(p)

Locking(p) ==
  \/ LockAttempt(p)
  \/ LockBusy(p)
  \/ LockCount(p)
  \/ LockRecheck(p)
  \/ LockUncount(p)
  \/ SemWait(p)

Next ==
  \/ \E p \in Workers :
       \/ TryLock(p)
       \/ CallLock(p)
       \/ Locking(p)
       \/ SemWaitFails(p)
       \/ Unlock(p)
       \/ Crash(p)
       \/ ForceUnlock(p)
       \/ Respawn(p)
  \/ \E p \in Procs : Wakeup(p)

(* A process that runs inside the functions of the mutex is scheduled, and *)
(* a critical section ends.  Nobody is obliged to ask for the lock.        *)
Fairness ==
  /\ \A p \in Workers : WF_vars(Locking(p)) /\ WF_vars(Unlock(p))
  /\ \A p \in Procs : WF_vars(Wakeup(p))

Spec == Init /\ [][Next]_vars

FairSpec == Spec /\ Fairness

-----------------------------------------------------------------------------

TypeOK ==
  /\ lock \in Workers \cup {Free}
  /\ wait \in Int
  /\ sem \in Nat
  /\ pc \in [Procs -> Labels]
  /\ pc[Master] \in {"idle", "wake", "wakecas", "post"}
  /\ seen \in [Procs -> Int]
  /\ crashes \in Nat
  /\ errors \in Nat
  /\ leak \in Int

(* A live worker is past the compare-and-set of ngx_shmtx_lock or          *)
(* ngx_shmtx_trylock and has not unlocked only if the lock word holds its  *)
(* pid; so no two of them are in the critical section, whatever the master *)
(* force-unlocks for other workers in the meantime.                        *)
MutualExclusion ==
  \A p \in Workers : pc[p] \in {"uncount", "cs"} => lock = p

(* The lock word never keeps the pid of a process that is outside the      *)
(* functions of the mutex, or that the master has already reaped: such a   *)
(* lock would never be freed.                                              *)
NoOrphanedLock ==
  \A p \in Workers : lock = p => pc[p] \in {"uncount", "cs", "dead"}

(* Every entry of wait and every token of the semaphore is accounted for:  *)
(* by a process that has announced itself, by an unlock that is about to   *)
(* post, or by what a killed worker or a failed sem_wait() left behind.    *)
SemAccounting ==
  wait + sem + Cardinality(Posting) = Cardinality(Counted) + leak

(* As long as no worker was killed, a process sleeping on the semaphore    *)
(* while the lock is free will be woken: a token is there, or some process *)
(* is awake inside the mutex and will unlock, post or take the lock.       *)
NoLostWakeup ==
  (crashes = 0 /\ lock = Free /\ Sleeping # {}) =>
    \/ sem > 0
    \/ \E p \in Procs : pc[p] \notin {"idle", "sleep"}

(* Whoever waits, some process gets into the critical section, as long as  *)
(* no worker was killed, and also after sem_wait() has failed.             *)
Progress ==
  (\E p \in Workers : pc[p] \in {"try", "count", "recheck", "uncount", "sleep"})
    ~> (crashes > 0 \/ \E p \in Workers : pc[p] = "cs")

(* The abstract lock that this module implements. *)
AbstractMutex ==
  INSTANCE Mutex WITH holder <- lock, down <- Workers \ Up

Implements == AbstractMutex!MSpec
=============================================================================
