------------------------------- MODULE Rwlock -------------------------------
(***************************************************************************)
(* The lock for readers and writers of src/core/ngx_rwlock.c: one word of  *)
(* shared memory that counts the readers, or holds the largest value while *)
(* a writer has the lock.  There is no record of who holds it: unlock      *)
(* decides from the value of the word what it has to undo.                 *)
(*                                                                         *)
(* A load and the compare-and-set that uses it are separate steps, except  *)
(* in ngx_rwlock_wlock, whose compare-and-set repeats the test for 0.  The *)
(* spinning with ngx_cpu_pause and ngx_sched_yield only repeats the steps. *)
(***************************************************************************)
EXTENDS Integers, FiniteSets

CONSTANTS
  Procs,   (* the processes that share the lock *)
  WLOCK    (* NGX_RWLOCK_WLOCK, the largest value of the word *)

ASSUME RwlockAssumption ==
  /\ IsFiniteSet(Procs)
  /\ WLOCK \in Nat
  /\ Cardinality(Procs) < WLOCK

VARIABLES
  lock,   (* the word *)
  pc,     (* where each process is in the functions below *)
  seen    (* the local variable readers of the functions below *)

vars == << lock, pc, seen >>

Labels == { "idle", "wlock", "rlock", "rcas", "writing", "reading",
            "wstore", "ucas" }

Goto(p, l) == pc' = [pc EXCEPT ![p] = l]

Load(p) == seen' = [seen EXCEPT ![p] = lock]

(* The holders: their call to lock has taken effect, unlock not yet. *)
Readers == { p \in Procs : pc[p] \in {"reading", "ucas"} }
Writers == { p \in Procs : pc[p] \in {"writing", "wstore"} }

Init ==
  /\ lock = 0
  /\ pc = [p \in Procs |-> "idle"]
  /\ seen = [p \in Procs |-> 0]

CallWlock(p) ==
  /\ pc[p] = "idle"
  /\ Goto(p, "wlock")
  /\ UNCHANGED << lock, seen >>

CallRlock(p) ==
  /\ pc[p] = "idle"
  /\ Goto(p, "rlock")
  /\ UNCHANGED << lock, seen >>

(* Fault of Wlock: readers do not matter. *)
WlockOverReaders(p) ==
  /\ pc[p] = "wlock"
  /\ lock # WLOCK
  /\ lock' = WLOCK
  /\ Goto(p, "writing")
  /\ UNCHANGED seen

(* ngx_rwlock_wlock: a failed attempt changes nothing. *)
Wlock(p) ==
  /\ pc[p] = "wlock"
  /\ lock = 0
  /\ lock' = WLOCK
  /\ Goto(p, "writing")
  /\ UNCHANGED seen

(* ngx_rwlock_rlock loads the word and tries again while a writer has it. *)
RlockLoad(p) ==
  /\ pc[p] = "rlock"
  /\ lock # WLOCK
  /\ Load(p)
  /\ Goto(p, "rcas")
  /\ UNCHANGED lock

(* Faults of RlockCas: the word may have changed; the word is not loaded    *)
(* again when it has.                                                      *)
RlockStore(p) ==
  /\ pc[p] = "rcas"
  /\ lock' = seen[p] + 1
  /\ Goto(p, "reading")
  /\ UNCHANGED seen

RlockCasStale(p) ==
  /\ pc[p] = "rcas"
  /\ IF lock = seen[p]
     THEN lock' = lock + 1 /\ Goto(p, "reading")
     ELSE UNCHANGED << lock, pc >>
  /\ UNCHANGED seen

(* The compare-and-set that counts one more reader. *)
RlockCas(p) ==
  /\ pc[p] = "rcas"
  /\ IF lock = seen[p]
     THEN /\ lock' = lock + 1
          /\ Goto(p, "reading")
     ELSE /\ Goto(p, "rlock")
          /\ UNCHANGED lock
  /\ UNCHANGED seen

(* ngx_rwlock_unlock loads the word: it tells a writer from a reader. *)
UnlockLoad(p) ==
  /\ pc[p] \in {"writing", "reading"}
  /\ Load(p)
  /\ Goto(p, IF lock = WLOCK THEN "wstore" ELSE "ucas")
  /\ UNCHANGED lock

(* The writer stores 0. *)
UnlockStore(p) ==
  /\ pc[p] = "wstore"
  /\ lock' = 0
  /\ Goto(p, "idle")
  /\ UNCHANGED seen

(* The reader counts itself out; the word is loaded again if it has moved. *)
UnlockCas(p) ==
  /\ pc[p] = "ucas"
  /\ IF lock = seen[p]
     THEN /\ lock' = lock - 1
          /\ Goto(p, "idle")
          /\ UNCHANGED seen
     ELSE /\ Load(p)
          /\ UNCHANGED << lock, pc >>

Locking(p) == Wlock(p) \/ RlockLoad(p) \/ RlockCas(p)

Unlocking(p) == UnlockLoad(p) \/ UnlockStore(p) \/ UnlockCas(p)

Next ==
  \E p \in Procs : CallWlock(p) \/ CallRlock(p) \/ Locking(p) \/ Unlocking(p)

(* A process inside the lock's functions is scheduled, and holders leave.  *)
Fairness == \A p \in Procs : WF_vars(Locking(p)) /\ WF_vars(Unlocking(p))

Spec == Init /\ [][Next]_vars

FairSpec == Spec /\ Fairness

-----------------------------------------------------------------------------

TypeOK ==
  /\ lock \in 0 .. WLOCK
  /\ pc \in [Procs -> Labels]
  /\ seen \in [Procs -> 0 .. WLOCK]

(* The word tells the truth about the holders at every moment: it is WLOCK *)
(* exactly while a writer has the lock, and counts the readers otherwise.  *)
(* unlock relies on it to know what its caller holds.                      *)
WordCountsHolders ==
  lock = IF Writers # {} THEN WLOCK ELSE Cardinality(Readers)

(* The rwlock excludes writers from everyone, and lets readers share; a    *)
(* process enters and leaves as ReadersWriters allows.                     *)
AbstractRW ==
  INSTANCE ReadersWriters WITH readers <- Readers, writers <- Writers

Implements == AbstractRW!RWSpec

(* The lock does not get stuck: while someone is waiting, sooner or later  *)
(* somebody holds it, or gives it back for others to take.                 *)
Progress ==
  (\E p \in Procs : pc[p] \in {"wlock", "rlock", "rcas"})
    ~> (Readers # {} \/ Writers # {})
=============================================================================
