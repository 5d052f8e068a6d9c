------------------------- MODULE SharedMemoryProofs -------------------------
(***************************************************************************)
(* Proofs about what a zone of shared memory consists of: its mutex,       *)
(* Shmtx, for any finite set of workers, with or without the semaphore,    *)
(* and for any number of killed workers; and its slab allocator, Slab, for *)
(* any number and size of pages.                                           *)
(***************************************************************************)
EXTENDS Shmtx, Slab, FiniteSetTheorems, WellFoundedInduction, TLAPS

(* Without a semaphore nobody announces itself, sleeps or wakes. *)
NoSemaphoreUse ==
  ~Semaphore => \A p \in Procs : pc[p] \in {"idle", "try", "cs", "dead", "reaped"}

(* Dead workers come from crashes, and without one the entries left behind *)
(* in wait are only those of failed sem_wait() calls.                      *)
CrashHistory ==
  crashes = 0 => leak >= 0 /\ Up = Workers

IInv ==
  /\ TypeOK
  /\ MutualExclusion
  /\ NoOrphanedLock
  /\ SemAccounting
  /\ NoSemaphoreUse
  /\ CrashHistory
  /\ NoLostWakeup

CountedLabels == {"recheck", "uncount", "sleep"}

-----------------------------------------------------------------------------

(* The sets that SemAccounting counts are finite. *)
LEMMA FiniteCounts ==
  /\ IsFiniteSet(Procs)
  /\ IsFiniteSet(Counted) /\ Cardinality(Counted) \in Nat
  /\ IsFiniteSet(Posting) /\ Cardinality(Posting) \in Nat
  <1>1. IsFiniteSet(Procs)
    BY ShmtxAssumption, FS_AddElement DEF Procs
  <1>2. Counted \subseteq Procs /\ Posting \subseteq Procs
    BY DEF Counted, Posting, Procs
  <1>3. QED
    BY <1>1, <1>2, FS_Subset, FS_CardinalityType

(* How the two counted sets change when one process moves to label l. *)
LEMMA SetsAfterGoto ==
  ASSUME NEW p \in Procs, NEW l, pc \in [Procs -> Labels], Goto(p, l)
  PROVE  /\ Counted' = IF p \in Workers /\ l \in CountedLabels
                       THEN Counted \cup {p} ELSE Counted \ {p}
         /\ Posting' = IF l = "post" THEN Posting \cup {p} ELSE Posting \ {p}
  <1>1. ASSUME NEW q \in Procs
        PROVE  pc'[q] = IF q = p THEN l ELSE pc[q]
    BY DEF Goto
  <1>2. Workers \subseteq Procs
    BY DEF Procs
  <1>3. \A q \in Workers : q \in Counted' <=> pc'[q] \in CountedLabels
    BY DEF Counted, CountedLabels
  <1>4. \A q \in Workers : q \in Counted <=> pc[q] \in CountedLabels
    BY DEF Counted, CountedLabels
  <1>5. Counted \subseteq Workers /\ Counted' \subseteq Workers
    BY DEF Counted
  <1>6. Counted' = IF p \in Workers /\ l \in CountedLabels
                   THEN Counted \cup {p} ELSE Counted \ {p}
    BY <1>1, <1>2, <1>3, <1>4, <1>5
  <1>7. Posting' = IF l = "post" THEN Posting \cup {p} ELSE Posting \ {p}
    BY <1>1 DEF Posting
  <1>8. QED
    BY <1>6, <1>7

(* The cardinality of a finite set that gains or loses one element. *)
LEMMA CardinalityStep ==
  ASSUME NEW S, IsFiniteSet(S), NEW x
  PROVE  /\ x \in S => S \cup {x} = S /\ Cardinality(S \ {x}) = Cardinality(S) - 1
         /\ x \notin S => S \ {x} = S /\ Cardinality(S \cup {x}) = Cardinality(S) + 1
  BY FS_AddElement, FS_RemoveElement

(* What SemAccounting says when the word wait shows nobody to wake.        *)
LEMMA TokenForSleeper ==
  ASSUME TypeOK, SemAccounting, CrashHistory, crashes = 0,
         Sleeping # {}, Posting = {}, wait <= 0
  PROVE  sem > 0
  <1>1. Counted # {} /\ IsFiniteSet(Counted) /\ Cardinality(Counted) \in Nat
    BY FiniteCounts DEF Sleeping, Counted
  <1>2. Cardinality(Counted) > 0
    BY <1>1, FS_EmptySet
  <1>3. Cardinality(Posting) = 0
    BY FS_EmptySet
  <1>4. QED
    BY <1>1, <1>2, <1>3 DEF TypeOK, SemAccounting, CrashHistory

-----------------------------------------------------------------------------

(* Every step preserves the type invariant. *)
LEMMA TypeStep == ASSUME TypeOK, Next PROVE TypeOK'
  <1> USE ShmtxAssumption DEF TypeOK, Procs, Labels
  <1>1. ASSUME NEW p \in Workers,
               TryLock(p) \/ CallLock(p) \/ LockAttempt(p) \/ LockBusy(p)
        PROVE  TypeOK'
    BY <1>1 DEF TryLock, CallLock, LockAttempt, LockBusy, Goto
  <1>2. ASSUME NEW p \in Workers,
               LockCount(p) \/ LockRecheck(p) \/ LockUncount(p)
        PROVE  TypeOK'
    BY <1>2 DEF LockCount, LockRecheck, LockUncount, Goto
  <1>3. ASSUME NEW p \in Workers, SemWait(p) \/ SemWaitFails(p)
        PROVE  TypeOK'
    BY <1>3 DEF SemWait, SemWaitFails, Goto
  <1>4. ASSUME NEW p \in Workers, Unlock(p) \/ Respawn(p)
        PROVE  TypeOK'
    BY <1>4 DEF Unlock, Respawn, Goto, AfterUnlock
  <1>5. ASSUME NEW p \in Workers, Crash(p)
        PROVE  TypeOK'
    BY <1>5 DEF Crash, Goto
  <1>6. ASSUME NEW p \in Workers, ForceUnlock(p)
        PROVE  TypeOK'
    BY <1>6 DEF ForceUnlock, Goto, AfterUnlock
  <1>7. ASSUME NEW p \in Procs, WakeRead(p) \/ WakeCas(p) \/ SemPost(p)
        PROVE  TypeOK'
    BY <1>7 DEF WakeRead, WakeCas, SemPost, Goto
  <1>8. QED
    BY <1>1, <1>2, <1>3, <1>4, <1>5, <1>6, <1>7 DEF Next, Locking, Wakeup

(* Every step preserves what the lock word says about its holder. *)
LEMMA HolderStep ==
  ASSUME TypeOK, MutualExclusion, NoOrphanedLock, Next
  PROVE  MutualExclusion' /\ NoOrphanedLock'
  <1> USE ShmtxAssumption DEF TypeOK, Procs, MutualExclusion, NoOrphanedLock
  <1>1. ASSUME NEW p \in Workers, TryLock(p) \/ LockAttempt(p) \/ LockRecheck(p)
        PROVE  MutualExclusion' /\ NoOrphanedLock'
    BY <1>1 DEF TryLock, LockAttempt, LockRecheck, Goto
  <1>2. ASSUME NEW p \in Workers,
               CallLock(p) \/ LockBusy(p) \/ LockCount(p) \/ LockUncount(p)
        PROVE  MutualExclusion' /\ NoOrphanedLock'
    BY <1>2 DEF CallLock, LockBusy, LockCount, LockUncount, Goto
  <1>3. ASSUME NEW p \in Workers, SemWait(p) \/ SemWaitFails(p)
        PROVE  MutualExclusion' /\ NoOrphanedLock'
    BY <1>3 DEF SemWait, SemWaitFails, Goto
  <1>4. ASSUME NEW p \in Workers, Unlock(p) \/ Crash(p) \/ Respawn(p)
        PROVE  MutualExclusion' /\ NoOrphanedLock'
    BY <1>4 DEF Unlock, Crash, Respawn, Goto, AfterUnlock
  <1>5. ASSUME NEW p \in Workers, ForceUnlock(p)
        PROVE  MutualExclusion' /\ NoOrphanedLock'
    BY <1>5 DEF ForceUnlock, Goto, AfterUnlock
  <1>6. ASSUME NEW p \in Procs, WakeRead(p) \/ WakeCas(p) \/ SemPost(p)
        PROVE  MutualExclusion' /\ NoOrphanedLock'
    BY <1>6 DEF WakeRead, WakeCas, SemPost, Goto
  <1>7. QED
    BY <1>1, <1>2, <1>3, <1>4, <1>5, <1>6 DEF Next, Locking, Wakeup

(* Every step preserves the two auxiliary facts. *)
LEMMA AuxiliaryStep ==
  ASSUME TypeOK, NoSemaphoreUse, CrashHistory, Next
  PROVE  NoSemaphoreUse' /\ CrashHistory'
  <1> USE ShmtxAssumption DEF TypeOK, Procs, NoSemaphoreUse, CrashHistory, Up
  <1>1. ASSUME NEW p \in Workers,
               TryLock(p) \/ CallLock(p) \/ LockAttempt(p) \/ LockBusy(p)
        PROVE  NoSemaphoreUse' /\ CrashHistory'
    BY <1>1 DEF TryLock, CallLock, LockAttempt, LockBusy, Goto
  <1>2. ASSUME NEW p \in Workers,
               LockCount(p) \/ LockRecheck(p) \/ LockUncount(p)
        PROVE  NoSemaphoreUse' /\ CrashHistory'
    BY <1>2 DEF LockCount, LockRecheck, LockUncount, Goto
  <1>3. ASSUME NEW p \in Workers, SemWait(p) \/ SemWaitFails(p)
        PROVE  NoSemaphoreUse' /\ CrashHistory'
    BY <1>3 DEF SemWait, SemWaitFails, Goto
  <1>4. ASSUME NEW p \in Workers, Unlock(p) \/ Respawn(p)
        PROVE  NoSemaphoreUse' /\ CrashHistory'
    BY <1>4 DEF Unlock, Respawn, Goto, AfterUnlock
  <1>5. ASSUME NEW p \in Workers, Crash(p)
        PROVE  NoSemaphoreUse' /\ CrashHistory'
    BY <1>5 DEF Crash, Goto
  <1>6. ASSUME NEW p \in Workers, ForceUnlock(p)
        PROVE  NoSemaphoreUse' /\ CrashHistory'
    BY <1>6 DEF ForceUnlock, Goto, AfterUnlock
  <1>7. ASSUME NEW p \in Procs, WakeRead(p) \/ WakeCas(p) \/ SemPost(p)
        PROVE  NoSemaphoreUse' /\ CrashHistory'
    BY <1>7 DEF WakeRead, WakeCas, SemPost, Goto
  <1>8. QED
    BY <1>1, <1>2, <1>3, <1>4, <1>5, <1>6, <1>7 DEF Next, Locking, Wakeup

(* A move between two labels that neither set counts keeps both of them. *)
LEMMA UncountedMove ==
  ASSUME NEW p \in Procs, NEW l, TypeOK, SemAccounting, Goto(p, l),
         l \notin CountedLabels \cup {"post"},
         pc[p] \notin CountedLabels \cup {"post"},
         UNCHANGED << wait, sem, leak >>
  PROVE  SemAccounting'
  <1>1. /\ Counted' = Counted \ {p}
        /\ Posting' = Posting \ {p}
    BY SetsAfterGoto DEF TypeOK
  <1>2. p \notin Counted /\ p \notin Posting
    BY DEF Counted, Posting, CountedLabels
  <1>3. Counted' = Counted /\ Posting' = Posting
    BY <1>1, <1>2
  <1>4. QED
    BY <1>3 DEF SemAccounting

(* Every step keeps the account of wait and sem. *)
LEMMA AccountingStep ==
  ASSUME TypeOK, SemAccounting, Next
  PROVE  SemAccounting'
  <1> USE DEF CountedLabels
  <1>0. /\ IsFiniteSet(Counted) /\ Cardinality(Counted) \in Nat
        /\ IsFiniteSet(Posting) /\ Cardinality(Posting) \in Nat
        /\ wait \in Int /\ sem \in Nat /\ leak \in Int
        /\ wait + sem + Cardinality(Posting) = Cardinality(Counted) + leak
    BY FiniteCounts DEF TypeOK, SemAccounting
  <1>1. ASSUME NEW p \in Workers,
               TryLock(p) \/ CallLock(p) \/ LockAttempt(p) \/ LockBusy(p)
        PROVE  SemAccounting'
    BY <1>1, UncountedMove
       DEF TryLock, CallLock, LockAttempt, LockBusy, Procs
  <1>2. ASSUME NEW p \in Workers, Unlock(p) \/ Respawn(p)
        PROVE  SemAccounting'
    BY <1>2, UncountedMove DEF Unlock, Respawn, AfterUnlock, Procs
  <1>3. ASSUME NEW p \in Procs, WakeRead(p)
        PROVE  SemAccounting'
    BY <1>3, UncountedMove DEF WakeRead
  <1>4. ASSUME NEW p \in Workers, LockCount(p)
        PROVE  SemAccounting'
    <2>1. Counted' = Counted \cup {p} /\ Posting' = Posting \ {p}
      BY <1>4, SetsAfterGoto DEF LockCount, TypeOK, Procs
    <2>2. p \notin Counted /\ p \notin Posting
      BY <1>4 DEF LockCount, Counted, Posting
    <2>3. Cardinality(Counted') = Cardinality(Counted) + 1 /\ Posting' = Posting
      BY <1>0, <2>1, <2>2, CardinalityStep
    <2>4. QED
      BY <1>0, <1>4, <2>3 DEF LockCount, SemAccounting
  <1>5. ASSUME NEW p \in Workers, LockRecheck(p)
        PROVE  SemAccounting'
    <2>1. Counted' = Counted \cup {p} /\ Posting' = Posting \ {p}
      BY <1>5, SetsAfterGoto DEF LockRecheck, TypeOK, Procs
    <2>2. p \in Counted /\ p \notin Posting
      BY <1>5 DEF LockRecheck, Counted, Posting
    <2>3. Counted' = Counted /\ Posting' = Posting
      BY <2>1, <2>2
    <2>4. QED
      BY <1>0, <1>5, <2>3 DEF LockRecheck, SemAccounting
  <1>6. ASSUME NEW p \in Workers, LockUncount(p) \/ SemWait(p) \/ SemWaitFails(p)
        PROVE  SemAccounting'
    <2>1. Counted' = Counted \ {p} /\ Posting' = Posting \ {p}
      BY <1>6, SetsAfterGoto
         DEF LockUncount, SemWait, SemWaitFails, TypeOK, Procs
    <2>2. p \in Counted /\ p \notin Posting
      BY <1>6 DEF LockUncount, SemWait, SemWaitFails, Counted, Posting
    <2>3. Cardinality(Counted') = Cardinality(Counted) - 1 /\ Posting' = Posting
      BY <1>0, <2>1, <2>2, CardinalityStep
    <2>4. QED
      BY <1>0, <1>6, <2>3
         DEF LockUncount, SemWait, SemWaitFails, SemAccounting
  <1>7. ASSUME NEW p \in Procs, WakeCas(p)
        PROVE  SemAccounting'
    <2>1. CASE wait = seen[p]
      <3>1. Counted' = Counted \ {p} /\ Posting' = Posting \cup {p}
        BY <1>7, <2>1, SetsAfterGoto DEF WakeCas, TypeOK
      <3>2. p \notin Counted /\ p \notin Posting
        BY <1>7 DEF WakeCas, Counted, Posting
      <3>3. Counted' = Counted /\ Cardinality(Posting') = Cardinality(Posting) + 1
        BY <1>0, <3>1, <3>2, CardinalityStep
      <3>4. QED
        BY <1>0, <1>7, <2>1, <3>3 DEF WakeCas, SemAccounting
    <2>2. CASE wait # seen[p]
      BY <1>7, <2>2, UncountedMove DEF WakeCas
    <2>3. QED
      BY <2>1, <2>2
  <1>8. ASSUME NEW p \in Procs, SemPost(p)
        PROVE  SemAccounting'
    <2>1. Counted' = Counted \ {p} /\ Posting' = Posting \ {p}
      BY <1>8, SetsAfterGoto DEF SemPost, TypeOK
    <2>2. p \notin Counted /\ p \in Posting
      BY <1>8 DEF SemPost, Counted, Posting
    <2>3. Counted' = Counted /\ Cardinality(Posting') = Cardinality(Posting) - 1
      BY <1>0, <2>1, <2>2, CardinalityStep
    <2>4. QED
      BY <1>0, <1>8, <2>3 DEF SemPost, SemAccounting
  <1>9. ASSUME NEW p \in Workers, Crash(p)
        PROVE  SemAccounting'
    <2>1. Counted' = Counted \ {p} /\ Posting' = Posting \ {p}
      BY <1>9, SetsAfterGoto DEF Crash, TypeOK, Procs
    <2>2. CASE p \in Counted
      <3>1. p \notin Posting
        BY <2>2 DEF Counted, Posting
      <3>2. Cardinality(Counted') = Cardinality(Counted) - 1 /\ Posting' = Posting
        BY <1>0, <2>1, <2>2, <3>1, CardinalityStep
      <3>3. QED
        BY <1>0, <1>9, <2>2, <3>1, <3>2 DEF Crash, SemAccounting
    <2>3. CASE p \in Posting
      <3>1. p \notin Counted
        BY <2>3 DEF Counted, Posting
      <3>2. Counted' = Counted /\ Cardinality(Posting') = Cardinality(Posting) - 1
        BY <1>0, <2>1, <2>3, <3>1, CardinalityStep
      <3>3. QED
        BY <1>0, <1>9, <2>3, <3>1, <3>2 DEF Crash, SemAccounting
    <2>4. CASE p \notin Counted /\ p \notin Posting
      <3>1. Counted' = Counted /\ Posting' = Posting
        BY <2>1, <2>4
      <3>2. QED
        BY <1>0, <1>9, <2>4, <3>1 DEF Crash, SemAccounting
    <2>5. QED
      BY <2>2, <2>3, <2>4
  <1>10. ASSUME NEW p \in Workers, ForceUnlock(p)
         PROVE  SemAccounting'
    <2>1. Counted' = Counted /\ Posting' = Posting
      BY <1>10, ShmtxAssumption
         DEF ForceUnlock, Goto, AfterUnlock, Counted, Posting, TypeOK, Procs
    <2>2. QED
      BY <1>0, <1>10, <2>1 DEF ForceUnlock, SemAccounting
  <1>11. QED
    BY <1>1, <1>2, <1>3, <1>4, <1>5, <1>6, <1>7, <1>8, <1>9, <1>10
       DEF Next, Locking, Wakeup

(* A step that leaves some process awake inside the mutex cannot be the    *)
(* one that loses a wakeup.                                                *)
LEMMA AwakeAfterGoto ==
  ASSUME NEW p \in Procs, NEW l, TypeOK, Goto(p, l), l \notin {"idle", "sleep"}
  PROVE  NoLostWakeup'
  BY DEF TypeOK, Goto, NoLostWakeup

(* Every step preserves IInv; what remains is that no step loses a wakeup. *)
LEMMA WakeupStep ==
  ASSUME IInv, TypeOK', Next
  PROVE  NoLostWakeup'
  <1> USE DEF IInv
  <1>1. ASSUME NEW p \in Workers,
               TryLock(p) \/ CallLock(p) \/ LockAttempt(p) \/ LockBusy(p)
        PROVE  NoLostWakeup'
    BY <1>1, AwakeAfterGoto
       DEF TryLock, CallLock, LockAttempt, LockBusy, Procs
  <1>2. ASSUME NEW p \in Workers, LockCount(p) \/ LockUncount(p)
        PROVE  NoLostWakeup'
    BY <1>2, AwakeAfterGoto DEF LockCount, LockUncount, Procs
  <1>3. ASSUME NEW p \in Workers, LockRecheck(p)
        PROVE  NoLostWakeup'
    <2>1. CASE lock = Free
      BY <1>3, <2>1, AwakeAfterGoto DEF LockRecheck, Procs
    <2>2. CASE lock # Free
      BY <1>3, <2>2 DEF LockRecheck, NoLostWakeup
    <2>3. QED
      BY <2>1, <2>2
  <1>4. ASSUME NEW p \in Workers, SemWait(p) \/ SemWaitFails(p) \/ Crash(p)
        PROVE  NoLostWakeup'
    BY <1>4, AwakeAfterGoto DEF SemWait, SemWaitFails, Crash, Procs
  <1>5. ASSUME NEW p \in Workers, Unlock(p)
        PROVE  NoLostWakeup'
    <2>1. CASE Semaphore
      BY <1>5, <2>1, AwakeAfterGoto DEF Unlock, AfterUnlock, Procs
    <2>2. CASE ~Semaphore
      <3>1. Sleeping' = {}
        BY <1>5, <2>2
           DEF Unlock, AfterUnlock, Goto, NoSemaphoreUse, Sleeping, TypeOK, Procs
      <3>2. QED
        BY <3>1 DEF NoLostWakeup
    <2>3. QED
      BY <2>1, <2>2
  <1>6. ASSUME NEW p \in Workers, ForceUnlock(p) \/ Respawn(p)
        PROVE  NoLostWakeup'
    <2>1. crashes # 0 /\ crashes' = crashes
      BY <1>6 DEF ForceUnlock, Respawn, CrashHistory, Up
    <2>2. QED
      BY <2>1 DEF NoLostWakeup
  <1>7. ASSUME NEW p \in Procs, WakeRead(p)
        PROVE  NoLostWakeup'
    <2>1. CASE wait > 0
      BY <1>7, <2>1, AwakeAfterGoto DEF WakeRead, TypeOK
    <2>2. CASE wait <= 0 /\ Posting = {}
      <3>1. Sleeping' = Sleeping
        BY <1>7, <2>2 DEF WakeRead, Goto, Sleeping, TypeOK, Procs
      <3>2. crashes = 0 /\ Sleeping # {} => sem > 0
        BY <2>2, TokenForSleeper
      <3>3. QED
        BY <1>7, <3>1, <3>2 DEF WakeRead, NoLostWakeup
    <2>3. CASE wait <= 0 /\ Posting # {}
      <3>1. PICK q \in Posting : TRUE
        BY <2>3
      <3>2. q \in Procs /\ pc'[q] = "post"
        BY <1>7, <2>3, <3>1 DEF WakeRead, Goto, Posting, TypeOK
      <3>3. QED
        BY <3>2 DEF NoLostWakeup
    <2>4. QED
      BY <2>1, <2>2, <2>3 DEF TypeOK
  <1>8. ASSUME NEW p \in Procs, WakeCas(p)
        PROVE  NoLostWakeup'
    BY <1>8, AwakeAfterGoto DEF WakeCas
  <1>9. ASSUME NEW p \in Procs, SemPost(p)
        PROVE  NoLostWakeup'
    BY <1>9 DEF SemPost, NoLostWakeup, TypeOK
  <1>10. QED
    BY <1>1, <1>2, <1>3, <1>4, <1>5, <1>6, <1>7, <1>8, <1>9
       DEF Next, Locking, Wakeup

-----------------------------------------------------------------------------

(* The initial state satisfies the inductive invariant. *)
LEMMA InitIInv == Init => IInv
  <1> SUFFICES ASSUME Init PROVE IInv
    OBVIOUS
  <1>1. Counted = {} /\ Posting = {} /\ Sleeping = {} /\ Up = Workers
    BY DEF Init, Counted, Posting, Sleeping, Up, Procs
  <1>2. Cardinality(Counted) = 0 /\ Cardinality(Posting) = 0
    BY <1>1, FS_EmptySet
  <1>3. TypeOK
    BY DEF Init, TypeOK, Procs, Labels
  <1>4. MutualExclusion /\ NoOrphanedLock
    BY ShmtxAssumption DEF Init, MutualExclusion, NoOrphanedLock, Procs
  <1>5. SemAccounting
    BY <1>2 DEF Init, SemAccounting
  <1>6. NoSemaphoreUse
    BY DEF Init, NoSemaphoreUse
  <1>7. CrashHistory /\ NoLostWakeup
    BY <1>1 DEF Init, CrashHistory, NoLostWakeup
  <1>8. QED
    BY <1>3, <1>4, <1>5, <1>6, <1>7 DEF IInv

(* Steps that change nothing preserve it as well. *)
LEMMA StutterIInv == IInv /\ UNCHANGED vars => IInv'
  BY DEF IInv, vars, TypeOK, MutualExclusion, NoOrphanedLock, SemAccounting,
         NoSemaphoreUse, CrashHistory, NoLostWakeup,
         Counted, Posting, Sleeping, Up

(* The inductive invariant of the mutex holds in every reachable state. *)
THEOREM Invariance == Spec => []IInv
  <1>1. IInv /\ [Next]_vars => IInv'
    <2>1. IInv /\ Next => IInv'
      BY TypeStep, HolderStep, AccountingStep, AuxiliaryStep, WakeupStep DEF IInv
    <2>2. QED
      BY <2>1, StutterIInv
  <1>2. QED
    BY InitIInv, <1>1, PTL DEF Spec

(* The variables of ngx_shmtx_t keep their types. *)
THEOREM TypeCorrect == Spec => []TypeOK
  BY Invariance, PTL DEF IInv

(* Two live processes are never both past a successful compare-and-set of  *)
(* the lock word, for any number of workers and of crashes.                *)
THEOREM LockIsExclusive == Spec => []MutualExclusion
  BY Invariance, PTL DEF IInv

(* A lock word with a pid in it can always be traced to a process that     *)
(* will free it: the one in the critical section, or the master.           *)
THEOREM LockIsNotOrphaned == Spec => []NoOrphanedLock
  BY Invariance, PTL DEF IInv

(* No entry of wait and no token of the semaphore is lost or invented.     *)
THEOREM SemaphoreBalances == Spec => []SemAccounting
  BY Invariance, PTL DEF IInv

(* ngx_shmtx_unlock never leaves a sleeper behind with the lock free and   *)
(* nobody on the way to wake it, as long as no process is killed.          *)
THEOREM WakeupsAreNotLost == Spec => []NoLostWakeup
  BY Invariance, PTL DEF IInv

-----------------------------------------------------------------------------

Down == Workers \ Up

(* The initial state is an initial state of the abstract lock. *)
LEMMA InitRefines == Init => AbstractMutex!MInit
  BY DEF Init, Up, Procs, AbstractMutex!MInit

(* Every step is a step of the abstract lock, or changes nothing of it. *)
LEMMA StepRefines ==
  ASSUME IInv, [Next]_vars
  PROVE  [AbstractMutex!MNext]_AbstractMutex!mvars
  <1> USE DEF IInv, TypeOK
  <1> DEFINE Stutter == lock' = lock /\ Down' = Down
  <1>0. Stutter => UNCHANGED AbstractMutex!mvars
    BY DEF Down, AbstractMutex!mvars
  <1>1. ASSUME NEW p \in Workers,
               TryLock(p) \/ LockAttempt(p) \/ (LockRecheck(p) /\ lock = Free)
        PROVE  AbstractMutex!Acquire(p)
    BY <1>1 DEF TryLock, LockAttempt, LockRecheck, Goto, Up, Procs,
                AbstractMutex!Acquire
  <1>2. ASSUME NEW p \in Workers, Unlock(p)
        PROVE  AbstractMutex!Release(p)
    BY <1>2 DEF Unlock, AfterUnlock, Goto, Up, Procs, AbstractMutex!Release
  <1>3. ASSUME NEW p \in Workers, Crash(p)
        PROVE  AbstractMutex!Die(p)
    BY <1>3 DEF Crash, Goto, Up, Procs, AbstractMutex!Die
  <1>4. ASSUME NEW p \in Workers, ForceUnlock(p), lock = p
        PROVE  AbstractMutex!Reclaim(p)
    BY <1>4, ShmtxAssumption
       DEF ForceUnlock, AfterUnlock, Goto, Up, Procs, AbstractMutex!Reclaim
  <1>5. ASSUME NEW p \in Workers, Respawn(p)
        PROVE  AbstractMutex!Restart(p)
    BY <1>5 DEF Respawn, Goto, Up, Procs, NoOrphanedLock, AbstractMutex!Restart
  <1>6. ASSUME NEW p \in Workers,
               CallLock(p) \/ LockBusy(p) \/ LockCount(p) \/ LockUncount(p)
        PROVE  Stutter
    BY <1>6 DEF CallLock, LockBusy, LockCount, LockUncount, Goto, Down, Up, Procs
  <1>7. ASSUME NEW p \in Workers,
               \/ SemWait(p) \/ SemWaitFails(p)
               \/ LockRecheck(p) /\ lock # Free
               \/ ForceUnlock(p) /\ lock # p
        PROVE  Stutter
    BY <1>7, ShmtxAssumption
       DEF SemWait, SemWaitFails, LockRecheck, ForceUnlock, Goto, Down, Up, Procs
  <1>8. ASSUME NEW p \in Procs, WakeRead(p) \/ WakeCas(p) \/ SemPost(p)
        PROVE  Stutter
    BY <1>8, ShmtxAssumption
       DEF WakeRead, WakeCas, SemPost, Goto, Down, Up, Procs
  <1>9. CASE UNCHANGED vars
    BY <1>9, <1>0 DEF vars, Down, Up
  <1>10. CASE Next
    <2>1. ASSUME NEW p \in Workers, TryLock(p) \/ CallLock(p) \/ Locking(p)
          PROVE  AbstractMutex!MNext \/ Stutter
      BY <2>1, <1>1, <1>6, <1>7 DEF Locking, AbstractMutex!MNext
    <2>2. ASSUME NEW p \in Workers,
                 SemWaitFails(p) \/ Unlock(p) \/ Crash(p) \/ ForceUnlock(p) \/ Respawn(p)
          PROVE  AbstractMutex!MNext \/ Stutter
      BY <2>2, <1>2, <1>3, <1>4, <1>5, <1>7 DEF AbstractMutex!MNext
    <2>3. ASSUME NEW p \in Procs, Wakeup(p)
          PROVE  AbstractMutex!MNext \/ Stutter
      BY <2>3, <1>8 DEF Wakeup
    <2>4. QED
      BY <1>0, <1>10, <2>1, <2>2, <2>3 DEF Next
  <1>11. QED
    BY <1>9, <1>10

(* The mutex of ngx_shmtx.c is a lock in the sense of Mutex. *)
THEOREM Refinement == Spec => Implements
  BY Invariance, InitRefines, StepRefines, PTL
     DEF Spec, Implements, AbstractMutex!MSpec

-----------------------------------------------------------------------------
(* The slab allocator: what a pool is laid out as.  The pages are tiled by *)
(* runs: F those of the free list, T those that were handed out, C pages   *)
(* of chunks, and during a call the loose run z that is on its way back;   *)
(* len[p] pages from p.                                                    *)

(* Both ways, and in one round: only all of it cannot be left. *)
IsList(nx, pv, h, L) ==
  /\ \A x \in L \cup {h} : nx[x] \in L \cup {h} /\ (nx[x] # h => pv[nx[x]] = x)
  /\ \A x \in L : pv[x] \in L \cup {h} /\ nx[pv[x]] = x
  /\ \A S \in SUBSET (L \cup {h}) : h \in S /\ (\A x \in S : nx[x] \in S) => S = L \cup {h}

Inner(p, n) == p + 1 .. p + n - 1

Tiling(Ld, len) ==
  /\ Ld \subseteq PageNos /\ len \in [PageNos -> Nat]
  /\ \A p \in Ld : len[p] >= 1 /\ p + len[p] <= Pages /\ \A q \in Inner(p, len[p]) : q \notin Ld
  /\ \A q \in PageNos : \E p \in Ld : p <= q /\ q < p + len[p]

Fields == [tag : {"run", "start", "tail", "chunks"}, n : 0 .. Pages * PageSize]
Bits == SUBSET (0 .. PageSize)
Types == {"page", "small", "exact", "big"}
Mems ==
  [next : [Nodes -> Nodes \cup {NULL}], prev : [Nodes -> Nodes \cup {NULL}],
   type : [PageNos -> Types], slab : [PageNos -> Fields], busy : [PageNos -> Bits]]

LooseOf(z) == {z} \cap PageNos
LeadersOf(F, T, C, z) == F \cup T \cup C \cup LooseOf(z)

Blank(m, q, s) == m.type[q] = "page" /\ m.slab[q] = s /\ m.next[q] = NULL

(* A page is on the list of its slot while it has a chunk to give. *)
Room(m, C, size) == {p \in C : m.slab[p].n = size /\ m.busy[p] # Whole(size)}

Placed(F, T, C, z, len) ==
  /\ F \subseteq PageNos /\ T \subseteq PageNos /\ C \subseteq PageNos
  /\ F \cap T = {} /\ F \cap C = {} /\ T \cap C = {} /\ z \notin F \cup T \cup C
  /\ Tiling(LeadersOf(F, T, C, z), len)
  /\ \A p, q \in F : p + len[p] # q

(* A free run: its last page leads to the first, except at the beginning.  *)
LooseRun(m, p, n) == m.slab[p] = Run(n) /\ \A q \in Inner(p, n) : Blank(m, q, Run(0))
OpenRun(m, p, n) ==
  m.type[p] = "page" /\ LooseRun(m, p, n) /\ (n > 1 /\ n < Pages => m.prev[p + n - 1] = p)
TakenRun(m, p, n) == Blank(m, p, Start(n)) /\ \A q \in Inner(p, n) : Blank(m, q, RunTail)

RunsOK(m, F, T, z, len) ==
  /\ \A p \in F : OpenRun(m, p, len[p])
  /\ \A p \in T : TakenRun(m, p, len[p])
  /\ \A p \in LooseOf(z) : LooseRun(m, p, len[p])

CutPage(m, p, size) ==
  /\ size \in Sizes /\ m.slab[p] = Chunks(size) /\ m.type[p] = TypeFor(size)
  /\ m.busy[p] \subseteq Whole(size) /\ 0 .. Reserved(size) - 1 \subseteq m.busy[p]
  /\ m.busy[p] = Whole(size) => m.next[p] = NULL

CutOK(m, C, len) == \A p \in C : len[p] = 1 /\ CutPage(m, p, m.slab[p].n)

RowsOK(m, F, C) ==
  /\ IsList(m.next, m.prev, FreeList, F)
  /\ \A size \in Sizes : IsList(m.next, m.prev, Slot(size), Room(m, C, size))

Laid(m, F, T, C, z, len) ==
  /\ m \in Mems /\ Placed(F, T, C, z, len)
  /\ RunsOK(m, F, T, z, len) /\ CutOK(m, C, len) /\ RowsOK(m, F, C)

(* The blocks are the runs that were handed out, and the chunks whose bits *)
(* are set, less those of the bitmap itself.                               *)
PageBlock(p, n) == [addr |-> p * PageSize, len |-> n * PageSize]
ChunkBlock(p, c, size) == [addr |-> p * PageSize + c * size, len |-> size]
IsBlock(b, m, T, C, len) ==
  \/ \E p \in T : b = PageBlock(p, len[p])
  \/ \E p \in C : \E c \in m.busy[p] : c >= Reserved(m.slab[p].n) /\ b = ChunkBlock(p, c, m.slab[p].n)
LiveIs(bs, m, T, C, len) == \A b : b \in bs <=> IsBlock(b, m, T, C, len)

OpenPages(F, len) == {q \in PageNos : \E p \in F : p <= q /\ q < p + len[p]}
CutFor(m, C, size) == {p \in C : m.slab[p].n = size}

FreeIs(pf, F, len) == pf = Cardinality(OpenPages(F, len))
HeldIs(un, bs) == un \in 0 .. MaxLive /\ IsFiniteSet(bs) /\ un = Cardinality(bs)
UsedIs(us, bs) == us \in [Sizes -> Nat] /\ \A size \in Sizes : us[size] = Cardinality({b \in bs : b.len = size})
TotalIs(tl, m, C) ==
  /\ tl \in [Sizes -> Nat]
  /\ \A size \in Sizes : tl[size] = (NumberOf(size) - Reserved(size)) * Cardinality(CutFor(m, C, size))

Shaped(m, bs, pf, un, us, tl, F, T, C, len) ==
  /\ Laid(m, F, T, C, NULL, len) /\ LiveIs(bs, m, T, C, len)
  /\ FreeIs(pf, F, len) /\ HeldIs(un, bs) /\ UsedIs(us, bs) /\ TotalIs(tl, m, C)

InShape(m, bs, pf, un, us, tl) ==
  \E F, T, C \in SUBSET PageNos, len \in [PageNos -> Nat] : Shaped(m, bs, pf, un, us, tl, F, T, C, len)

SlabInv == InShape(Memory, live, pfree, unfreed, used, total)

(* The bits for the bitmap are few enough for one word. *)
BitsFit == \A size \in Sizes : Reserved(size) < Word

-----------------------------------------------------------------------------
(* Lists. *)

(* A list stays one where neither its nodes nor its head are touched. *)
LEMMA ListFrame ==
  ASSUME NEW nx, NEW pv, NEW h, NEW L, IsList(nx, pv, h, L), NEW nw, NEW pw,
         \A x \in L \cup {h} : nw[x] = nx[x], \A x \in L : pw[x] = pv[x]
  PROVE  IsList(nw, pw, h, L)
  <1>1. \A x \in L \cup {h} : nw[x] \in L \cup {h} /\ (nw[x] # h => pw[nw[x]] = x)
    BY DEF IsList
  <1>2. \A x \in L : pw[x] \in L \cup {h} /\ nw[pw[x]] = x
    BY DEF IsList
  <1>3. ASSUME NEW S \in SUBSET (L \cup {h}), h \in S, \A x \in S : nw[x] \in S
        PROVE  S = L \cup {h}
    BY <1>3 DEF IsList
  <1> QED
    BY <1>1, <1>2, <1>3 DEF IsList

(* Two nodes do not lead to the same one, nor one to itself. *)
LEMMA ListSteps ==
  ASSUME NEW nx, NEW pv, NEW h, NEW L, h \notin L, IsList(nx, pv, h, L), NEW p \in L
  PROVE  /\ nx[p] \in L \cup {h} /\ pv[p] \in L \cup {h} /\ nx[pv[p]] = p
         /\ nx[p] # h => pv[nx[p]] = p
         /\ \A x \in L \cup {h} : nx[x] = p => x = pv[p]
         /\ nx[p] # p /\ pv[p] # p
  <1>1. /\ nx[p] \in L \cup {h} /\ pv[p] \in L \cup {h} /\ nx[pv[p]] = p
        /\ nx[p] # h => pv[nx[p]] = p
        /\ \A x \in L \cup {h} : nx[x] = p => x = pv[p]
    BY DEF IsList
  <1>2. pv[p] # p
    <2> SUFFICES ASSUME pv[p] = p
                 PROVE  FALSE
      OBVIOUS
    <2> DEFINE S == (L \cup {h}) \ {p}
    <2>1. \A x \in S : nx[x] \in S
      BY <1>1 DEF IsList
    <2>2. h \in S /\ S \in SUBSET (L \cup {h}) /\ S # L \cup {h}
      OBVIOUS
    <2> HIDE DEF S
    <2> QED
      BY <2>1, <2>2 DEF IsList
  <1>3. nx[p] # p
    BY <1>1, <1>2
  <1> QED
    BY <1>1, <1>2, <1>3

(* A node leaves. *)
LEMMA ListUnlink ==
  ASSUME NEW nx, NEW pv, NEW h, NEW L, h \notin L, IsList(nx, pv, h, L), NEW p \in L, NEW nw, NEW pw,
         \A x \in (L \cup {h}) \ {p} : nw[x] = IF x = pv[p] THEN nx[p] ELSE nx[x],
         \A x \in L \ {p} : pw[x] = IF x = nx[p] THEN pv[p] ELSE pv[x]
  PROVE  IsList(nw, pw, h, L \ {p})
  <1> DEFINE M == L \ {p}
  <1>1. M \cup {h} = (L \cup {h}) \ {p}
    OBVIOUS
  <1>2. /\ nx[p] \in M \cup {h} /\ pv[p] \in M \cup {h} /\ nx[pv[p]] = p
        /\ nx[p] # h => pv[nx[p]] = p
        /\ \A x \in M \cup {h} : nx[x] = p => x = pv[p]
    BY <1>1, ListSteps
  <1>3. \A x \in M \cup {h} : nw[x] = IF x = pv[p] THEN nx[p] ELSE nx[x]
    BY <1>1
  <1>4. ASSUME NEW x \in M \cup {h}
        PROVE  nw[x] \in M \cup {h} /\ (nw[x] # h => pw[nw[x]] = x)
    <2>1. CASE x = pv[p]
      <3>1. nw[x] = nx[p]
        BY <1>3, <2>1
      <3>2. nx[p] # h => pw[nx[p]] = pv[p]
        BY <1>2
      <3> QED
        BY <1>2, <2>1, <3>1, <3>2
    <2>2. CASE x # pv[p]
      <3>1. nw[x] = nx[x] /\ nx[x] # p
        BY <1>2, <1>3, <2>2
      <3>2. nx[x] \in L \cup {h} /\ (nx[x] # h => pv[nx[x]] = x)
        BY DEF IsList
      <3>3. nx[x] # h => nx[x] # nx[p]
        BY <1>2, <1>4, <3>2
      <3> QED
        BY <3>1, <3>2, <3>3
    <2> QED
      BY <2>1, <2>2
  <1>5. ASSUME NEW x \in M
        PROVE  pw[x] \in M \cup {h} /\ nw[pw[x]] = x
    <2>1. pv[x] \in L \cup {h} /\ nx[pv[x]] = x
      BY DEF IsList
    <2>2. CASE x = nx[p]
      <3>1. pw[x] = pv[p]
        BY <2>2
      <3> QED
        BY <1>2, <1>3, <2>2, <3>1
    <2>3. CASE x # nx[p]
      <3>1. pw[x] = pv[x]
        BY <2>3
      <3>2. pv[x] # p
        BY <2>1, <2>3
      <3>3. pv[x] # pv[p]
        BY <1>2, <2>1
      <3> QED
        BY <1>3, <2>1, <3>1, <3>2, <3>3
    <2> QED
      BY <2>2, <2>3
  <1>6. ASSUME NEW S \in SUBSET (M \cup {h}), h \in S, \A x \in S : nw[x] \in S
        PROVE  S = M \cup {h}
    <2> DEFINE R == S \cup (IF pv[p] \in S THEN {p} ELSE {})
    <2>1. R \in SUBSET (L \cup {h}) /\ h \in R
      BY <1>6
    <2>2. ASSUME NEW x \in R
          PROVE  nx[x] \in R
      <3>1. CASE x = p
        <4>1. pv[p] \in S
          BY <3>1
        <4>2. nw[pv[p]] = nx[p] /\ nw[pv[p]] \in S
          BY <1>2, <1>3, <1>6, <4>1
        <4> QED
          BY <3>1, <4>2
      <3>2. CASE x # p /\ x = pv[p]
        BY <1>2, <3>2
      <3>3. CASE x # p /\ x # pv[p]
        <4>1. x \in S
          BY <3>3
        <4>2. nw[x] = nx[x]
          BY <1>3, <1>6, <3>3, <4>1
        <4> QED
          BY <1>6, <4>1, <4>2
      <3> QED
        BY <3>1, <3>2, <3>3
    <2>3. R = L \cup {h}
      <3> HIDE DEF R
      <3> QED
        BY <2>1, <2>2 DEF IsList
    <2> QED
      BY <2>3
  <1> HIDE DEF M
  <1>7. IsList(nw, pw, h, M)
    BY <1>4, <1>5, <1>6 DEF IsList
  <1> QED
    BY <1>7 DEF M

(* A node becomes the first. *)
LEMMA ListPush ==
  ASSUME NEW nx, NEW pv, NEW h, NEW L, h \notin L, IsList(nx, pv, h, L), NEW p, p \notin L, p # h, NEW nw, NEW pw,
         nw[h] = p, nw[p] = nx[h], \A x \in L : nw[x] = nx[x],
         pw[p] = h, \A x \in L : pw[x] = IF x = nx[h] THEN p ELSE pv[x]
  PROVE  IsList(nw, pw, h, L \cup {p})
  <1> DEFINE M == L \cup {p}
  <1>1. /\ nx[h] \in L \cup {h} /\ (nx[h] # h => pv[nx[h]] = h)
        /\ \A x \in L : nx[x] \in L \cup {h} /\ (nx[x] # h => pv[nx[x]] = x)
        /\ \A x \in L : pv[x] \in L \cup {h} /\ nx[pv[x]] = x
    BY DEF IsList
  <1>2. ASSUME NEW x \in M \cup {h}
        PROVE  nw[x] \in M \cup {h} /\ (nw[x] # h => pw[nw[x]] = x)
    <2>1. CASE x = h
      BY <2>1
    <2>2. CASE x = p
      BY <1>1, <2>2
    <2>3. CASE x \in L
      <3>1. nx[x] # h => nx[x] # nx[h]
        BY <1>1, <2>3
      <3> QED
        BY <1>1, <2>3, <3>1
    <2> QED
      BY <2>1, <2>2, <2>3
  <1>3. ASSUME NEW x \in M
        PROVE  pw[x] \in M \cup {h} /\ nw[pw[x]] = x
    <2>1. CASE x = p
      BY <2>1
    <2>2. CASE x \in L /\ x = nx[h]
      BY <2>2
    <2>3. CASE x \in L /\ x # nx[h]
      <3>1. pw[x] = pv[x] /\ pv[x] \in L
        BY <1>1, <2>3
      <3> QED
        BY <1>1, <2>3, <3>1
    <2> QED
      BY <2>1, <2>2, <2>3
  <1>4. ASSUME NEW S \in SUBSET (M \cup {h}), h \in S, \A x \in S : nw[x] \in S
        PROVE  S = M \cup {h}
    <2>1. p \in S
      BY <1>4
    <2> DEFINE R == S \ {p}
    <2>2. R \in SUBSET (L \cup {h}) /\ h \in R
      BY <1>4
    <2>3. ASSUME NEW x \in R
          PROVE  nx[x] \in R
      <3>1. CASE x = h
        BY <1>1, <1>4, <2>1, <3>1
      <3>2. CASE x # h
        BY <1>1, <1>4, <2>2, <3>2
      <3> QED
        BY <3>1, <3>2
    <2>4. R = L \cup {h}
      <3> HIDE DEF R
      <3> QED
        BY <2>2, <2>3 DEF IsList
    <2> QED
      BY <2>1, <2>4
  <1> HIDE DEF M
  <1>5. IsList(nw, pw, h, M)
    BY <1>2, <1>3, <1>4 DEF IsList
  <1> QED
    BY <1>5 DEF M

(* A node is replaced by another. *)
LEMMA ListReplace ==
  ASSUME NEW nx, NEW pv, NEW h, NEW L, h \notin L, IsList(nx, pv, h, L), NEW p \in L, NEW r, r \notin L, r # h,
         NEW nw, NEW pw,
         \A x \in (L \cup {h}) \ {p} : nw[x] = IF x = pv[p] THEN r ELSE nx[x],
         nw[r] = nx[p], pw[r] = pv[p],
         \A x \in L \ {p} : pw[x] = IF x = nx[p] THEN r ELSE pv[x]
  PROVE  IsList(nw, pw, h, (L \ {p}) \cup {r})
  <1> DEFINE M == (L \ {p}) \cup {r}
             N == (L \cup {h}) \ {p}
  <1>1. /\ M \cup {h} = N \cup {r} /\ p \notin M \cup {h} /\ r \notin N
        /\ \A x \in M : x \in L \ {p} \/ x = r
        /\ \A x \in M \cup {h} : x \in N \/ x = r
    OBVIOUS
  <1>2. /\ nx[p] \in N /\ pv[p] \in N /\ nx[pv[p]] = p
        /\ nx[p] # h => pv[nx[p]] = p
        /\ \A x \in N : nx[x] = p => x = pv[p]
    BY ListSteps
  <1>3. \A x \in N : nx[x] \in L \cup {h} /\ (nx[x] # h => pv[nx[x]] = x)
    BY DEF IsList
  <1>4. \A x \in L \ {p} : pv[x] \in L \cup {h} /\ nx[pv[x]] = x
    BY DEF IsList
  <1>5. nw[pv[p]] = r /\ \A x \in N : x # pv[p] => nw[x] = nx[x]
    BY <1>2
  <1>6. (nx[p] # h => pw[nx[p]] = r) /\ \A x \in L \ {p} : x # nx[p] => pw[x] = pv[x]
    BY <1>2
  <1> HIDE DEF M, N
  <1>7. ASSUME NEW x \in M \cup {h}
        PROVE  nw[x] \in M \cup {h} /\ (nw[x] # h => pw[nw[x]] = x)
    <2>1. CASE x = r
      BY <1>1, <1>2, <1>6, <2>1
    <2>2. CASE x = pv[p]
      BY <1>1, <1>5, <2>2
    <2>3. CASE x # r /\ x # pv[p]
      <3>1. x \in N /\ nw[x] = nx[x]
        BY <1>1, <1>5, <2>3
      <3>2. nx[x] # p /\ (nx[x] # h => nx[x] # nx[p])
        BY <1>1, <1>2, <1>3, <2>3, <3>1
      <3>3. nx[x] \in N
        BY <1>3, <3>1, <3>2 DEF N
      <3>4. nx[x] # h => pw[nx[x]] = pv[nx[x]]
        BY <1>6, <3>2, <3>3 DEF N
      <3> QED
        BY <1>1, <1>3, <3>1, <3>3, <3>4
    <2> QED
      BY <2>1, <2>2, <2>3
  <1>8. ASSUME NEW x \in M
        PROVE  pw[x] \in M \cup {h} /\ nw[pw[x]] = x
    <2>1. CASE x = r
      BY <1>1, <1>2, <1>5, <2>1
    <2>2. CASE x # r /\ x = nx[p]
      <3>1. x # h
        BY <1>1, <2>2
      <3> QED
        BY <1>1, <1>6, <2>2, <3>1
    <2>3. CASE x # r /\ x # nx[p]
      <3>1. x \in L \ {p} /\ pw[x] = pv[x] /\ pv[x] \in L \cup {h} /\ nx[pv[x]] = x
        BY <1>1, <1>4, <1>6, <2>3
      <3>2. pv[x] # p /\ pv[x] # pv[p]
        BY <1>2, <2>3, <3>1
      <3>3. pv[x] \in N
        BY <3>1, <3>2 DEF N
      <3> QED
        BY <1>1, <1>5, <3>1, <3>2, <3>3
    <2> QED
      BY <2>1, <2>2, <2>3
  <1>9. ASSUME NEW S \in SUBSET (M \cup {h}), h \in S, \A x \in S : nw[x] \in S
        PROVE  S = M \cup {h}
    <2> DEFINE R == (S \ {r}) \cup (IF r \in S THEN {p} ELSE {})
    <2>1. R \in SUBSET (L \cup {h}) /\ h \in R
      BY <1>9 DEF M
    <2>2. ASSUME NEW x \in R
          PROVE  nx[x] \in R
      <3>1. CASE x = p
        <4>1. r \in S
          BY <1>1, <1>9, <3>1
        <4>2. nx[p] \in S /\ nx[p] # r
          BY <1>1, <1>2, <1>9, <4>1
        <4> QED
          BY <3>1, <4>2
      <3>2. CASE x # p /\ x = pv[p]
        <4>1. x \in S
          BY <3>2
        <4>2. r \in S
          BY <1>5, <1>9, <3>2, <4>1
        <4> QED
          BY <1>2, <3>2, <4>2
      <3>3. CASE x # p /\ x # pv[p]
        <4>1. x \in S /\ x \in N
          BY <1>1, <1>9, <3>3
        <4>2. nw[x] = nx[x] /\ nx[x] \in S
          BY <1>5, <1>9, <3>3, <4>1
        <4>3. nx[x] # r
          BY <1>3, <4>1
        <4> QED
          BY <4>2, <4>3
      <3> QED
        BY <3>1, <3>2, <3>3
    <2>3. R = L \cup {h}
      <3> HIDE DEF R
      <3> QED
        BY <2>1, <2>2 DEF IsList
    <2>4. r \in S
      BY <1>1, <2>3
    <2> QED
      BY <2>3, <2>4 DEF M
  <1>10. IsList(nw, pw, h, M)
    BY <1>7, <1>8, <1>9 DEF IsList
  <1> QED
    BY <1>10 DEF M

(* An empty list, and the first node of one that is not. *)
LEMMA ListFirst ==
  ASSUME NEW nx, NEW pv, NEW h, NEW L, h \notin L, IsList(nx, pv, h, L)
  PROVE  nx[h] \in L \cup {h} /\ (nx[h] = h <=> L = {})
  <1>1. nx[h] \in L \cup {h}
    BY DEF IsList
  <1>2. ASSUME nx[h] = h
        PROVE  L = {}
    <2>1. {h} \in SUBSET (L \cup {h}) /\ h \in {h} /\ \A x \in {h} : nx[x] \in {h}
      BY <1>2
    <2>2. {h} = L \cup {h}
      BY <2>1 DEF IsList
    <2> QED
      BY <2>2
  <1> QED
    BY <1>1, <1>2

(* A walk through a list comes by all of it, if nothing stops it, and      *)
(* never by anything else.                                                 *)
LEMMA WalkIs ==
  ASSUME NEW h, NEW L, h \notin L, L \subseteq PageNos, h \notin PageNos, IsList(next, prev, h, L)
  PROVE  Walk(h, {h}) \ {h} = L /\ \A stops : Walk(h, stops) \subseteq L \cup {h}
  <1> DEFINE U == PageNos \cup {h}
  <1>1. ASSUME NEW stops, NEW x \in Walk(h, stops)
        PROVE  x \in L \cup {h}
    <2>1. L \cup {h} \in SUBSET U
      OBVIOUS
    <2>2. next[h] \in L \cup {h} /\ \A y \in (L \cup {h}) \ stops : next[y] \in L \cup {h}
      BY DEF IsList
    <2> QED
      BY <1>1, <2>1, <2>2 DEF Walk
  <1>2. ASSUME NEW x \in L
        PROVE  x \in Walk(h, {h})
    <2> SUFFICES ASSUME NEW S \in SUBSET U, next[h] \in S, \A y \in S \ {h} : next[y] \in S
                 PROVE  x \in S
      BY DEF Walk
    <2> DEFINE R == (S \cap L) \cup {h}
    <2>1. R \in SUBSET (L \cup {h}) /\ h \in R
      OBVIOUS
    <2>2. \A y \in R : next[y] \in R
      BY DEF IsList
    <2>3. R = L \cup {h}
      <3> HIDE DEF R
      <3> QED
        BY <2>1, <2>2 DEF IsList
    <2> QED
      BY <2>3
  <1> QED
    BY <1>1, <1>2

-----------------------------------------------------------------------------
(* Tilings. *)

LEMMA TileTypes ==
  ASSUME NEW Ld, NEW len, Tiling(Ld, len), NEW p \in Ld
  PROVE  /\ p \in PageNos /\ p \in Nat /\ p < Pages /\ len[p] \in Nat /\ len[p] >= 1 /\ p + len[p] <= Pages
         /\ \A q \in Ld : q > p => q >= p + len[p]
  <1>1. p \in PageNos /\ len[p] \in Nat /\ len[p] >= 1 /\ p + len[p] <= Pages
    BY DEF Tiling
  <1>2. p \in Nat /\ p < Pages
    BY <1>1, SlabAssumption DEF PageNos
  <1>3. ASSUME NEW q \in Ld, q > p
        PROVE  q >= p + len[p]
    <2>1. q \in Nat
      BY SlabAssumption DEF Tiling, PageNos
    <2>2. q \notin Inner(p, len[p])
      BY DEF Tiling
    <2> QED
      BY <1>1, <1>2, <1>3, <2>1, <2>2 DEF Inner
  <1> QED
    BY <1>1, <1>2, <1>3

(* Where a tile ends, another begins. *)
LEMMA TileNext ==
  ASSUME NEW Ld, NEW len, Tiling(Ld, len), NEW p \in Ld, p + len[p] < Pages
  PROVE  p + len[p] \in Ld
  <1>1. /\ p \in Nat /\ len[p] \in Nat /\ len[p] >= 1
    BY TileTypes
  <1>2. p + len[p] \in PageNos
    BY <1>1, SlabAssumption DEF PageNos
  <1>3. PICK r \in Ld : r <= p + len[p] /\ p + len[p] < r + len[r]
    BY <1>2 DEF Tiling
  <1>4. r \in Nat /\ len[r] \in Nat
    BY TileTypes
  <1>5. ~(r > p /\ r < p + len[p])
    BY <1>1, <1>4, TileTypes
  <1>6. ~(p > r /\ p < r + len[r])
    BY <1>1, <1>4, TileTypes
  <1>7. r = p + len[p]
    BY <1>1, <1>3, <1>4, <1>5, <1>6
  <1> QED
    BY <1>3, <1>7

(* Tiles do not overlap. *)
LEMMA TileApart ==
  ASSUME NEW Ld, NEW len, Tiling(Ld, len), NEW p \in Ld, NEW q \in Ld, p # q
  PROVE  p + len[p] <= q \/ q + len[q] <= p
  <1>1. p \in Nat /\ q \in Nat /\ len[p] \in Nat /\ len[q] \in Nat
    BY TileTypes
  <1>2. q > p => q >= p + len[p]
    BY TileTypes
  <1>3. p > q => p >= q + len[q]
    BY TileTypes
  <1> QED
    BY <1>1, <1>2, <1>3

(* A tile is cut in two. *)
LEMMA TileSplit ==
  ASSUME NEW Ld, NEW len, Tiling(Ld, len), NEW p \in Ld, NEW n \in Nat, 0 < n, n < len[p],
         NEW ln \in [PageNos -> Nat], ln[p] = n, ln[p + n] = len[p] - n,
         \A q \in Ld : q # p => ln[q] = len[q]
  PROVE  p + n \in PageNos /\ p + n \notin Ld /\ Tiling(Ld \cup {p + n}, ln)
  <1>1. /\ p \in Nat /\ len[p] \in Nat /\ p + len[p] <= Pages
    BY TileTypes
  <1>2. p + n \in PageNos /\ p + n \in Nat
    BY <1>1, SlabAssumption DEF PageNos
  <1>3. p + n \notin Ld
    <2>1. p + n \in Inner(p, len[p])
      BY <1>1 DEF Inner
    <2> QED
      BY <2>1 DEF Tiling
  <1>4. ASSUME NEW q \in Ld, q # p
        PROVE  /\ q \in Nat /\ ln[q] = len[q] /\ len[q] \in Nat /\ len[q] >= 1 /\ q + len[q] <= Pages
               /\ p + n \notin Inner(q, len[q])
    <2>1. q \in Nat /\ ln[q] = len[q] /\ len[q] \in Nat /\ len[q] >= 1 /\ q + len[q] <= Pages
      BY <1>4, TileTypes
    <2>2. p + len[p] <= q \/ q + len[q] <= p
      BY <1>4, TileApart
    <2>3. p + n \notin Inner(q, len[q])
      BY <1>1, <1>2, <2>1, <2>2 DEF Inner
    <2> QED
      BY <2>1, <2>3
  <1>5. \A q \in Inner(p, len[p]) : q \notin Ld
    BY DEF Tiling
  <1>6. ASSUME NEW q \in Ld \cup {p + n}
        PROVE  ln[q] >= 1 /\ q + ln[q] <= Pages /\ \A r \in Inner(q, ln[q]) : r \notin Ld \cup {p + n}
    <2>1. CASE q = p
      <3>1. \A r \in Inner(p, n) : r \in Inner(p, len[p]) /\ r # p + n
        BY <1>1 DEF Inner
      <3>2. n >= 1 /\ p + n <= Pages
        BY <1>1, SlabAssumption
      <3>3. \A r \in Inner(p, n) : r \notin Ld \cup {p + n}
        BY <1>5, <3>1
      <3> QED
        BY <2>1, <3>2, <3>3
    <2>2. CASE q = p + n
      <3>1. \A r \in Inner(p + n, len[p] - n) : r \in Inner(p, len[p]) /\ r # p + n
        BY <1>1 DEF Inner
      <3>2. len[p] - n >= 1 /\ p + n + (len[p] - n) <= Pages
        BY <1>1
      <3>3. \A r \in Inner(p + n, len[p] - n) : r \notin Ld \cup {p + n}
        BY <1>5, <3>1
      <3> QED
        BY <2>2, <3>2, <3>3
    <2>3. CASE q # p /\ q # p + n
      <3>1. \A r \in Inner(q, len[q]) : r \notin Ld
        BY <2>3 DEF Tiling
      <3> QED
        BY <1>4, <2>3, <3>1
    <2> QED
      BY <2>1, <2>2, <2>3
  <1>7. ASSUME NEW q \in PageNos
        PROVE  \E r \in Ld \cup {p + n} : r <= q /\ q < r + ln[r]
    <2>0. q \in Nat
      BY SlabAssumption DEF PageNos
    <2>1. PICK r \in Ld : r <= q /\ q < r + len[r]
      BY DEF Tiling
    <2>2. CASE r # p
      BY <1>4, <2>1, <2>2
    <2>3. CASE r = p /\ q < p + n
      BY <2>1, <2>3
    <2>4. CASE r = p /\ q >= p + n
      <3>1. p + n + ln[p + n] = p + len[p]
        BY <1>1
      <3> QED
        BY <2>1, <2>4, <3>1
    <2> QED
      BY <1>2, <2>0, <2>2, <2>3, <2>4
  <1> QED
    BY <1>2, <1>3, <1>6, <1>7 DEF Tiling

(* Two tiles become one. *)
LEMMA TileJoin ==
  ASSUME NEW Ld, NEW len, Tiling(Ld, len), NEW p \in Ld, NEW q \in Ld, q = p + len[p],
         NEW ln \in [PageNos -> Nat], ln[p] = len[p] + len[q], \A r \in Ld : r # p /\ r # q => ln[r] = len[r]
  PROVE  Tiling(Ld \ {q}, ln)
  <1>1. /\ p \in Nat /\ len[p] \in Nat /\ len[p] >= 1 /\ q \in Nat /\ len[q] \in Nat /\ len[q] >= 1
        /\ q + len[q] <= Pages /\ p # q
    BY TileTypes
  <1>2. ASSUME NEW r \in Ld \ {q}
        PROVE  ln[r] >= 1 /\ r + ln[r] <= Pages /\ \A x \in Inner(r, ln[r]) : x \notin Ld \ {q}
    <2>1. CASE r = p
      <3>1. \A x \in Inner(p, len[p]) : x \notin Ld
        BY DEF Tiling
      <3>2. \A x \in Inner(q, len[q]) : x \notin Ld
        BY DEF Tiling
      <3>3. \A x \in Inner(p, ln[p]) : x \in Inner(p, len[p]) \/ x = q \/ x \in Inner(q, len[q])
        BY <1>1 DEF Inner
      <3> QED
        BY <1>1, <2>1, <3>1, <3>2, <3>3
    <2>2. CASE r # p
      BY <2>2 DEF Tiling
    <2> QED
      BY <2>1, <2>2
  <1>3. ASSUME NEW x \in PageNos
        PROVE  \E r \in Ld \ {q} : r <= x /\ x < r + ln[r]
    <2>0. x \in Nat
      BY SlabAssumption DEF PageNos
    <2>1. PICK r \in Ld : r <= x /\ x < r + len[r]
      BY DEF Tiling
    <2>2. CASE r = p \/ r = q
      <3>1. p <= x /\ x < p + ln[p]
        BY <1>1, <2>0, <2>1, <2>2
      <3> QED
        BY <1>1, <3>1
    <2>3. CASE r # p /\ r # q
      BY <2>1, <2>3
    <2> QED
      BY <2>2, <2>3
  <1> QED
    BY <1>2, <1>3 DEF Tiling

-----------------------------------------------------------------------------
(* Numbers and nodes. *)

(* The least element of a set of numbers, which stands for induction. *)
LEMMA LeastNumber ==
  ASSUME NEW T \in SUBSET Nat, T # {}
  PROVE  \E x \in T : \A y \in T : x <= y
  <1> DEFINE Upto == {1 .. x : x \in T}
             R == StrictSubsetOrdering(Nat)
  <1>1. Upto \subseteq FiniteSubsetsOf(Nat) /\ Upto # {}
    <2>1. \A x \in T : 1 .. x \in SUBSET Nat /\ IsFiniteSet(1 .. x)
      BY FS_Interval
    <2> QED
      BY <2>1 DEF FiniteSubsetsOf
  <1>2. IsWellFoundedOn(R, FiniteSubsetsOf(Nat))
    BY FS_StrictSubsetOrderingWellFounded
  <1>3. \E U \in Upto : \A V \in Upto : ~ << V, U >> \in R
    <2> HIDE DEF Upto, R
    <2> QED
      BY <1>1, <1>2, WFMin
  <1>4. PICK x \in T : \A y \in T : << 1 .. y, 1 .. x >> \notin R
    BY <1>3
  <1>5. ASSUME NEW y \in T, y < x
        PROVE  FALSE
    <2>1. 1 .. y \subseteq 1 .. x /\ x \in 1 .. x /\ x \notin 1 .. y
      BY <1>5
    <2>2. << 1 .. y, 1 .. x >> \in R
      BY <2>1 DEF StrictSubsetOrdering
    <2> QED
      BY <1>4, <2>2
  <1> QED
    BY <1>5

LEMMA LeastIs ==
  ASSUME NEW T \in SUBSET Nat, T # {}
  PROVE  Min(T) \in T /\ \A y \in T : Min(T) <= y
  BY LeastNumber DEF Min

LEMMA PageDivMod ==
  ASSUME NEW a \in Int, NEW w \in Nat \ {0}
  PROVE  /\ a % w \in 0 .. w - 1 /\ a \div w \in Int
         /\ a = (w * (a \div w)) + (a % w)
  OBVIOUS

LEMMA Quotient ==
  ASSUME NEW p \in Nat, NEW r \in Nat, NEW w \in Nat \ {0}, r < w
  PROVE  ((p * w) + r) \div w = p /\ ((p * w) + r) % w = r
  <1> DEFINE a == (p * w) + r
             q == (a \div w) - p
  <1>1. a \in Int
    OBVIOUS
  <1>2. /\ a % w \in 0 .. w - 1 /\ a \div w \in Int /\ a = (w * (a \div w)) + (a % w)
    BY <1>1, PageDivMod
  <1>3. \A x, y \in Int : x = y => x - y = 0
    OBVIOUS
  <1>4. PICK d, e \in Int : d = a \div w /\ e = a % w
    BY <1>2
  <1>5. /\ (p * w) + r = (w * d) + e /\ e >= 0 /\ e < w
    BY <1>2, <1>4
  <1>6. w * (d - p) = r - e
    BY <1>5
  <1>7. ~(d - p >= 1)
    <2>1. d - p >= 1 => w * (d - p) >= w
      OBVIOUS
    <2> QED
      BY <1>5, <1>6, <2>1
  <1>8. ~(d - p <= -1)
    <2>1. d - p <= -1 => w * (d - p) <= -w
      OBVIOUS
    <2> QED
      BY <1>5, <1>6, <2>1
  <1>9. d = p
    BY <1>7, <1>8
  <1> QED
    BY <1>4, <1>5, <1>9

LEMMA NodeFacts ==
  /\ \A p \in PageNos : p \in Nat /\ p < Pages /\ p \in Nodes
  /\ \A p \in Nat : p < Pages => p \in PageNos
  /\ FreeList \in Heads /\ FreeList \in Nodes /\ FreeList \notin PageNos /\ FreeList # NULL
  /\ \A size \in Sizes : /\ Slot(size) \in Heads /\ Slot(size) \in Nodes /\ Slot(size) \notin PageNos
                         /\ Slot(size) # NULL /\ Slot(size) # FreeList
                         /\ \A other \in Sizes : Slot(size) = Slot(other) => size = other
  /\ NULL \notin Nodes /\ NULL \notin PageNos
  <1>1. \A size \in Sizes : size \in Nat /\ size >= 1
    BY SlabAssumption DEF Sizes
  <1> QED
    BY <1>1, SlabAssumption DEF PageNos, Nodes, Heads, FreeList, Slot, NULL

LEMMA MaxOfTwo ==
  ASSUME NEW k \in Nat
  PROVE  Max({1, k}) \in Nat
  <1>1. \E x \in {1, k} : \A y \in {1, k} : x >= y
    <2>1. CASE k >= 1
      BY <2>1
    <2>2. CASE k < 1
      BY <2>2
    <2> QED
      BY <2>1, <2>2
  <1> QED
    BY <1>1 DEF Max

LEMMA SizeFacts ==
  ASSUME NEW size \in Sizes
  PROVE  /\ size \in Nat /\ size >= 1 /\ 2 * size <= PageSize /\ size <= PageSize
         /\ NumberOf(size) \in Nat /\ NumberOf(size) >= 2 /\ size * NumberOf(size) <= PageSize
         /\ NumberOf(size) <= PageSize
         /\ Reserved(size) \in Nat /\ TypeFor(size) \in Types /\ TypeFor(size) # "page"
  <1>1. /\ size \in Nat /\ size >= 1 /\ size <= PageSize \div 2 /\ PageSize \in Nat /\ PageSize >= 1
    BY SlabAssumption DEF Sizes
  <1>2. 2 * size <= PageSize
    <2>1. PageSize \div 2 \in Int /\ PageSize = (2 * (PageSize \div 2)) + (PageSize % 2) /\ PageSize % 2 >= 0
      BY <1>1, PageDivMod
    <2> QED
      BY <1>1, <2>1
  <1>3. PICK n, r \in Int : n = PageSize \div size /\ r >= 0 /\ r < size /\ PageSize = (size * n) + r
    <2>1. /\ PageSize % size \in 0 .. size - 1 /\ PageSize \div size \in Int
          /\ PageSize = (size * (PageSize \div size)) + (PageSize % size)
      BY <1>1, PageDivMod
    <2> QED
      BY <1>1, <2>1
  <1>4. n >= 2
    <2>1. n <= 1 => size * n <= size
      BY <1>1
    <2> QED
      BY <1>1, <1>2, <1>3, <2>1
  <1>5. size * n <= PageSize /\ n <= PageSize
    <2>1. n <= size * n
      BY <1>1, <1>4
    <2> QED
      BY <1>1, <1>3, <1>4, <2>1
  <1>6. NumberOf(size) = n
    BY <1>3 DEF NumberOf
  <1>7. Reserved(size) \in Nat
    <2>1. size * Byte \in Nat \ {0}
      BY <1>1, SlabAssumption
    <2>2. n \div (size * Byte) \in Nat
      BY <1>4, <2>1
    <2>3. Max({1, n \div (size * Byte)}) \in Nat
      BY <2>2, MaxOfTwo
    <2> QED
      BY <1>6, <2>3 DEF Reserved
  <1>8. TypeFor(size) \in Types /\ TypeFor(size) # "page"
    BY DEF TypeFor, Types
  <1> QED
    BY <1>1, <1>2, <1>4, <1>5, <1>6, <1>7, <1>8

(* A page has room for more than the bits of its bitmap. *)
LEMMA RoomForOne ==
  ASSUME BitsFit, NEW size \in Sizes
  PROVE  Reserved(size) + 1 < NumberOf(size) /\ Reserved(size) % Word = Reserved(size)
  <1>1. /\ Reserved(size) \in Nat /\ NumberOf(size) \in Nat /\ NumberOf(size) >= 2 /\ Reserved(size) < Word /\ Word \in Nat
    BY SizeFacts, SlabAssumption DEF BitsFit
  <1>2. TypeFor(size) # "small" => Reserved(size) = 0
    BY DEF Reserved
  <1>3. TypeFor(size) = "small" => NumberOf(size) > Word
    BY DEF TypeFor
  <1>4. Reserved(size) + 1 < NumberOf(size)
    BY <1>1, <1>2, <1>3
  <1>5. Reserved(size) % Word = Reserved(size)
    BY <1>1
  <1> QED
    BY <1>4, <1>5

LEMMA FieldFacts ==
  /\ \A n \in 0 .. Pages : Run(n) \in Fields /\ Start(n) \in Fields
  /\ RunTail \in Fields /\ \A size \in Sizes : Chunks(size) \in Fields
  /\ \A n : Run(n).tag = "run" /\ Run(n).n = n /\ Start(n).tag = "start" /\ Start(n).n = n
            /\ Chunks(n).tag = "chunks" /\ Chunks(n).n = n
  /\ RunTail # Run(0)
  /\ \A n, k : Run(n) = Run(k) => n = k
  <1>1. Pages \in Nat /\ PageSize \in Nat /\ Pages >= 1 /\ PageSize >= 1
    BY SlabAssumption
  <1>2. Pages <= Pages * PageSize /\ PageSize <= Pages * PageSize /\ Pages * PageSize \in Nat
    BY <1>1
  <1>3. \A n \in 0 .. Pages : n \in 0 .. Pages * PageSize
    BY <1>1, <1>2
  <1>4. \A size \in Sizes : size \in 0 .. Pages * PageSize
    BY <1>1, <1>2, SizeFacts
  <1>5. 0 \in 0 .. Pages * PageSize
    BY <1>2
  <1> QED
    BY <1>3, <1>4, <1>5 DEF Fields, Run, Start, RunTail, Chunks

-----------------------------------------------------------------------------
(* What the steps of a call leave in the descriptors. *)

LEMMA MemFields ==
  ASSUME NEW m \in Mems
  PROVE  /\ m.next \in [Nodes -> Nodes \cup {NULL}] /\ m.prev \in [Nodes -> Nodes \cup {NULL}]
         /\ m.type \in [PageNos -> Types] /\ m.slab \in [PageNos -> Fields]
         /\ m.busy \in [PageNos -> Bits]
         /\ m = [next |-> m.next, prev |-> m.prev, type |-> m.type, slab |-> m.slab, busy |-> m.busy]
  BY DEF Mems

(* One field of one descriptor. *)
LEMMA NextGives ==
  ASSUME NEW m \in Mems, NEW p \in Nodes, NEW s \in Nodes \cup {NULL}
  PROVE  LET u == [m EXCEPT !.next[p] = s]
         IN /\ u \in Mems /\ u.prev = m.prev /\ u.type = m.type /\ u.slab = m.slab /\ u.busy = m.busy
            /\ \A x \in Nodes : u.next[x] = IF x = p THEN s ELSE m.next[x]
  <1>1. PICK g : g = [m.next EXCEPT ![p] = s]
    OBVIOUS
  <1>2. g \in [Nodes -> Nodes \cup {NULL}] /\ \A x \in Nodes : g[x] = IF x = p THEN s ELSE m.next[x]
    BY <1>1, MemFields
  <1>3. PICK u : u = [m EXCEPT !.next[p] = s]
    OBVIOUS
  <1>4. u = [m EXCEPT !.next = g]
    BY <1>1, <1>3
  <1>5. /\ u \in Mems /\ u.prev = m.prev /\ u.type = m.type /\ u.slab = m.slab /\ u.busy = m.busy
        /\ u.next = g
    BY <1>2, <1>4 DEF Mems
  <1> QED
    BY <1>2, <1>3, <1>5

LEMMA PrevGives ==
  ASSUME NEW m \in Mems, NEW p \in Nodes, NEW s \in Nodes \cup {NULL}
  PROVE  LET u == [m EXCEPT !.prev[p] = s]
         IN /\ u \in Mems /\ u.next = m.next /\ u.type = m.type /\ u.slab = m.slab /\ u.busy = m.busy
            /\ \A x \in Nodes : u.prev[x] = IF x = p THEN s ELSE m.prev[x]
  <1>1. PICK g : g = [m.prev EXCEPT ![p] = s]
    OBVIOUS
  <1>2. g \in [Nodes -> Nodes \cup {NULL}] /\ \A x \in Nodes : g[x] = IF x = p THEN s ELSE m.prev[x]
    BY <1>1, MemFields
  <1>3. PICK u : u = [m EXCEPT !.prev[p] = s]
    OBVIOUS
  <1>4. u = [m EXCEPT !.prev = g]
    BY <1>1, <1>3
  <1>5. /\ u \in Mems /\ u.next = m.next /\ u.type = m.type /\ u.slab = m.slab /\ u.busy = m.busy
        /\ u.prev = g
    BY <1>2, <1>4 DEF Mems
  <1> QED
    BY <1>2, <1>3, <1>5

LEMMA TypeGives ==
  ASSUME NEW m \in Mems, NEW p \in PageNos, NEW s \in Types
  PROVE  LET u == [m EXCEPT !.type[p] = s]
         IN /\ u \in Mems /\ u.next = m.next /\ u.prev = m.prev /\ u.slab = m.slab /\ u.busy = m.busy
            /\ \A x \in PageNos : u.type[x] = IF x = p THEN s ELSE m.type[x]
  <1>1. PICK g : g = [m.type EXCEPT ![p] = s]
    OBVIOUS
  <1>2. g \in [PageNos -> Types] /\ \A x \in PageNos : g[x] = IF x = p THEN s ELSE m.type[x]
    BY <1>1, MemFields
  <1>3. PICK u : u = [m EXCEPT !.type[p] = s]
    OBVIOUS
  <1>4. u = [m EXCEPT !.type = g]
    BY <1>1, <1>3
  <1>5. /\ u \in Mems /\ u.next = m.next /\ u.prev = m.prev /\ u.slab = m.slab /\ u.busy = m.busy
        /\ u.type = g
    BY <1>2, <1>4 DEF Mems
  <1> QED
    BY <1>2, <1>3, <1>5

LEMMA SlabGives ==
  ASSUME NEW m \in Mems, NEW p \in PageNos, NEW s \in Fields
  PROVE  LET u == [m EXCEPT !.slab[p] = s]
         IN /\ u \in Mems /\ u.next = m.next /\ u.prev = m.prev /\ u.type = m.type /\ u.busy = m.busy
            /\ \A x \in PageNos : u.slab[x] = IF x = p THEN s ELSE m.slab[x]
  <1>1. PICK g : g = [m.slab EXCEPT ![p] = s]
    OBVIOUS
  <1>2. g \in [PageNos -> Fields] /\ \A x \in PageNos : g[x] = IF x = p THEN s ELSE m.slab[x]
    BY <1>1, MemFields
  <1>3. PICK u : u = [m EXCEPT !.slab[p] = s]
    OBVIOUS
  <1>4. u = [m EXCEPT !.slab = g]
    BY <1>1, <1>3
  <1>5. /\ u \in Mems /\ u.next = m.next /\ u.prev = m.prev /\ u.type = m.type /\ u.busy = m.busy
        /\ u.slab = g
    BY <1>2, <1>4 DEF Mems
  <1> QED
    BY <1>2, <1>3, <1>5

LEMMA BusyGives ==
  ASSUME NEW m \in Mems, NEW p \in PageNos, NEW s \in Bits
  PROVE  LET u == [m EXCEPT !.busy[p] = s]
         IN /\ u \in Mems /\ u.next = m.next /\ u.prev = m.prev /\ u.type = m.type /\ u.slab = m.slab
            /\ \A x \in PageNos : u.busy[x] = IF x = p THEN s ELSE m.busy[x]
  <1>1. PICK g : g = [m.busy EXCEPT ![p] = s]
    OBVIOUS
  <1>2. g \in [PageNos -> Bits] /\ \A x \in PageNos : g[x] = IF x = p THEN s ELSE m.busy[x]
    BY <1>1, MemFields
  <1>3. PICK u : u = [m EXCEPT !.busy[p] = s]
    OBVIOUS
  <1>4. u = [m EXCEPT !.busy = g]
    BY <1>1, <1>3
  <1>5. /\ u \in Mems /\ u.next = m.next /\ u.prev = m.prev /\ u.type = m.type /\ u.slab = m.slab
        /\ u.busy = g
    BY <1>2, <1>4 DEF Mems
  <1> QED
    BY <1>2, <1>3, <1>5

LEMMA UnlinkGives ==
  ASSUME NEW m \in Mems, NEW p \in PageNos, m.prev[p] \in Nodes, m.next[p] \in Nodes
  PROVE  LET u == Unlink(m, p)
         IN /\ u \in Mems /\ u.type = m.type /\ u.slab = m.slab /\ u.busy = m.busy
            /\ \A x \in Nodes : u.next[x] = IF x = m.prev[p] THEN m.next[p] ELSE m.next[x]
            /\ \A x \in Nodes : u.prev[x] = IF x = m.next[p] THEN m.prev[p] ELSE m.prev[x]
  <1>1. PICK nx : nx = [m.next EXCEPT ![m.prev[p]] = m.next[p]]
    OBVIOUS
  <1>2. PICK pv : pv = [m.prev EXCEPT ![m.next[p]] = m.prev[p]]
    OBVIOUS
  <1>3. /\ nx \in [Nodes -> Nodes \cup {NULL}] /\ pv \in [Nodes -> Nodes \cup {NULL}]
        /\ \A x \in Nodes : nx[x] = IF x = m.prev[p] THEN m.next[p] ELSE m.next[x]
        /\ \A x \in Nodes : pv[x] = IF x = m.next[p] THEN m.prev[p] ELSE m.prev[x]
    BY <1>1, <1>2, MemFields
  <1>4. Unlink(m, p) = [m EXCEPT !.next = nx, !.prev = pv]
    BY <1>1, <1>2, MemFields DEF Unlink, Mems
  <1>5. PICK u : u = [m EXCEPT !.next = nx, !.prev = pv]
    OBVIOUS
  <1>6. u \in Mems /\ u.next = nx /\ u.prev = pv /\ u.type = m.type /\ u.slab = m.slab /\ u.busy = m.busy
    BY <1>3, <1>5 DEF Mems
  <1> QED
    BY <1>3, <1>4, <1>5, <1>6

LEMMA PlainGives ==
  ASSUME NEW m \in Mems, NEW p \in PageNos, NEW s \in Fields
  PROVE  LET u == Plain(m, p, s)
         IN /\ u \in Mems
            /\ \A x \in Nodes : u.next[x] = IF x = p THEN NULL ELSE m.next[x]
            /\ \A x \in Nodes : u.prev[x] = IF x = p THEN NULL ELSE m.prev[x]
            /\ \A x \in PageNos : /\ u.type[x] = IF x = p THEN "page" ELSE m.type[x]
                                  /\ u.slab[x] = IF x = p THEN s ELSE m.slab[x]
                                  /\ u.busy[x] = IF x = p THEN {} ELSE m.busy[x]
  <1>0. p \in Nodes /\ NULL \in Nodes \cup {NULL} /\ "page" \in Types /\ {} \in Bits
    BY NodeFacts DEF Types, Bits
  <1>1. PICK a : a = [m EXCEPT !.slab[p] = s]
    OBVIOUS
  <1>2. /\ a \in Mems /\ a.next = m.next /\ a.prev = m.prev /\ a.type = m.type /\ a.busy = m.busy
        /\ \A x \in PageNos : a.slab[x] = IF x = p THEN s ELSE m.slab[x]
    BY <1>1, SlabGives
  <1>3. PICK b : b = [a EXCEPT !.next[p] = NULL]
    OBVIOUS
  <1>4. /\ b \in Mems /\ b.prev = a.prev /\ b.type = a.type /\ b.slab = a.slab /\ b.busy = a.busy
        /\ \A x \in Nodes : b.next[x] = IF x = p THEN NULL ELSE a.next[x]
    BY <1>0, <1>2, <1>3, NextGives
  <1>5. PICK c : c = [b EXCEPT !.prev[p] = NULL]
    OBVIOUS
  <1>6. /\ c \in Mems /\ c.next = b.next /\ c.type = b.type /\ c.slab = b.slab /\ c.busy = b.busy
        /\ \A x \in Nodes : c.prev[x] = IF x = p THEN NULL ELSE b.prev[x]
    BY <1>0, <1>4, <1>5, PrevGives
  <1>7. PICK d : d = [c EXCEPT !.type[p] = "page"]
    OBVIOUS
  <1>8. /\ d \in Mems /\ d.next = c.next /\ d.prev = c.prev /\ d.slab = c.slab /\ d.busy = c.busy
        /\ \A x \in PageNos : d.type[x] = IF x = p THEN "page" ELSE c.type[x]
    BY <1>0, <1>6, <1>7, TypeGives
  <1>9. PICK e : e = [d EXCEPT !.busy[p] = {}]
    OBVIOUS
  <1>10. /\ e \in Mems /\ e.next = d.next /\ e.prev = d.prev /\ e.type = d.type /\ e.slab = d.slab
         /\ \A x \in PageNos : e.busy[x] = IF x = p THEN {} ELSE d.busy[x]
    BY <1>0, <1>8, <1>9, BusyGives
  <1>11. e = Plain(m, p, s)
    BY <1>1, <1>3, <1>5, <1>7, <1>9 DEF Plain
  <1> QED
    BY <1>2, <1>4, <1>6, <1>8, <1>10, <1>11

LEMMA PlainAllGives ==
  ASSUME NEW m \in Mems, NEW ps, NEW s \in Fields
  PROVE  LET u == PlainAll(m, ps, s)
         IN /\ u \in Mems
            /\ \A x \in Nodes : u.next[x] = IF x \in ps THEN NULL ELSE m.next[x]
            /\ \A x \in Nodes : u.prev[x] = IF x \in ps THEN NULL ELSE m.prev[x]
            /\ \A x \in PageNos : /\ u.type[x] = IF x \in ps THEN "page" ELSE m.type[x]
                                  /\ u.slab[x] = IF x \in ps THEN s ELSE m.slab[x]
                                  /\ u.busy[x] = IF x \in ps THEN {} ELSE m.busy[x]
  <1>1. DOMAIN m.next = Nodes /\ DOMAIN m.prev = Nodes
    BY MemFields
  <1>2. PICK nx, pv, ty, sl, bs : /\ nx = [x \in Nodes |-> IF x \in ps THEN NULL ELSE m.next[x]]
                                  /\ pv = [x \in Nodes |-> IF x \in ps THEN NULL ELSE m.prev[x]]
                                  /\ ty = [x \in PageNos |-> IF x \in ps THEN "page" ELSE m.type[x]]
                                  /\ sl = [x \in PageNos |-> IF x \in ps THEN s ELSE m.slab[x]]
                                  /\ bs = [x \in PageNos |-> IF x \in ps THEN {} ELSE m.busy[x]]
    OBVIOUS
  <1>3. PlainAll(m, ps, s) = [next |-> nx, prev |-> pv, type |-> ty, slab |-> sl, busy |-> bs]
    BY <1>1, <1>2 DEF PlainAll
  <1>4. /\ nx \in [Nodes -> Nodes \cup {NULL}] /\ pv \in [Nodes -> Nodes \cup {NULL}]
        /\ ty \in [PageNos -> Types] /\ sl \in [PageNos -> Fields] /\ bs \in [PageNos -> Bits]
    BY <1>2, MemFields DEF Types, Bits
  <1>5. PICK u : u = [next |-> nx, prev |-> pv, type |-> ty, slab |-> sl, busy |-> bs]
    OBVIOUS
  <1>6. u \in Mems /\ u.next = nx /\ u.prev = pv /\ u.type = ty /\ u.slab = sl /\ u.busy = bs
    BY <1>4, <1>5 DEF Mems
  <1> QED
    BY <1>2, <1>3, <1>5, <1>6

LEMMA SplitGives ==
  ASSUME NEW m \in Mems, NEW p \in PageNos, NEW n \in Nat, NEW k \in Nat, m.slab[p].n = k,
         NEW q \in PageNos, q = p + n, NEW l \in PageNos, l = p + k - 1, k - n \in 0 .. Pages,
         m.prev[p] \in Nodes, m.next[p] \in Nodes, m.prev[p] # q, m.next[p] # q
  PROVE  LET u == Split(m, p, n)
         IN /\ u \in Mems /\ u.type = m.type /\ u.busy = m.busy
            /\ \A x \in PageNos : u.slab[x] = IF x = q THEN Run(k - n) ELSE m.slab[x]
            /\ \A x \in Nodes : u.next[x] = IF x = m.prev[p] THEN q ELSE IF x = q THEN m.next[p] ELSE m.next[x]
            /\ \A x \in Nodes : u.prev[x] = IF x = m.next[p] THEN q ELSE IF x = q THEN m.prev[p]
                                            ELSE IF x = l THEN q ELSE m.prev[x]
  <1>1. q \in Nodes /\ l \in Nodes /\ Run(k - n) \in Fields
    BY NodeFacts, FieldFacts
  <1>2. PICK nx : nx = [[m.next EXCEPT ![q] = m.next[p]] EXCEPT ![m.prev[p]] = q]
    OBVIOUS
  <1>3. PICK pv : pv = [[[m.prev EXCEPT ![l] = q] EXCEPT ![q] = m.prev[p]] EXCEPT ![m.next[p]] = q]
    OBVIOUS
  <1>4. PICK sl : sl = [m.slab EXCEPT ![q] = Run(k - n)]
    OBVIOUS
  <1>5. /\ nx \in [Nodes -> Nodes \cup {NULL}]
        /\ \A x \in Nodes : nx[x] = IF x = m.prev[p] THEN q ELSE IF x = q THEN m.next[p] ELSE m.next[x]
    BY <1>1, <1>2, MemFields
  <1>6. /\ pv \in [Nodes -> Nodes \cup {NULL}]
        /\ \A x \in Nodes : pv[x] = IF x = m.next[p] THEN q ELSE IF x = q THEN m.prev[p]
                                    ELSE IF x = l THEN q ELSE m.prev[x]
    BY <1>1, <1>3, MemFields
  <1>7. sl \in [PageNos -> Fields] /\ \A x \in PageNos : sl[x] = IF x = q THEN Run(k - n) ELSE m.slab[x]
    BY <1>1, <1>4, MemFields
  <1>8. Split(m, p, n) = [m EXCEPT !.next = nx, !.prev = pv, !.slab = sl]
    BY <1>2, <1>3, <1>4, MemFields DEF Split, Mems
  <1>9. PICK u : u = [m EXCEPT !.next = nx, !.prev = pv, !.slab = sl]
    OBVIOUS
  <1>10. u \in Mems /\ u.next = nx /\ u.prev = pv /\ u.type = m.type /\ u.slab = sl /\ u.busy = m.busy
    BY <1>5, <1>6, <1>7, <1>9 DEF Mems
  <1> QED
    BY <1>5, <1>6, <1>7, <1>8, <1>9, <1>10

LEMMA PushGives ==
  ASSUME NEW m \in Mems, NEW p \in PageNos, NEW n \in Nat, m.slab[p].n = n, n > 1 => p + n - 1 \in PageNos,
         m.next[FreeList] \in Nodes
  PROVE  LET u == Push(m, p)
         IN /\ u \in Mems /\ u.slab = m.slab
            /\ \A x \in Nodes : u.next[x] = IF x = FreeList THEN p ELSE IF x = p THEN m.next[FreeList] ELSE m.next[x]
            /\ \A x \in Nodes : u.prev[x] = IF x = m.next[FreeList] THEN p ELSE IF x = p THEN FreeList
                                            ELSE IF n > 1 /\ x = p + n - 1 THEN p ELSE m.prev[x]
            /\ \A x \in PageNos : /\ u.type[x] = IF x = p THEN "page" ELSE m.type[x]
                                  /\ u.busy[x] = IF x = p THEN {} ELSE m.busy[x]
  <1>0. p \in Nodes /\ FreeList \in Nodes /\ p # FreeList /\ "page" \in Types /\ {} \in Bits
    BY NodeFacts DEF Types, Bits
  <1>1. PICK t : t = IF n > 1 THEN [m EXCEPT !.prev[p + n - 1] = p] ELSE m
    OBVIOUS
  <1>2. /\ t \in Mems /\ t.next = m.next /\ t.type = m.type /\ t.slab = m.slab /\ t.busy = m.busy
        /\ \A x \in Nodes : t.prev[x] = IF n > 1 /\ x = p + n - 1 THEN p ELSE m.prev[x]
    <2>1. CASE n > 1
      <3>1. PICK l \in Nodes : l = p + n - 1
        BY <2>1, NodeFacts
      <3>2. t = [m EXCEPT !.prev[l] = p] /\ p \in Nodes \cup {NULL}
        BY <1>0, <1>1, <2>1, <3>1
      <3>3. /\ t \in Mems /\ t.next = m.next /\ t.type = m.type /\ t.slab = m.slab /\ t.busy = m.busy
            /\ \A x \in Nodes : t.prev[x] = IF x = l THEN p ELSE m.prev[x]
        BY <3>2, PrevGives
      <3> QED
        BY <2>1, <3>1, <3>3
    <2>2. CASE ~(n > 1)
      BY <1>1, <2>2
    <2> QED
      BY <2>1, <2>2
  <1>3. PICK b : b = [t EXCEPT !.prev[p] = FreeList]
    OBVIOUS
  <1>4. /\ b \in Mems /\ b.next = t.next /\ b.type = t.type /\ b.slab = t.slab /\ b.busy = t.busy
        /\ \A x \in Nodes : b.prev[x] = IF x = p THEN FreeList ELSE t.prev[x]
    BY <1>0, <1>2, <1>3, PrevGives
  <1>5. PICK c : c = [b EXCEPT !.type[p] = "page"]
    OBVIOUS
  <1>6. /\ c \in Mems /\ c.next = b.next /\ c.prev = b.prev /\ c.slab = b.slab /\ c.busy = b.busy
        /\ \A x \in PageNos : c.type[x] = IF x = p THEN "page" ELSE b.type[x]
    BY <1>0, <1>4, <1>5, TypeGives
  <1>7. PICK d : d = [c EXCEPT !.busy[p] = {}]
    OBVIOUS
  <1>8. /\ d \in Mems /\ d.next = c.next /\ d.prev = c.prev /\ d.type = c.type /\ d.slab = c.slab
        /\ \A x \in PageNos : d.busy[x] = IF x = p THEN {} ELSE c.busy[x]
    <2>1. {} \in Bits /\ c \in Mems
      BY <1>0, <1>6
    <2>2. LET u == [c EXCEPT !.busy[p] = {}]
          IN /\ u \in Mems /\ u.next = c.next /\ u.prev = c.prev /\ u.type = c.type /\ u.slab = c.slab
             /\ \A x \in PageNos : u.busy[x] = IF x = p THEN {} ELSE c.busy[x]
      BY <2>1, BusyGives
    <2> QED
      BY <1>7, <2>2
  <1>9. PICK f : f = m.next[FreeList]
    OBVIOUS
  <1>10. PICK e : e = [d EXCEPT !.next[p] = f]
    OBVIOUS
  <1>11. /\ e \in Mems /\ e.prev = d.prev /\ e.type = d.type /\ e.slab = d.slab /\ e.busy = d.busy
         /\ \A x \in Nodes : e.next[x] = IF x = p THEN f ELSE d.next[x]
    BY <1>0, <1>8, <1>9, <1>10, NextGives
  <1>12. PICK g : g = [e EXCEPT !.prev[f] = p]
    OBVIOUS
  <1>13. /\ g \in Mems /\ g.next = e.next /\ g.type = e.type /\ g.slab = e.slab /\ g.busy = e.busy
         /\ \A x \in Nodes : g.prev[x] = IF x = f THEN p ELSE e.prev[x]
    <2>1. f \in Nodes /\ p \in Nodes \cup {NULL}
      BY <1>0, <1>9
    <2> QED
      BY <1>11, <1>12, <2>1, PrevGives
  <1>14. PICK h : h = [g EXCEPT !.next[FreeList] = p]
    OBVIOUS
  <1>15. /\ h \in Mems /\ h.prev = g.prev /\ h.type = g.type /\ h.slab = g.slab /\ h.busy = g.busy
         /\ \A x \in Nodes : h.next[x] = IF x = FreeList THEN p ELSE g.next[x]
    <2>1. p \in Nodes \cup {NULL}
      BY <1>0
    <2> QED
      BY <1>0, <1>13, <1>14, <2>1, NextGives
  <1>16. h = Push(m, p)
    BY <1>1, <1>3, <1>5, <1>7, <1>9, <1>10, <1>12, <1>14 DEF Push
  <1>17. /\ h \in Mems /\ h.slab = m.slab
         /\ \A x \in PageNos : /\ h.type[x] = IF x = p THEN "page" ELSE m.type[x]
                               /\ h.busy[x] = IF x = p THEN {} ELSE m.busy[x]
    BY <1>2, <1>4, <1>6, <1>8, <1>11, <1>13, <1>15
  <1>18. \A x \in Nodes : h.next[x] = IF x = FreeList THEN p ELSE IF x = p THEN f ELSE m.next[x]
    BY <1>2, <1>4, <1>6, <1>8, <1>11, <1>13, <1>15
  <1>19. \A x \in Nodes : h.prev[x] = IF x = f THEN p ELSE IF x = p THEN FreeList
                                     ELSE IF n > 1 /\ x = p + n - 1 THEN p ELSE m.prev[x]
    <2> TAKE x \in Nodes
    <2>1. h.prev[x] = IF x = f THEN p ELSE e.prev[x]
      BY <1>13, <1>15
    <2>2. e.prev[x] = IF x = p THEN FreeList ELSE t.prev[x]
      BY <1>4, <1>6, <1>8, <1>11
    <2>3. t.prev[x] = IF n > 1 /\ x = p + n - 1 THEN p ELSE m.prev[x]
      BY <1>2
    <2> QED
      BY <2>1, <2>2, <2>3
  <1> QED
    BY <1>9, <1>16, <1>17, <1>18, <1>19

-----------------------------------------------------------------------------
(* What a call does not touch. *)

Reach(p, n) == p .. p + n - 1

(* The nodes of a list and its head can get other neighbours. *)
SameBut(u, m, N, W) ==
  /\ \A y \in PageNos \ W : u.slab[y] = m.slab[y] /\ u.type[y] = m.type[y] /\ u.busy[y] = m.busy[y]
  /\ \A y \in Nodes \ (N \cup W) : u.next[y] = m.next[y] /\ u.prev[y] = m.prev[y]

LEMMA ReachFacts ==
  ASSUME NEW Ld, NEW len, Tiling(Ld, len), NEW p \in Ld
  PROVE  /\ Reach(p, len[p]) = {p} \cup Inner(p, len[p]) /\ p \notin Inner(p, len[p])
         /\ Reach(p, len[p]) \subseteq PageNos
         /\ \A y \in Inner(p, len[p]) : y \notin Ld
         /\ \A q \in Ld : q # p => Reach(q, len[q]) \cap Reach(p, len[p]) = {}
  <1>1. /\ p \in Nat /\ len[p] \in Nat /\ len[p] >= 1 /\ p + len[p] <= Pages
    BY TileTypes
  <1>2. Reach(p, len[p]) = {p} \cup Inner(p, len[p]) /\ p \notin Inner(p, len[p])
    BY <1>1 DEF Reach, Inner
  <1>3. Reach(p, len[p]) \subseteq PageNos
    BY <1>1, SlabAssumption DEF Reach, PageNos
  <1>4. \A y \in Inner(p, len[p]) : y \notin Ld
    BY DEF Tiling
  <1>5. ASSUME NEW q \in Ld, q # p
        PROVE  Reach(q, len[q]) \cap Reach(p, len[p]) = {}
    <2>1. p + len[p] <= q \/ q + len[q] <= p
      BY <1>5, TileApart
    <2>2. q \in Nat /\ len[q] \in Nat
      BY TileTypes
    <2> QED
      BY <1>1, <2>1, <2>2 DEF Reach
  <1> QED
    BY <1>2, <1>3, <1>4, <1>5

(* A run outside W keeps what it is. *)
LEMMA RunKept ==
  ASSUME NEW Ld, NEW len, Tiling(Ld, len), NEW p \in Ld, NEW m, NEW u, NEW N, NEW W,
         SameBut(u, m, N, W), Reach(p, len[p]) \cap W = {}, N \cap PageNos \subseteq Ld
  PROVE  /\ OpenRun(m, p, len[p]) => OpenRun(u, p, len[p])
         /\ LooseRun(m, p, len[p]) => LooseRun(u, p, len[p])
         /\ p \notin N /\ TakenRun(m, p, len[p]) => TakenRun(u, p, len[p])
  <1>1. /\ Reach(p, len[p]) = {p} \cup Inner(p, len[p]) /\ Reach(p, len[p]) \subseteq PageNos
        /\ \A y \in Inner(p, len[p]) : y \notin Ld
    BY ReachFacts
  <1>2. /\ p \in PageNos \ W /\ u.slab[p] = m.slab[p] /\ u.type[p] = m.type[p]
        /\ p \notin N => u.next[p] = m.next[p]
    BY <1>1, NodeFacts DEF SameBut
  <1>3. ASSUME NEW y \in Inner(p, len[p])
        PROVE  /\ u.slab[y] = m.slab[y] /\ u.type[y] = m.type[y]
               /\ u.next[y] = m.next[y] /\ u.prev[y] = m.prev[y]
    <2>1. y \in PageNos \ W /\ y \notin N /\ y \in Nodes
      BY <1>1, NodeFacts
    <2> QED
      BY <2>1 DEF SameBut
  <1>4. \A s : \A y \in Inner(p, len[p]) : Blank(m, y, s) => Blank(u, y, s)
    BY <1>3 DEF Blank
  <1>5. len[p] > 1 => p + len[p] - 1 \in Inner(p, len[p])
    BY TileTypes DEF Inner
  <1>6. LooseRun(m, p, len[p]) => LooseRun(u, p, len[p])
    BY <1>2, <1>4 DEF LooseRun
  <1>7. OpenRun(m, p, len[p]) => OpenRun(u, p, len[p])
    BY <1>2, <1>3, <1>5, <1>6 DEF OpenRun
  <1>8. p \notin N /\ TakenRun(m, p, len[p]) => TakenRun(u, p, len[p])
    BY <1>2, <1>4 DEF TakenRun, Blank
  <1> QED
    BY <1>6, <1>7, <1>8

LEMMA CutKept ==
  ASSUME NEW m, NEW u, NEW N, NEW W, SameBut(u, m, N, W), NEW p \in PageNos, p \notin W,
         NEW size, CutPage(m, p, size), p \in N => m.busy[p] # Whole(size)
  PROVE  CutPage(u, p, size)
  <1>1. u.slab[p] = m.slab[p] /\ u.type[p] = m.type[p] /\ u.busy[p] = m.busy[p]
    BY DEF SameBut
  <1>2. p \notin N => u.next[p] = m.next[p]
    BY NodeFacts DEF SameBut
  <1> QED
    BY <1>1, <1>2 DEF CutPage

(* A list that has nothing of N and W is as it was. *)
LEMMA RowKept ==
  ASSUME NEW m, NEW u, NEW N, NEW W, SameBut(u, m, N, W), NEW h \in Nodes, NEW L, L \subseteq PageNos,
         L \cap (N \cup W) = {}, h \notin N \cup W, IsList(m.next, m.prev, h, L)
  PROVE  IsList(u.next, u.prev, h, L)
  <1>1. \A x \in L \cup {h} : u.next[x] = m.next[x] /\ u.prev[x] = m.prev[x]
    BY NodeFacts DEF SameBut
  <1> QED
    BY <1>1, ListFrame

LEMMA RoomKept ==
  ASSUME NEW m, NEW u, NEW N, NEW W, SameBut(u, m, N, W), NEW C, C \subseteq PageNos, C \cap W = {}
  PROVE  \A size : Room(u, C, size) = Room(m, C, size)
  BY DEF SameBut, Room

(* What a layout tells of lists and leaders. *)
LEMMA LaidFacts ==
  ASSUME NEW m, NEW F, NEW T, NEW C, NEW z, NEW len, Laid(m, F, T, C, z, len)
  PROVE  /\ m \in Mems /\ Tiling(LeadersOf(F, T, C, z), len)
         /\ F \subseteq PageNos /\ T \subseteq PageNos /\ C \subseteq PageNos
         /\ F \cap T = {} /\ F \cap C = {} /\ T \cap C = {} /\ z \notin F \cup T \cup C
         /\ FreeList \notin F /\ IsList(m.next, m.prev, FreeList, F)
         /\ \A p \in F : /\ m.next[p] \in F \cup {FreeList} /\ m.prev[p] \in F \cup {FreeList}
                         /\ m.next[p] # p /\ m.prev[p] # p /\ m.next[p] # NULL
                         /\ m.next[p] \in Nodes /\ m.prev[p] \in Nodes
         /\ m.next[FreeList] \in F \cup {FreeList} /\ m.next[FreeList] \in Nodes
         /\ \A size \in Sizes : /\ Room(m, C, size) \subseteq C /\ Slot(size) \notin Room(m, C, size)
                                /\ IsList(m.next, m.prev, Slot(size), Room(m, C, size))
         /\ \A p \in F \cup T \cup C \cup LooseOf(z) : len[p] \in Nat /\ len[p] >= 1 /\ p + len[p] <= Pages
  <1>1. /\ m \in Mems /\ Tiling(LeadersOf(F, T, C, z), len)
        /\ F \subseteq PageNos /\ T \subseteq PageNos /\ C \subseteq PageNos
        /\ F \cap T = {} /\ F \cap C = {} /\ T \cap C = {} /\ z \notin F \cup T \cup C
    BY DEF Laid, Placed
  <1>2. FreeList \notin F /\ IsList(m.next, m.prev, FreeList, F)
    BY <1>1, NodeFacts DEF Laid, RowsOK
  <1>3. ASSUME NEW p \in F
        PROVE  /\ m.next[p] \in F \cup {FreeList} /\ m.prev[p] \in F \cup {FreeList}
               /\ m.next[p] # p /\ m.prev[p] # p /\ m.next[p] # NULL
               /\ m.next[p] \in Nodes /\ m.prev[p] \in Nodes
    <2>1. /\ m.next[p] \in F \cup {FreeList} /\ m.prev[p] \in F \cup {FreeList}
          /\ m.next[p] # p /\ m.prev[p] # p
      BY <1>2, ListSteps
    <2> QED
      BY <1>1, <2>1, NodeFacts
  <1>4. m.next[FreeList] \in F \cup {FreeList} /\ m.next[FreeList] \in Nodes
    <2>1. m.next[FreeList] \in F \cup {FreeList}
      BY <1>2, ListFirst
    <2> QED
      BY <1>1, <2>1, NodeFacts
  <1>5. ASSUME NEW size \in Sizes
        PROVE  /\ Room(m, C, size) \subseteq C /\ Slot(size) \notin Room(m, C, size)
               /\ IsList(m.next, m.prev, Slot(size), Room(m, C, size))
    <2>1. Room(m, C, size) \subseteq C
      BY DEF Room
    <2>2. IsList(m.next, m.prev, Slot(size), Room(m, C, size))
      BY DEF Laid, RowsOK
    <2> QED
      BY <1>1, <2>1, <2>2, NodeFacts
  <1>6. ASSUME NEW p \in F \cup T \cup C \cup LooseOf(z)
        PROVE  len[p] \in Nat /\ len[p] >= 1 /\ p + len[p] <= Pages
    <2>1. p \in LeadersOf(F, T, C, z)
      BY DEF LeadersOf
    <2> QED
      BY <1>1, <2>1, TileTypes
  <1> QED
    BY <1>1, <1>2, <1>3, <1>4, <1>5, <1>6

(* The tiles that a step does not reach. *)
LEMMA Elsewhere ==
  ASSUME NEW m, NEW F, NEW T, NEW C, NEW z, NEW len, Laid(m, F, T, C, z, len),
         NEW u, NEW N, NEW W, NEW B, SameBut(u, m, N, W),
         \A r \in LeadersOf(F, T, C, z) \ B : Reach(r, len[r]) \cap W = {},
         N \cap PageNos \subseteq F \cup C, \A r \in C \cap N : m.busy[r] # Whole(m.slab[r].n)
  PROVE  /\ \A r \in F \ B : OpenRun(u, r, len[r])
         /\ \A r \in T \ B : TakenRun(u, r, len[r])
         /\ \A r \in LooseOf(z) \ B : LooseRun(u, r, len[r])
         /\ \A r \in C \ B : /\ len[r] = 1 /\ CutPage(u, r, u.slab[r].n)
                             /\ u.slab[r] = m.slab[r] /\ u.busy[r] = m.busy[r]
  <1> DEFINE Ld == LeadersOf(F, T, C, z)
  <1>1. /\ Tiling(Ld, len) /\ F \subseteq PageNos /\ T \subseteq PageNos /\ C \subseteq PageNos
        /\ F \cap T = {} /\ T \cap C = {} /\ F \cap C = {}
    BY LaidFacts
  <1>2. F \subseteq Ld /\ T \subseteq Ld /\ C \subseteq Ld /\ LooseOf(z) \subseteq Ld
    BY DEF LeadersOf
  <1>3. N \cap PageNos \subseteq Ld /\ T \cap N = {}
    BY <1>1, <1>2
  <1>4. RunsOK(m, F, T, z, len) /\ CutOK(m, C, len)
    BY DEF Laid
  <1>5. \A r \in Ld \ B : Reach(r, len[r]) \cap W = {}
    OBVIOUS
  <1> HIDE DEF Ld
  <1>6. ASSUME NEW r \in F \ B
        PROVE  OpenRun(u, r, len[r])
    <2>1. r \in Ld /\ Reach(r, len[r]) \cap W = {} /\ OpenRun(m, r, len[r])
      BY <1>2, <1>4, <1>5 DEF RunsOK
    <2> QED
      BY <1>1, <1>3, <2>1, RunKept
  <1>7. ASSUME NEW r \in T \ B
        PROVE  TakenRun(u, r, len[r])
    <2>1. r \in Ld /\ Reach(r, len[r]) \cap W = {} /\ TakenRun(m, r, len[r]) /\ r \notin N
      BY <1>2, <1>3, <1>4, <1>5 DEF RunsOK
    <2> QED
      BY <1>1, <1>3, <2>1, RunKept
  <1>8. ASSUME NEW r \in LooseOf(z) \ B
        PROVE  LooseRun(u, r, len[r])
    <2>1. r \in Ld /\ Reach(r, len[r]) \cap W = {} /\ LooseRun(m, r, len[r])
      BY <1>2, <1>4, <1>5 DEF RunsOK
    <2> QED
      BY <1>1, <1>3, <2>1, RunKept
  <1>9. ASSUME NEW r \in C \ B
        PROVE  /\ len[r] = 1 /\ CutPage(u, r, u.slab[r].n)
               /\ u.slab[r] = m.slab[r] /\ u.busy[r] = m.busy[r]
    <2>1. /\ r \in Ld /\ r \in PageNos /\ Reach(r, len[r]) \cap W = {}
          /\ len[r] = 1 /\ CutPage(m, r, m.slab[r].n) /\ (r \in N => m.busy[r] # Whole(m.slab[r].n))
      BY <1>1, <1>2, <1>4, <1>5 DEF CutOK
    <2>2. r \in Reach(r, len[r])
      BY <1>1, <2>1, ReachFacts
    <2>3. r \notin W
      BY <2>1, <2>2
    <2>4. u.slab[r] = m.slab[r] /\ u.busy[r] = m.busy[r]
      BY <2>1, <2>3 DEF SameBut
    <2>5. CutPage(u, r, m.slab[r].n)
      BY <2>1, <2>3, CutKept
    <2> QED
      BY <2>1, <2>4, <2>5
  <1> QED
    BY <1>6, <1>7, <1>8, <1>9

(* A step among the free runs leaves the pages of chunks and their lists. *)
LEMMA RowsElsewhere ==
  ASSUME NEW m, NEW F, NEW T, NEW C, NEW z, NEW len, Laid(m, F, T, C, z, len),
         NEW u, NEW N, NEW W, SameBut(u, m, N, W), W \subseteq PageNos, C \cap W = {}, N \subseteq F \cup {FreeList}
  PROVE  /\ \A size \in Sizes : IsList(u.next, u.prev, Slot(size), Room(u, C, size))
         /\ \A size : Room(u, C, size) = Room(m, C, size)
  <1>1. C \subseteq PageNos /\ F \subseteq PageNos /\ F \cap C = {}
    BY LaidFacts
  <1>2. \A size : Room(u, C, size) = Room(m, C, size)
    BY <1>1, RoomKept
  <1>3. ASSUME NEW size \in Sizes
        PROVE  IsList(u.next, u.prev, Slot(size), Room(m, C, size))
    <2>1. Room(m, C, size) \subseteq C /\ IsList(m.next, m.prev, Slot(size), Room(m, C, size))
      BY LaidFacts
    <2>2. /\ Slot(size) \in Nodes /\ Slot(size) \notin PageNos /\ Slot(size) # FreeList /\ FreeList \notin PageNos
      BY NodeFacts
    <2>3. /\ Room(m, C, size) \subseteq PageNos /\ Room(m, C, size) \cap (N \cup W) = {}
          /\ Slot(size) \notin N \cup W
      BY <1>1, <2>1, <2>2
    <2> QED
      BY <2>1, <2>2, <2>3, RowKept
  <1> QED
    BY <1>2, <1>3

(* n pages from p become a run that is handed out. *)
LEMMA StartGives ==
  ASSUME NEW m \in Mems, NEW p \in PageNos, NEW n \in 0 .. Pages, n >= 1, NEW V, V = Reach(p, n),
         NEW u, u = PlainAll(Plain(m, p, Start(n)), p + 1 .. p + n - 1, RunTail)
  PROVE  /\ u \in Mems
         /\ \A x \in Nodes : u.next[x] = IF x \in V THEN NULL ELSE m.next[x]
         /\ \A x \in Nodes : u.prev[x] = IF x \in V THEN NULL ELSE m.prev[x]
         /\ \A x \in PageNos : /\ u.type[x] = IF x \in V THEN "page" ELSE m.type[x]
                               /\ u.slab[x] = IF x = p THEN Start(n)
                                              ELSE IF x \in Inner(p, n) THEN RunTail ELSE m.slab[x]
                               /\ u.busy[x] = IF x \in V THEN {} ELSE m.busy[x]
  <1>1. Start(n) \in Fields /\ RunTail \in Fields
    BY FieldFacts
  <1>2. PICK a : a = Plain(m, p, Start(n))
    OBVIOUS
  <1>3. /\ a \in Mems
        /\ \A x \in Nodes : a.next[x] = IF x = p THEN NULL ELSE m.next[x]
        /\ \A x \in Nodes : a.prev[x] = IF x = p THEN NULL ELSE m.prev[x]
        /\ \A x \in PageNos : /\ a.type[x] = IF x = p THEN "page" ELSE m.type[x]
                              /\ a.slab[x] = IF x = p THEN Start(n) ELSE m.slab[x]
                              /\ a.busy[x] = IF x = p THEN {} ELSE m.busy[x]
    BY <1>1, <1>2, PlainGives
  <1>4. PICK ps : ps = Inner(p, n)
    OBVIOUS
  <1>5. PICK b : b = PlainAll(a, ps, RunTail)
    OBVIOUS
  <1>6. /\ b \in Mems
        /\ \A x \in Nodes : b.next[x] = IF x \in ps THEN NULL ELSE a.next[x]
        /\ \A x \in Nodes : b.prev[x] = IF x \in ps THEN NULL ELSE a.prev[x]
        /\ \A x \in PageNos : /\ b.type[x] = IF x \in ps THEN "page" ELSE a.type[x]
                              /\ b.slab[x] = IF x \in ps THEN RunTail ELSE a.slab[x]
                              /\ b.busy[x] = IF x \in ps THEN {} ELSE a.busy[x]
    BY <1>1, <1>3, <1>5, PlainAllGives
  <1>8. V = {p} \cup ps /\ p \notin ps
    BY <1>4, NodeFacts DEF Inner, Reach
  <1>9. /\ \A x \in Nodes : b.next[x] = IF x \in V THEN NULL ELSE m.next[x]
        /\ \A x \in Nodes : b.prev[x] = IF x \in V THEN NULL ELSE m.prev[x]
        /\ \A x \in PageNos : /\ b.type[x] = IF x \in V THEN "page" ELSE m.type[x]
                              /\ b.slab[x] = IF x = p THEN Start(n) ELSE IF x \in ps THEN RunTail ELSE m.slab[x]
                              /\ b.busy[x] = IF x \in V THEN {} ELSE m.busy[x]
    BY <1>3, <1>6, <1>8
  <1>10. b = u
    BY <1>2, <1>4, <1>5 DEF Inner
  <1> QED
    BY <1>4, <1>6, <1>9, <1>10

-----------------------------------------------------------------------------
(* ngx_slab_alloc_pages. *)

(* The first n pages of a free run are handed out, as t leaves them. *)
TakenFrom(m, t, F, T, C, len, p, n) ==
  \E G \in SUBSET PageNos, ln \in [PageNos -> Nat] :
    /\ Laid(t, G, T \cup {p}, C, NULL, ln) /\ ln[p] = n /\ \A r \in T \cup C : ln[r] = len[r]
    /\ OpenPages(G, ln) = OpenPages(F, len) \ Reach(p, n)
    /\ \A r \in C : t.slab[r] = m.slab[r] /\ t.busy[r] = m.busy[r]

(* The pages of the leaders are those of no other. *)
LEMMA OpenFacts ==
  ASSUME NEW Ld, NEW len, Tiling(Ld, len), NEW F, F \subseteq Ld
  PROVE  /\ OpenPages(F, len) = UNION {Reach(p, len[p]) : p \in F}
         /\ OpenPages(F, len) \subseteq PageNos
         /\ \A r \in Ld \ F : Reach(r, len[r]) \cap OpenPages(F, len) = {}
  <1>1. ASSUME NEW p \in F
        PROVE  \A q \in PageNos : q \in Reach(p, len[p]) <=> p <= q /\ q < p + len[p]
    BY TileTypes, NodeFacts DEF Reach
  <1>2. \A p \in F : Reach(p, len[p]) \subseteq PageNos
    BY ReachFacts
  <1>3. OpenPages(F, len) = UNION {Reach(p, len[p]) : p \in F}
    BY <1>1, <1>2 DEF OpenPages
  <1>4. \A r \in Ld \ F : \A p \in F : Reach(r, len[r]) \cap Reach(p, len[p]) = {}
    BY ReachFacts
  <1> QED
    BY <1>2, <1>3, <1>4

LEMMA PlacedIs ==
  ASSUME NEW F, NEW T, NEW C, NEW z, NEW len, F \subseteq PageNos, T \subseteq PageNos, C \subseteq PageNos,
         F \cap T = {}, F \cap C = {}, T \cap C = {}, z \notin F \cup T \cup C,
         NEW Ld, Ld = LeadersOf(F, T, C, z), Tiling(Ld, len), \A p, q \in F : p + len[p] # q
  PROVE  Placed(F, T, C, z, len)
  BY DEF Placed

LEMMA TakeSome ==
  ASSUME NEW m, NEW F, NEW T, NEW C, NEW len, Laid(m, F, T, C, NULL, len),
         NEW p \in F, NEW n \in Nat, 0 < n, n < len[p]
  PROVE  TakenFrom(m, TakeRun(m, p, n), F, T, C, len, p, n)
  <1> DEFINE Ld == LeadersOf(F, T, C, NULL)
  <1>1. /\ m \in Mems /\ Tiling(Ld, len)
        /\ F \subseteq PageNos /\ T \subseteq PageNos /\ C \subseteq PageNos
        /\ F \cap T = {} /\ F \cap C = {} /\ T \cap C = {}
        /\ FreeList \notin F /\ IsList(m.next, m.prev, FreeList, F)
        /\ m.next[p] \in F \cup {FreeList} /\ m.prev[p] \in F \cup {FreeList}
        /\ m.next[p] # p /\ m.prev[p] # p /\ m.next[p] \in Nodes /\ m.prev[p] \in Nodes
    BY LaidFacts
  <1>2. LooseOf(NULL) = {} /\ Ld = F \cup T \cup C
    BY NodeFacts DEF LeadersOf, LooseOf
  <1> HIDE DEF Ld
  <1>3. PICK k : k = len[p]
    OBVIOUS
  <1>4. p \in Nat /\ p \in PageNos /\ k \in Nat /\ p + k <= Pages /\ n < k /\ Pages \in Nat
    BY <1>1, <1>2, <1>3, TileTypes, SlabAssumption
  <1>5. PICK q : q = p + n
    OBVIOUS
  <1>6. PICK l : l = p + k - 1
    OBVIOUS
  <1>7. /\ q \in Nat /\ l \in Nat /\ q < Pages /\ l < Pages /\ q # p /\ l # p
        /\ k - n \in 0 .. Pages /\ k - n \in Nat /\ k - n >= 1 /\ n \in 0 .. Pages
    BY <1>4, <1>5, <1>6
  <1>8. q \in PageNos /\ l \in PageNos /\ q \in Nodes /\ l \in Nodes /\ p \in Nodes
    BY <1>4, <1>7, NodeFacts
  <1>9. q \in Inner(p, k) /\ l \in Inner(p, k)
    BY <1>4, <1>5, <1>6 DEF Inner
  <1>10. q \notin Ld /\ l \notin Ld
    BY <1>1, <1>2, <1>3, <1>9, ReachFacts
  <1>11. m.prev[p] # q /\ m.next[p] # q
    BY <1>1, <1>2, <1>8, <1>10, NodeFacts
  <1>12. OpenRun(m, p, k)
    BY <1>3 DEF Laid, RunsOK
  <1>13. m.slab[p] = Run(k) /\ m.slab[p].n = k
    BY <1>12 DEF OpenRun, LooseRun, Run
  <1>14. PICK r : r = Split(m, p, n)
    OBVIOUS
  <1>15. /\ r \in Mems /\ r.type = m.type /\ r.busy = m.busy
         /\ \A x \in PageNos : r.slab[x] = IF x = q THEN Run(k - n) ELSE m.slab[x]
         /\ \A x \in Nodes : r.next[x] = IF x = m.prev[p] THEN q ELSE IF x = q THEN m.next[p] ELSE m.next[x]
         /\ \A x \in Nodes : r.prev[x] = IF x = m.next[p] THEN q ELSE IF x = q THEN m.prev[p]
                                         ELSE IF x = l THEN q ELSE m.prev[x]
    BY <1>1, <1>4, <1>5, <1>6, <1>7, <1>8, <1>11, <1>13, <1>14, SplitGives
  <1>16. PICK t : t = TakeRun(m, p, n)
    OBVIOUS
  <1>17. t = PlainAll(Plain(r, p, Start(n)), p + 1 .. p + n - 1, RunTail)
    BY <1>4, <1>13, <1>14, <1>16 DEF TakeRun
  <1>18. PICK V : V = Reach(p, n)
    OBVIOUS
  <1>19. /\ t \in Mems
         /\ \A x \in Nodes : t.next[x] = IF x \in V THEN NULL ELSE r.next[x]
         /\ \A x \in Nodes : t.prev[x] = IF x \in V THEN NULL ELSE r.prev[x]
         /\ \A x \in PageNos : /\ t.type[x] = IF x \in V THEN "page" ELSE r.type[x]
                               /\ t.slab[x] = IF x = p THEN Start(n)
                                              ELSE IF x \in Inner(p, n) THEN RunTail ELSE r.slab[x]
                               /\ t.busy[x] = IF x \in V THEN {} ELSE r.busy[x]
    <2>1. n >= 1
      OBVIOUS
    <2> QED
      BY <1>4, <1>7, <1>15, <1>17, <1>18, <2>1, StartGives
  <1>20. PICK W : W = Reach(p, k)
    OBVIOUS
  <1>21. /\ V \subseteq W /\ V = {p} \cup Inner(p, n) /\ p \notin Inner(p, n) /\ Inner(p, n) \subseteq Inner(p, k)
         /\ q \notin V /\ l \in W /\ q \in W /\ W = {p} \cup Inner(p, k)
         /\ (\A x \in Inner(q, k - n) : x \in Inner(p, k) /\ x \notin V /\ x # q)
         /\ q + (k - n) - 1 = l
    BY <1>4, <1>5, <1>6, <1>18, <1>20 DEF Reach, Inner
  <1>22. W \subseteq PageNos /\ W \cap (Ld \ {p}) = {}
    <2>1. \A y \in Inner(p, k) : y \notin Ld
      BY <1>1, <1>2, <1>3, ReachFacts
    <2>2. W \subseteq PageNos
      BY <1>1, <1>2, <1>3, <1>20, ReachFacts
    <2> QED
      BY <1>21, <2>1, <2>2
  <1>23. PICK N : N = {m.prev[p], m.next[p]}
    OBVIOUS
  <1>24. N \subseteq F \cup {FreeList} /\ N \cap PageNos \subseteq F \cup C /\ C \cap N = {} /\ N \cap W = {}
    BY <1>1, <1>2, <1>22, <1>23, NodeFacts
  <1>25. SameBut(t, m, N, W)
    BY <1>8, <1>15, <1>19, <1>21, <1>23 DEF SameBut
  <1>26. \A x \in Ld \ {p} : Reach(x, len[x]) \cap W = {}
    BY <1>1, <1>2, <1>3, <1>20, ReachFacts
  <1>27. /\ \A x \in F \ {p} : OpenRun(t, x, len[x])
         /\ \A x \in T \ {p} : TakenRun(t, x, len[x])
         /\ \A x \in C \ {p} : /\ len[x] = 1 /\ CutPage(t, x, t.slab[x].n)
                               /\ t.slab[x] = m.slab[x] /\ t.busy[x] = m.busy[x]
    <2>0. PICK B : B = {p}
      OBVIOUS
    <2>1. \A x \in LeadersOf(F, T, C, NULL) \ B : Reach(x, len[x]) \cap W = {}
      BY <1>26, <2>0 DEF Ld
    <2>2. \A x \in C \cap N : m.busy[x] # Whole(m.slab[x].n)
      BY <1>24
    <2>3. N \cap PageNos \subseteq F \cup C
      BY <1>24
    <2>4. /\ \A x \in F \ B : OpenRun(t, x, len[x])
          /\ \A x \in T \ B : TakenRun(t, x, len[x])
          /\ \A x \in C \ B : /\ len[x] = 1 /\ CutPage(t, x, t.slab[x].n)
                               /\ t.slab[x] = m.slab[x] /\ t.busy[x] = m.busy[x]
      BY <1>25, <2>1, <2>2, <2>3, Elsewhere
    <2> QED
      BY <2>0, <2>4
  <1>28. \A size \in Sizes : IsList(t.next, t.prev, Slot(size), Room(t, C, size))
    <2>1. C \cap W = {}
      BY <1>1, <1>2, <1>22
    <2> QED
      BY <1>22, <1>24, <1>25, <2>1, RowsElsewhere
  <1>29. TakenRun(t, p, n)
    <2>1. \A x \in V : x \in PageNos /\ x \in Nodes
      BY <1>21, <1>22, NodeFacts
    <2> QED
      BY <1>19, <1>21, <2>1 DEF TakenRun, Blank
  <1>30. OpenRun(t, q, k - n)
    <2>1. m.type[q] = "page" /\ \A x \in Inner(p, k) : Blank(m, x, Run(0))
      BY <1>9, <1>12 DEF OpenRun, LooseRun, Blank
    <2>2. t.type[q] = "page" /\ t.slab[q] = Run(k - n)
      BY <1>8, <1>15, <1>19, <1>21, <2>1
    <2>3. ASSUME NEW x \in Inner(q, k - n)
          PROVE  Blank(t, x, Run(0))
      <3>1. x \in Inner(p, k) /\ x \notin V /\ x # q /\ x # p /\ x \notin Inner(p, n) /\ x \in PageNos /\ x \in Nodes
        BY <1>4, <1>21, <1>22, NodeFacts
      <3>2. x \in W /\ x # m.prev[p]
        BY <1>21, <1>23, <1>24, <3>1
      <3>3. t.type[x] = m.type[x] /\ t.slab[x] = m.slab[x] /\ t.next[x] = m.next[x]
        BY <1>15, <1>19, <3>1, <3>2
      <3> QED
        BY <2>1, <3>1, <3>3 DEF Blank
    <2>4. ASSUME k - n > 1
          PROVE  t.prev[l] = q
      <3>1. l # q /\ l \notin V /\ l # m.next[p]
        BY <1>4, <1>5, <1>6, <1>18, <1>21, <1>23, <1>24, <2>4 DEF Reach
      <3> QED
        BY <1>8, <1>15, <1>19, <3>1
    <2> QED
      BY <1>21, <2>2, <2>3, <2>4 DEF OpenRun, LooseRun
  <1>31. PICK G : G = (F \ {p}) \cup {q}
    OBVIOUS
  <1>32. IsList(t.next, t.prev, FreeList, G)
    <2>1. /\ q \notin F /\ q # FreeList /\ FreeList \notin V /\ FreeList \in Nodes /\ FreeList \notin PageNos
      BY <1>2, <1>8, <1>10, <1>21, <1>22, NodeFacts
    <2>2. \A x \in F \ {p} : x \in Nodes /\ x \notin V /\ x # q /\ x # l
      BY <1>1, <1>2, <1>10, <1>21, <1>22, NodeFacts
    <2>3. \A x \in (F \cup {FreeList}) \ {p} : t.next[x] = IF x = m.prev[p] THEN q ELSE m.next[x]
      BY <1>15, <1>19, <2>1, <2>2
    <2>4. t.next[q] = m.next[p] /\ t.prev[q] = m.prev[p]
      BY <1>8, <1>11, <1>15, <1>19, <1>21
    <2>5. \A x \in F \ {p} : t.prev[x] = IF x = m.next[p] THEN q ELSE m.prev[x]
      BY <1>15, <1>19, <2>2
    <2> QED
      BY <1>1, <1>31, <2>1, <2>3, <2>4, <2>5, ListReplace
  <1>33. PICK ln \in [PageNos -> Nat] : /\ ln[p] = n /\ ln[q] = k - n
                                        /\ \A x \in PageNos : x # p /\ x # q => ln[x] = len[x]
    <2>1. [[len EXCEPT ![p] = n] EXCEPT ![q] = k - n] \in [PageNos -> Nat]
      BY <1>1, <1>7 DEF Tiling
    <2> QED
      BY <1>1, <1>4, <1>7, <1>8, <2>1 DEF Tiling
  <1>34. Tiling(Ld \cup {q}, ln)
    <2>1. \A x \in Ld : x # p => ln[x] = len[x]
      BY <1>1, <1>2, <1>10, <1>33
    <2>2. ln[p] = n /\ ln[p + n] = len[p] - n /\ n < len[p] /\ p \in Ld
      BY <1>2, <1>3, <1>5, <1>33
    <2>3. Tiling(Ld \cup {p + n}, ln)
      BY <1>1, <2>1, <2>2, TileSplit
    <2> QED
      BY <1>5, <2>3
  <1>35. Placed(G, T \cup {p}, C, NULL, ln)
    <2> DEFINE U == T \cup {p}
    <2>1. LeadersOf(G, U, C, NULL) = Ld \cup {q}
      BY <1>2, <1>31, NodeFacts DEF LeadersOf, LooseOf
    <2>2. /\ G \subseteq PageNos /\ U \subseteq PageNos /\ C \subseteq PageNos
          /\ G \cap U = {} /\ G \cap C = {} /\ U \cap C = {} /\ NULL \notin G \cup U \cup C
      BY <1>1, <1>2, <1>4, <1>7, <1>8, <1>10, <1>31, NodeFacts
    <2>3. ASSUME NEW x \in G, NEW y \in G, x + ln[x] = y
          PROVE  FALSE
      <3>1. \A a, b \in F : a + len[a] # b
        BY DEF Laid, Placed
      <3>2. CASE x = q
        <4>1. p + len[p] = y
          BY <1>3, <1>4, <1>5, <1>33, <2>3, <3>2
        <4>2. y # q
          BY <1>3, <1>4, <1>5, <4>1
        <4> QED
          BY <1>31, <3>1, <4>1, <4>2
      <3>3. CASE x # q /\ y = q
        <4>1. x \in F \ {p} /\ ln[x] = len[x] /\ x \in Ld /\ x + len[x] = p + n
          BY <1>1, <1>2, <1>5, <1>31, <1>33, <2>3, <3>3
        <4>2. x + len[x] <= p \/ p + len[p] <= x
          BY <1>1, <1>2, <4>1, TileApart
        <4>3. x \in Nat /\ len[x] \in Nat
          BY <1>1, <4>1, TileTypes
        <4> QED
          BY <1>3, <1>4, <4>1, <4>2, <4>3
      <3>4. CASE x # q /\ y # q
        <4>1. x \in F /\ y \in F /\ ln[x] = len[x]
          BY <1>1, <1>31, <1>33, <3>4
        <4> QED
          BY <2>3, <3>1, <4>1
      <3> QED
        BY <3>2, <3>3, <3>4
    <2>4. \A x, y \in G : x + ln[x] # y
      BY <2>3
    <2>5. Tiling(LeadersOf(G, U, C, NULL), ln)
      BY <1>34, <2>1
    <2> HIDE DEF U
    <2>6. Placed(G, U, C, NULL, ln)
      BY <2>2, <2>4, <2>5, PlacedIs
    <2> QED
      BY <2>6 DEF U
  <1>36. RunsOK(t, G, T \cup {p}, NULL, ln)
    <2>1. \A x \in G : OpenRun(t, x, ln[x])
      BY <1>1, <1>27, <1>30, <1>31, <1>33
    <2>2. \A x \in T \cup {p} : TakenRun(t, x, ln[x])
      BY <1>1, <1>2, <1>10, <1>27, <1>29, <1>33
    <2> QED
      BY <1>2, <2>1, <2>2 DEF RunsOK
  <1>37. \A x \in T \cup C : ln[x] = len[x]
    BY <1>1, <1>2, <1>10, <1>33
  <1>38. CutOK(t, C, ln)
    BY <1>1, <1>27, <1>37 DEF CutOK
  <1>39. Laid(t, G, T \cup {p}, C, NULL, ln)
    BY <1>19, <1>28, <1>32, <1>35, <1>36, <1>38 DEF Laid, RowsOK
  <1>40. OpenPages(G, ln) = OpenPages(F, len) \ V
    <2>1. Reach(q, k - n) = W \ V
      BY <1>4, <1>5, <1>18, <1>20 DEF Reach
    <2>2. \A x \in F \ {p} : Reach(x, ln[x]) = Reach(x, len[x]) /\ Reach(x, ln[x]) \cap W = {}
      BY <1>1, <1>2, <1>10, <1>26, <1>33
    <2>3. F \subseteq Ld /\ G \subseteq Ld \cup {q}
      BY <1>2, <1>31
    <2>4. OpenPages(F, len) = UNION {Reach(x, len[x]) : x \in F}
      BY <1>1, <2>3, OpenFacts
    <2>5. OpenPages(G, ln) = UNION {Reach(x, ln[x]) : x \in G}
      BY <1>34, <2>3, OpenFacts
    <2>6. OpenPages(F, len) = W \cup UNION {Reach(x, len[x]) : x \in F \ {p}}
      BY <1>3, <1>20, <2>4
    <2>9. Reach(q, ln[q]) = W \ V /\ G = (F \ {p}) \cup {q}
      BY <1>31, <1>33, <2>1
    <2>10. {Reach(x, ln[x]) : x \in G} = {Reach(x, len[x]) : x \in F \ {p}} \cup {W \ V}
      BY <2>2, <2>9
    <2>7. OpenPages(G, ln) = (W \ V) \cup UNION {Reach(x, len[x]) : x \in F \ {p}}
      BY <2>5, <2>10
    <2>8. (UNION {Reach(x, len[x]) : x \in F \ {p}}) \cap W = {}
      BY <2>2
    <2> QED
      BY <1>21, <2>6, <2>7, <2>8
  <1>41. \A x \in C : t.slab[x] = m.slab[x] /\ t.busy[x] = m.busy[x]
    BY <1>1, <1>27
  <1>42. G \in SUBSET PageNos
    BY <1>35 DEF Placed
  <1> QED
    BY <1>16, <1>18, <1>33, <1>37, <1>39, <1>40, <1>41, <1>42 DEF TakenFrom

LEMMA TakeAll ==
  ASSUME NEW m, NEW F, NEW T, NEW C, NEW len, Laid(m, F, T, C, NULL, len), NEW p \in F
  PROVE  TakenFrom(m, TakeRun(m, p, len[p]), F, T, C, len, p, len[p])
  <1> DEFINE Ld == LeadersOf(F, T, C, NULL)
  <1>1. /\ m \in Mems /\ Tiling(Ld, len)
        /\ F \subseteq PageNos /\ T \subseteq PageNos /\ C \subseteq PageNos
        /\ F \cap T = {} /\ F \cap C = {} /\ T \cap C = {}
        /\ FreeList \notin F /\ IsList(m.next, m.prev, FreeList, F)
        /\ m.next[p] \in F \cup {FreeList} /\ m.prev[p] \in F \cup {FreeList}
        /\ m.next[p] # p /\ m.prev[p] # p /\ m.next[p] \in Nodes /\ m.prev[p] \in Nodes
    BY LaidFacts
  <1>2. LooseOf(NULL) = {} /\ Ld = F \cup T \cup C
    BY NodeFacts DEF LeadersOf, LooseOf
  <1> HIDE DEF Ld
  <1>3. PICK k : k = len[p]
    OBVIOUS
  <1>4. /\ p \in Nat /\ p \in PageNos /\ p \in Nodes /\ k \in Nat /\ k >= 1 /\ p + k <= Pages /\ Pages \in Nat
        /\ k \in 0 .. Pages
    BY <1>1, <1>2, <1>3, TileTypes, NodeFacts, SlabAssumption
  <1>5. OpenRun(m, p, k)
    BY <1>3 DEF Laid, RunsOK
  <1>6. m.slab[p].n = k
    BY <1>5 DEF OpenRun, LooseRun, Run
  <1>7. PICK r : r = Unlink(m, p)
    OBVIOUS
  <1>8. /\ r \in Mems /\ r.type = m.type /\ r.slab = m.slab /\ r.busy = m.busy
        /\ \A x \in Nodes : r.next[x] = IF x = m.prev[p] THEN m.next[p] ELSE m.next[x]
        /\ \A x \in Nodes : r.prev[x] = IF x = m.next[p] THEN m.prev[p] ELSE m.prev[x]
    BY <1>1, <1>4, <1>7, UnlinkGives
  <1>9. PICK t : t = TakeRun(m, p, k)
    OBVIOUS
  <1>10. t = PlainAll(Plain(r, p, Start(k)), p + 1 .. p + k - 1, RunTail)
    BY <1>4, <1>6, <1>7, <1>9 DEF TakeRun
  <1>11. PICK W : W = Reach(p, k)
    OBVIOUS
  <1>12. /\ t \in Mems
         /\ \A x \in Nodes : t.next[x] = IF x \in W THEN NULL ELSE r.next[x]
         /\ \A x \in Nodes : t.prev[x] = IF x \in W THEN NULL ELSE r.prev[x]
         /\ \A x \in PageNos : /\ t.type[x] = IF x \in W THEN "page" ELSE r.type[x]
                               /\ t.slab[x] = IF x = p THEN Start(k)
                                              ELSE IF x \in Inner(p, k) THEN RunTail ELSE r.slab[x]
                               /\ t.busy[x] = IF x \in W THEN {} ELSE r.busy[x]
    <2>1. k >= 1
      BY <1>4
    <2>2. p \in PageNos /\ k \in 0 .. Pages
      BY <1>4
    <2>3. r \in Mems
      BY <1>8
    <2> QED
      BY <1>10, <1>11, <2>1, <2>2, <2>3, StartGives
  <1>13. W = {p} \cup Inner(p, k) /\ p \notin Inner(p, k)
    BY <1>1, <1>2, <1>3, <1>11, ReachFacts
  <1>14. W \subseteq PageNos /\ W \cap (Ld \ {p}) = {}
    <2>1. \A y \in Inner(p, k) : y \notin Ld
      BY <1>1, <1>2, <1>3, ReachFacts
    <2>2. W \subseteq PageNos
      BY <1>1, <1>2, <1>3, <1>11, ReachFacts
    <2> QED
      BY <1>13, <2>1, <2>2
  <1>15. PICK N : N = {m.prev[p], m.next[p]}
    OBVIOUS
  <1>16. N \subseteq F \cup {FreeList} /\ N \cap PageNos \subseteq F \cup C /\ C \cap N = {} /\ N \cap W = {}
    BY <1>1, <1>2, <1>14, <1>15, NodeFacts
  <1>17. SameBut(t, m, N, W)
    BY <1>8, <1>12, <1>13, <1>15 DEF SameBut
  <1>18. \A x \in Ld \ {p} : Reach(x, len[x]) \cap W = {}
    BY <1>1, <1>2, <1>3, <1>11, ReachFacts
  <1>19. /\ \A x \in F \ {p} : OpenRun(t, x, len[x])
         /\ \A x \in T \ {p} : TakenRun(t, x, len[x])
         /\ \A x \in C \ {p} : /\ len[x] = 1 /\ CutPage(t, x, t.slab[x].n)
                               /\ t.slab[x] = m.slab[x] /\ t.busy[x] = m.busy[x]
    <2>0. PICK B : B = {p}
      OBVIOUS
    <2>1. \A x \in LeadersOf(F, T, C, NULL) \ B : Reach(x, len[x]) \cap W = {}
      BY <1>18, <2>0 DEF Ld
    <2>2. \A x \in C \cap N : m.busy[x] # Whole(m.slab[x].n)
      BY <1>16
    <2>3. N \cap PageNos \subseteq F \cup C
      BY <1>16
    <2>4. /\ \A x \in F \ B : OpenRun(t, x, len[x])
          /\ \A x \in T \ B : TakenRun(t, x, len[x])
          /\ \A x \in C \ B : /\ len[x] = 1 /\ CutPage(t, x, t.slab[x].n)
                               /\ t.slab[x] = m.slab[x] /\ t.busy[x] = m.busy[x]
      BY <1>17, <2>1, <2>2, <2>3, Elsewhere
    <2> QED
      BY <2>0, <2>4
  <1>20. \A size \in Sizes : IsList(t.next, t.prev, Slot(size), Room(t, C, size))
    <2>1. C \cap W = {}
      BY <1>1, <1>2, <1>14
    <2> QED
      BY <1>14, <1>16, <1>17, <2>1, RowsElsewhere
  <1>21. TakenRun(t, p, k)
    <2>1. \A x \in W : x \in PageNos /\ x \in Nodes
      BY <1>14, NodeFacts
    <2> QED
      BY <1>12, <1>13, <2>1 DEF TakenRun, Blank
  <1>22. PICK G : G = F \ {p}
    OBVIOUS
  <1>23. IsList(t.next, t.prev, FreeList, G)
    <2>1. FreeList \notin W /\ FreeList \in Nodes
      BY <1>14, NodeFacts
    <2>2. \A x \in F \ {p} : x \in Nodes /\ x \notin W
      BY <1>1, <1>2, <1>14, NodeFacts
    <2>3. \A x \in (F \cup {FreeList}) \ {p} : t.next[x] = IF x = m.prev[p] THEN m.next[p] ELSE m.next[x]
      BY <1>8, <1>12, <2>1, <2>2
    <2>4. \A x \in F \ {p} : t.prev[x] = IF x = m.next[p] THEN m.prev[p] ELSE m.prev[x]
      BY <1>8, <1>12, <2>2
    <2> QED
      BY <1>1, <1>22, <2>3, <2>4, ListUnlink
  <1>24. Placed(G, T \cup {p}, C, NULL, len)
    <2> DEFINE U == T \cup {p}
    <2>1. LeadersOf(G, U, C, NULL) = Ld
      BY <1>2, <1>22, NodeFacts DEF LeadersOf, LooseOf
    <2>2. /\ G \subseteq PageNos /\ U \subseteq PageNos /\ C \subseteq PageNos
          /\ G \cap U = {} /\ G \cap C = {} /\ U \cap C = {} /\ NULL \notin G \cup U \cup C
      BY <1>1, <1>22, NodeFacts
    <2>3. \A x, y \in G : x + len[x] # y
      BY <1>22 DEF Laid, Placed
    <2>4. Tiling(LeadersOf(G, U, C, NULL), len)
      BY <1>1, <2>1
    <2> HIDE DEF U
    <2>5. Placed(G, U, C, NULL, len)
      BY <2>2, <2>3, <2>4, PlacedIs
    <2> QED
      BY <2>5 DEF U
  <1>25. RunsOK(t, G, T \cup {p}, NULL, len)
    BY <1>1, <1>2, <1>3, <1>19, <1>21, <1>22 DEF RunsOK
  <1>26. CutOK(t, C, len)
    BY <1>1, <1>19 DEF CutOK
  <1>27. Laid(t, G, T \cup {p}, C, NULL, len)
    BY <1>12, <1>20, <1>23, <1>24, <1>25, <1>26 DEF Laid, RowsOK
  <1>28. OpenPages(G, len) = OpenPages(F, len) \ W
    <2>1. F \subseteq Ld /\ G \subseteq Ld /\ p \in Ld
      BY <1>2, <1>22
    <2>2. OpenPages(F, len) = UNION {Reach(x, len[x]) : x \in F}
      BY <1>1, <2>1, OpenFacts
    <2>3. OpenPages(G, len) = UNION {Reach(x, len[x]) : x \in G}
      BY <1>1, <2>1, OpenFacts
    <2>4. \A x \in G : Reach(x, len[x]) \cap W = {}
      BY <1>18, <1>22, <2>1
    <2>5. OpenPages(F, len) = W \cup UNION {Reach(x, len[x]) : x \in G}
      BY <1>3, <1>11, <1>22, <2>2
    <2>6. (UNION {Reach(x, len[x]) : x \in G}) \cap W = {}
      BY <2>4
    <2> QED
      BY <2>3, <2>5, <2>6
  <1>29. \A x \in C : t.slab[x] = m.slab[x] /\ t.busy[x] = m.busy[x]
    BY <1>1, <1>19
  <1>30. G \in SUBSET PageNos /\ len \in [PageNos -> Nat]
    BY <1>1, <1>22 DEF Tiling
  <1>31. TakenFrom(m, t, F, T, C, len, p, k)
    BY <1>3, <1>11, <1>27, <1>28, <1>29, <1>30 DEF TakenFrom
  <1> QED
    BY <1>3, <1>9, <1>31

LEMMA TakeRunLaid ==
  ASSUME NEW m, NEW F, NEW T, NEW C, NEW len, Laid(m, F, T, C, NULL, len),
         NEW p \in F, NEW n \in Nat, 0 < n, n <= len[p]
  PROVE  TakenFrom(m, TakeRun(m, p, n), F, T, C, len, p, n)
  <1>1. len[p] \in Nat
    BY LaidFacts
  <1>2. CASE n < len[p]
    BY <1>2, TakeSome
  <1>3. CASE n = len[p]
    BY <1>3, TakeAll
  <1> QED
    BY <1>1, <1>2, <1>3

-----------------------------------------------------------------------------
(* ngx_slab_free_pages, by its stages. *)

(* From one layout to the next: the pages that are free or on their way    *)
(* back stay these, and nothing else changes.                              *)
Stage(m, u, T, C, F, z, len, G, y, ln) ==
  /\ Laid(u, G, T, C, y, ln) /\ \A r \in T \cup C : ln[r] = len[r]
  /\ OpenPages(G \cup LooseOf(y), ln) = OpenPages(F \cup LooseOf(z), len)
  /\ \A r \in C : u.slab[r] = m.slab[r] /\ u.busy[r] = m.busy[r]

Joined(m, l, r, x, k) == Plain(Unlink([m EXCEPT !.slab[l] = Run(k)], x), r, Run(0))

JoinsTo(m, u, T, C, F, z, len, x, l, r, k) ==
  \E ln \in [PageNos -> Nat] :
    Stage(m, u, T, C, F, z, len, F \ {x}, l, ln) /\ ln[l] = k /\ \A a \in F \ {x} : ln[a] = len[a]

(* The loose run z and the free run x, its neighbour, become one: the left *)
(* one l takes up the right one r.                                         *)
LEMMA JoinLaid ==
  ASSUME NEW m, NEW F, NEW T, NEW C, NEW z \in PageNos, NEW len, Laid(m, F, T, C, z, len),
         NEW x \in F, NEW l, NEW r, (l = x /\ r = z) \/ (l = z /\ r = x), r = l + len[l],
         NEW k, k = len[l] + len[r],
         NEW u, u = Joined(m, l, r, x, k)
  PROVE  JoinsTo(m, u, T, C, F, z, len, x, l, r, k)
  <1> DEFINE Ld == LeadersOf(F, T, C, z)
  <1>1. /\ m \in Mems /\ Tiling(Ld, len)
        /\ F \subseteq PageNos /\ T \subseteq PageNos /\ C \subseteq PageNos
        /\ F \cap T = {} /\ F \cap C = {} /\ T \cap C = {} /\ z \notin F \cup T \cup C
        /\ FreeList \notin F /\ IsList(m.next, m.prev, FreeList, F)
        /\ m.next[x] \in F \cup {FreeList} /\ m.prev[x] \in F \cup {FreeList}
        /\ m.next[x] # x /\ m.prev[x] # x /\ m.next[x] \in Nodes /\ m.prev[x] \in Nodes
    BY LaidFacts
  <1>2. LooseOf(z) = {z} /\ Ld = F \cup T \cup C \cup {z}
    BY DEF LeadersOf, LooseOf
  <1> HIDE DEF Ld
  <1>3. l \in Ld /\ r \in Ld /\ {l, r} = {x, z} /\ x # z /\ l # r
    BY <1>1, <1>2
  <1>4. PICK a : a = len[l]
    OBVIOUS
  <1>5. PICK b : b = len[r]
    OBVIOUS
  <1>6. /\ l \in PageNos /\ r \in PageNos /\ l \in Nat /\ r \in Nat /\ a \in Nat /\ b \in Nat /\ a >= 1 /\ b >= 1
        /\ r = l + a /\ k = a + b /\ r + b <= Pages
    BY <1>1, <1>3, <1>4, <1>5, TileTypes
  <1>7. Pages \in Nat /\ k \in 0 .. Pages /\ 0 \in 0 .. Pages /\ k \in Nat
    BY <1>6, SlabAssumption
  <1>8. Run(k) \in Fields /\ Run(0) \in Fields
    BY <1>7, FieldFacts
  <1>9. PICK c : c = [m EXCEPT !.slab[l] = Run(k)]
    OBVIOUS
  <1>10. /\ c \in Mems /\ c.next = m.next /\ c.prev = m.prev /\ c.type = m.type /\ c.busy = m.busy
         /\ \A y \in PageNos : c.slab[y] = IF y = l THEN Run(k) ELSE m.slab[y]
    BY <1>1, <1>6, <1>8, <1>9, SlabGives
  <1>11. PICK d : d = Unlink(c, x)
    OBVIOUS
  <1>12. /\ d \in Mems /\ d.type = c.type /\ d.slab = c.slab /\ d.busy = c.busy
         /\ \A y \in Nodes : d.next[y] = IF y = c.prev[x] THEN c.next[x] ELSE c.next[y]
         /\ \A y \in Nodes : d.prev[y] = IF y = c.next[x] THEN c.prev[x] ELSE c.prev[y]
    <2>1. x \in PageNos /\ c.prev[x] \in Nodes /\ c.next[x] \in Nodes
      BY <1>1, <1>10
    <2> QED
      BY <1>10, <1>11, <2>1, UnlinkGives
  <1>13. u = Plain(d, r, Run(0))
    BY <1>9, <1>11 DEF Joined
  <1>14. /\ u \in Mems
         /\ \A y \in Nodes : u.next[y] = IF y = r THEN NULL ELSE d.next[y]
         /\ \A y \in Nodes : u.prev[y] = IF y = r THEN NULL ELSE d.prev[y]
         /\ \A y \in PageNos : /\ u.type[y] = IF y = r THEN "page" ELSE d.type[y]
                               /\ u.slab[y] = IF y = r THEN Run(0) ELSE d.slab[y]
                               /\ u.busy[y] = IF y = r THEN {} ELSE d.busy[y]
    <2>1. d \in Mems
      BY <1>12
    <2>2. r \in PageNos
      BY <1>6
    <2>3. PICK s \in Fields : s = Run(0)
      BY <1>8
    <2>4. u = Plain(d, r, s)
      BY <1>13, <2>3
    <2>5. /\ u \in Mems
          /\ \A y \in Nodes : u.next[y] = IF y = r THEN NULL ELSE d.next[y]
          /\ \A y \in Nodes : u.prev[y] = IF y = r THEN NULL ELSE d.prev[y]
          /\ \A y \in PageNos : /\ u.type[y] = IF y = r THEN "page" ELSE d.type[y]
                                /\ u.slab[y] = IF y = r THEN s ELSE d.slab[y]
                                /\ u.busy[y] = IF y = r THEN {} ELSE d.busy[y]
      BY <2>1, <2>2, <2>4, PlainGives
    <2> QED
      BY <2>3, <2>5
  <1>15. PICK W : W = Reach(l, a) \cup Reach(r, b)
    OBVIOUS
  <1>16. /\ Reach(l, a) = {l} \cup Inner(l, a) /\ Reach(r, b) = {r} \cup Inner(r, b)
         /\ W \subseteq PageNos /\ l \in W /\ r \in W /\ W \cap (Ld \ {l, r}) = {}
         /\ (\A y \in Inner(l, a) : y \notin Ld) /\ (\A y \in Inner(r, b) : y \notin Ld)
         /\ \A y \in Ld \ {l, r} : Reach(y, len[y]) \cap W = {}
    <2>0. l \in Ld /\ r \in Ld /\ Tiling(Ld, len)
      BY <1>1, <1>3
    <2>3. /\ Reach(l, len[l]) = {l} \cup Inner(l, len[l]) /\ Reach(l, len[l]) \subseteq PageNos
          /\ \A y \in Inner(l, len[l]) : y \notin Ld
          /\ \A y \in Ld : y # l => Reach(y, len[y]) \cap Reach(l, len[l]) = {}
      BY <2>0, ReachFacts
    <2>1. /\ Reach(l, a) = {l} \cup Inner(l, a) /\ Reach(l, a) \subseteq PageNos
          /\ \A y \in Inner(l, a) : y \notin Ld
          /\ \A y \in Ld : y # l => Reach(y, len[y]) \cap Reach(l, a) = {}
      BY <1>4, <2>3
    <2>4. /\ Reach(r, len[r]) = {r} \cup Inner(r, len[r]) /\ Reach(r, len[r]) \subseteq PageNos
          /\ \A y \in Inner(r, len[r]) : y \notin Ld
          /\ \A y \in Ld : y # r => Reach(y, len[y]) \cap Reach(r, len[r]) = {}
      BY <2>0, ReachFacts
    <2>2. /\ Reach(r, b) = {r} \cup Inner(r, b) /\ Reach(r, b) \subseteq PageNos
          /\ \A y \in Inner(r, b) : y \notin Ld
          /\ \A y \in Ld : y # r => Reach(y, len[y]) \cap Reach(r, b) = {}
      BY <1>5, <2>4
    <2> QED
      BY <1>15, <2>1, <2>2
  <1>17. Reach(l, k) = W /\ \A y \in Inner(l, k) : y \in Inner(l, a) \/ y = r \/ y \in Inner(r, b)
    BY <1>6, <1>15 DEF Reach, Inner
  <1>18. PICK N : N = {m.prev[x], m.next[x]}
    OBVIOUS
  <1>19. N \subseteq F \cup {FreeList} /\ N \cap PageNos \subseteq F \cup C /\ C \cap N = {} /\ x \notin N /\ z \notin N
    BY <1>1, <1>18, NodeFacts
  <1>20. SameBut(u, m, N, W)
    BY <1>10, <1>12, <1>14, <1>16, <1>18 DEF SameBut
  <1>21. /\ \A y \in F \ {x} : OpenRun(u, y, len[y])
         /\ \A y \in T : TakenRun(u, y, len[y])
         /\ \A y \in C : /\ len[y] = 1 /\ CutPage(u, y, u.slab[y].n)
                         /\ u.slab[y] = m.slab[y] /\ u.busy[y] = m.busy[y]
    <2>0. PICK B : B = {l, r}
      OBVIOUS
    <2>1. \A y \in LeadersOf(F, T, C, z) \ B : Reach(y, len[y]) \cap W = {}
      BY <1>16, <2>0 DEF Ld
    <2>2. \A y \in C \cap N : m.busy[y] # Whole(m.slab[y].n)
      BY <1>19
    <2>3. N \cap PageNos \subseteq F \cup C
      BY <1>19
    <2>4. /\ \A y \in F \ B : OpenRun(u, y, len[y])
          /\ \A y \in T \ B : TakenRun(u, y, len[y])
          /\ \A y \in C \ B : /\ len[y] = 1 /\ CutPage(u, y, u.slab[y].n)
                               /\ u.slab[y] = m.slab[y] /\ u.busy[y] = m.busy[y]
      BY <1>20, <2>1, <2>2, <2>3, Elsewhere
    <2>5. F \ {x} \subseteq F \ B /\ T \subseteq T \ B /\ C \subseteq C \ B
      BY <1>1, <1>3, <2>0
    <2> QED
      BY <2>4, <2>5
  <1>22. \A size \in Sizes : IsList(u.next, u.prev, Slot(size), Room(u, C, size))
    <2>1. C \cap W = {}
      BY <1>1, <1>2, <1>3, <1>16
    <2> QED
      <3>1. W \subseteq PageNos
        BY <1>16
      <3>2. N \subseteq F \cup {FreeList}
        BY <1>19
      <3> QED
        BY <1>20, <2>1, <3>1, <3>2, RowsElsewhere
  <1>23. LooseRun(u, l, k)
    <2>1. LooseRun(m, l, a) /\ LooseRun(m, r, b)
      <3>1. OpenRun(m, x, len[x]) /\ LooseRun(m, z, len[z])
        BY <1>2 DEF Laid, RunsOK
      <3> QED
        BY <1>4, <1>5, <3>1 DEF OpenRun
    <2>2. u.slab[l] = Run(k)
      BY <1>3, <1>6, <1>10, <1>12, <1>14
    <2>3. Blank(u, r, Run(0))
      BY <1>6, <1>14, NodeFacts DEF Blank
    <2>4. ASSUME NEW y, y \in Inner(l, a) \/ y \in Inner(r, b)
          PROVE  Blank(u, y, Run(0))
      <3>1. y \in PageNos /\ y \in Nodes /\ y \notin Ld /\ y # l /\ y # r /\ y \notin N
        <4>1. y \in W /\ y \notin Ld
          BY <1>15, <1>16, <2>4
        <4>2. y \in PageNos /\ y \in Nodes
          BY <1>16, <4>1, NodeFacts
        <4>3. y \notin N
          BY <1>2, <1>19, <4>1, <4>2, NodeFacts
        <4> QED
          BY <1>3, <4>1, <4>2, <4>3
      <3>2. Blank(m, y, Run(0))
        BY <2>1, <2>4 DEF LooseRun
      <3>3. u.type[y] = m.type[y] /\ u.slab[y] = m.slab[y] /\ u.next[y] = m.next[y]
        BY <1>10, <1>12, <1>14, <1>18, <3>1
      <3> QED
        BY <3>2, <3>3 DEF Blank
    <2> QED
      BY <1>17, <2>2, <2>3, <2>4 DEF LooseRun
  <1>24. PICK G : G = F \ {x}
    OBVIOUS
  <1>25. IsList(u.next, u.prev, FreeList, G)
    <2>1. FreeList \notin W /\ FreeList \in Nodes
      BY <1>16, NodeFacts
    <2>2. \A y \in F \ {x} : y \in Nodes /\ y # r
      BY <1>1, NodeFacts
    <2>3. \A y \in (F \cup {FreeList}) \ {x} : u.next[y] = IF y = m.prev[x] THEN m.next[x] ELSE m.next[y]
      BY <1>10, <1>12, <1>14, <1>16, <2>1, <2>2
    <2>4. \A y \in F \ {x} : u.prev[y] = IF y = m.next[x] THEN m.prev[x] ELSE m.prev[y]
      BY <1>10, <1>12, <1>14, <2>2
    <2> QED
      BY <1>1, <1>24, <2>3, <2>4, ListUnlink
  <1>26. PICK ln \in [PageNos -> Nat] : ln[l] = k /\ \A y \in PageNos : y # l => ln[y] = len[y]
    <2>1. [len EXCEPT ![l] = k] \in [PageNos -> Nat]
      BY <1>1, <1>7 DEF Tiling
    <2> QED
      BY <1>1, <1>6, <2>1 DEF Tiling
  <1>27. Tiling(Ld \ {r}, ln)
    <2>1. \A y \in Ld : y # l /\ y # r => ln[y] = len[y]
      BY <1>1, <1>26 DEF Tiling
    <2>2. ln[l] = len[l] + len[r] /\ r = l + len[l]
      BY <1>26
    <2> QED
      BY <1>1, <1>3, <2>1, <2>2, TileJoin
  <1>28. LooseOf(l) = {l}
    BY <1>6 DEF LooseOf
  <1>29. \A y \in G : ln[y] = len[y] /\ y # r /\ y # l
    BY <1>1, <1>24, <1>26
  <1>30. Placed(G, T, C, l, ln)
    <2>1. LeadersOf(G, T, C, l) = Ld \ {r}
      BY <1>1, <1>2, <1>3, <1>24, <1>28 DEF LeadersOf
    <2>2. /\ G \subseteq PageNos /\ T \subseteq PageNos /\ C \subseteq PageNos
          /\ G \cap T = {} /\ G \cap C = {} /\ T \cap C = {} /\ l \notin G \cup T \cup C
      BY <1>1, <1>24
    <2>3. \A y, w \in G : y + ln[y] # w
      BY <1>24, <1>29 DEF Laid, Placed
    <2>4. Tiling(LeadersOf(G, T, C, l), ln)
      BY <1>27, <2>1
    <2> QED
      BY <2>2, <2>3, <2>4, PlacedIs
  <1>31. \A y \in T \cup C : ln[y] = len[y]
    BY <1>1, <1>26
  <1>32. RunsOK(u, G, T, l, ln)
    BY <1>21, <1>23, <1>24, <1>26, <1>28, <1>29, <1>31 DEF RunsOK
  <1>33. CutOK(u, C, ln)
    BY <1>21, <1>31 DEF CutOK
  <1>34. Laid(u, G, T, C, l, ln)
    BY <1>14, <1>22, <1>25, <1>30, <1>32, <1>33 DEF Laid, RowsOK
  <1>35. OpenPages(G \cup {l}, ln) = OpenPages(F \cup {z}, len)
    <2>1. F \cup {z} \subseteq Ld /\ G \cup {l} \subseteq Ld \ {r} /\ F \cup {z} = G \cup {l, r}
      BY <1>1, <1>2, <1>3, <1>24
    <2>2. OpenPages(F \cup {z}, len) = UNION {Reach(y, len[y]) : y \in F \cup {z}}
      BY <1>1, <2>1, OpenFacts
    <2>3. OpenPages(G \cup {l}, ln) = UNION {Reach(y, ln[y]) : y \in G \cup {l}}
      BY <1>27, <2>1, OpenFacts
    <2>4. OpenPages(F \cup {z}, len) = W \cup UNION {Reach(y, len[y]) : y \in G}
      <3>1. OpenPages(F \cup {z}, len) = UNION {Reach(y, len[y]) : y \in G \cup {l, r}}
        BY <2>1, <2>2
      <3> QED
        BY <1>4, <1>5, <1>15, <3>1
    <2>5. OpenPages(G \cup {l}, ln) = W \cup UNION {Reach(y, len[y]) : y \in G}
      BY <1>17, <1>26, <1>29, <2>3
    <2> QED
      BY <2>4, <2>5
  <1>36. Stage(m, u, T, C, F, z, len, G, l, ln)
    BY <1>2, <1>21, <1>28, <1>31, <1>34, <1>35 DEF Stage
  <1> QED
    BY <1>24, <1>26, <1>29, <1>36 DEF JoinsTo

(* What runs show from outside. *)
LEMMA RunShows ==
  ASSUME NEW m, NEW F, NEW T, NEW C, NEW z, NEW len, Laid(m, F, T, C, z, len)
  PROVE  /\ \A q \in F : m.type[q] = "page" /\ m.next[q] # NULL /\ m.slab[q] = Run(len[q]) /\ m.slab[q].n = len[q]
         /\ \A q \in T : m.type[q] = "page" /\ m.next[q] = NULL /\ m.slab[q] = Start(len[q])
         /\ \A q \in C : m.type[q] # "page" /\ len[q] = 1
         /\ \A q \in LooseOf(z) : m.slab[q] = Run(len[q]) /\ m.slab[q].n = len[q]
  <1>1. /\ \A q \in F : OpenRun(m, q, len[q])
        /\ \A q \in T : TakenRun(m, q, len[q])
        /\ \A q \in C : len[q] = 1 /\ CutPage(m, q, m.slab[q].n)
        /\ \A q \in LooseOf(z) : LooseRun(m, q, len[q])
    BY DEF Laid, RunsOK, CutOK
  <1>2. \A q \in F : m.next[q] # NULL
    BY LaidFacts
  <1>3. \A q \in F : m.type[q] = "page" /\ m.slab[q] = Run(len[q]) /\ m.slab[q].n = len[q]
    BY <1>1 DEF OpenRun, LooseRun, Run
  <1>4. \A q \in T : m.type[q] = "page" /\ m.next[q] = NULL /\ m.slab[q] = Start(len[q])
    BY <1>1 DEF TakenRun, Blank
  <1>5. \A q \in C : m.type[q] # "page" /\ len[q] = 1
    BY <1>1, SizeFacts DEF CutPage
  <1>6. \A q \in LooseOf(z) : m.slab[q] = Run(len[q]) /\ m.slab[q].n = len[q]
    BY <1>1 DEF LooseRun, Run
  <1> QED
    BY <1>2, <1>3, <1>4, <1>5, <1>6

LEMMA SameStage ==
  ASSUME NEW m, NEW F, NEW T, NEW C, NEW z, NEW len, Laid(m, F, T, C, z, len)
  PROVE  Stage(m, m, T, C, F, z, len, F, z, len)
  BY DEF Stage

LEMMA JoinRightLaid ==
  ASSUME NEW m, NEW F, NEW T, NEW C, NEW p \in PageNos, NEW len, Laid(m, F, T, C, p, len),
         NEW u, u = JoinRight(m, p)
  PROVE  \E G \in SUBSET PageNos, ln \in [PageNos -> Nat] :
           Stage(m, u, T, C, F, p, len, G, p, ln) /\ p + ln[p] \notin G
  <1> DEFINE Ld == LeadersOf(F, T, C, p)
  <1>1. /\ m \in Mems /\ Tiling(Ld, len) /\ F \subseteq PageNos /\ T \subseteq PageNos /\ C \subseteq PageNos
        /\ len \in [PageNos -> Nat] /\ \A a, b \in F : a + len[a] # b
    BY LaidFacts DEF Laid, Placed, Tiling
  <1>2. LooseOf(p) = {p} /\ Ld = F \cup T \cup C \cup {p}
    BY DEF LeadersOf, LooseOf
  <1> HIDE DEF Ld
  <1>3. p \in Nat /\ len[p] \in Nat /\ len[p] >= 1 /\ p \in Ld
    BY <1>1, <1>2, TileTypes
  <1>4. m.slab[p].n = len[p]
    BY <1>2, RunShows
  <1>5. PICK q : q = p + len[p]
    OBVIOUS
  <1>6. q < Pages => q \in Ld /\ q # p
    BY <1>1, <1>3, <1>5, TileNext
  <1>7. CASE q \in F
    <2>1. m.type[q] = "page" /\ m.next[q] # NULL /\ m.slab[q].n = len[q]
      BY <1>7, RunShows
    <2>2. q < Pages
      BY <1>1, <1>7, NodeFacts
    <2>3. PICK k : k = len[p] + len[q]
      OBVIOUS
    <2>4. u = Joined(m, p, q, q, k)
      BY <1>4, <1>5, <2>1, <2>2, <2>3 DEF JoinRight, Joined
    <2>5. PICK ln \in [PageNos -> Nat] :
            Stage(m, u, T, C, F, p, len, F \ {q}, p, ln) /\ ln[p] = k /\ \A a \in F \ {q} : ln[a] = len[a]
      <3>1. JoinsTo(m, u, T, C, F, p, len, q, p, q, k)
        BY <1>5, <1>7, <2>3, <2>4, JoinLaid
      <3> QED
        BY <3>1 DEF JoinsTo
    <2>6. p + ln[p] \notin F \ {q}
      <3>1. len[q] \in Nat
        BY <1>1, <1>2, <1>7, TileTypes
      <3>2. p + ln[p] = q + len[q]
        BY <1>3, <1>5, <2>3, <2>5, <3>1
      <3> QED
        BY <1>1, <1>7, <3>2
    <2>7. F \ {q} \in SUBSET PageNos
      BY <1>1
    <2> QED
      BY <2>5, <2>6, <2>7
  <1>8. CASE q \notin F
    <2>1. q < Pages => q \in T \/ q \in C
      BY <1>2, <1>6, <1>8
    <2>2. ~(q < Pages /\ m.type[q] = "page" /\ m.next[q] # NULL)
      BY <2>1, RunShows
    <2>3. u = m
      BY <1>4, <1>5, <2>2 DEF JoinRight
    <2>4. Stage(m, m, T, C, F, p, len, F, p, len)
      BY SameStage
    <2> QED
      BY <1>1, <1>5, <1>8, <2>3, <2>4
  <1> QED
    BY <1>7, <1>8

(* The run to the left is found if it is free. *)
LEMMA FirstIs ==
  ASSUME NEW m, NEW F, NEW T, NEW C, NEW p \in PageNos, NEW len, Laid(m, F, T, C, p, len)
  PROVE  \/ First(m, p) = p /\ \A a \in F : a + len[a] # p
         \/ First(m, p) # p /\ First(m, p) \in F /\ First(m, p) + len[First(m, p)] = p
  <1> DEFINE Ld == LeadersOf(F, T, C, p)
  <1>1. /\ m \in Mems /\ Tiling(Ld, len) /\ F \subseteq PageNos /\ T \subseteq PageNos /\ C \subseteq PageNos
        /\ p \notin F \cup T \cup C /\ F \cap T = {} /\ F \cap C = {}
    BY LaidFacts
  <1>2. Ld = F \cup T \cup C \cup {p}
    BY DEF LeadersOf, LooseOf
  <1> HIDE DEF Ld
  <1>3. p \in Nat /\ p \in Ld /\ Pages \in Nat /\ p < Pages
    BY <1>1, <1>2, TileTypes, SlabAssumption
  <1>4. \A a \in F : a \in Nat /\ len[a] \in Nat /\ len[a] >= 1 /\ a # NULL
    BY <1>1, <1>2, TileTypes, NodeFacts
  <1>5. CASE p = 0
    <2>1. LeftOf(m, p) = NULL
      BY <1>5 DEF LeftOf
    <2>2. First(m, p) = p
      BY <2>1 DEF First
    <2>3. \A a \in F : a + len[a] # p
      BY <1>4, <1>5
    <2> QED
      BY <2>2, <2>3
  <1>6. CASE p > 0
    <2>1. PICK o : o = p - 1
      OBVIOUS
    <2>2. o \in Nat /\ o \in PageNos /\ o < p
      BY <1>3, <1>6, <2>1, NodeFacts
    <2>3. PICK a \in Ld : a <= o /\ o < a + len[a]
      BY <1>1, <2>2 DEF Tiling
    <2>4. a \in Nat /\ len[a] \in Nat /\ len[a] >= 1 /\ (p > a => p >= a + len[a])
      BY <1>1, <1>3, TileTypes
    <2>5. a + len[a] = p /\ a # p
      BY <1>3, <2>1, <2>2, <2>3, <2>4
    <2>6. \A b \in F : b + len[b] = p => b = a
      <3>1. ASSUME NEW b \in F, b + len[b] = p, b # a
            PROVE  FALSE
        <4>1. a + len[a] <= b \/ b + len[b] <= a
          BY <1>1, <1>2, <3>1, TileApart
        <4> QED
          BY <1>4, <2>4, <2>5, <3>1, <4>1
      <3> QED
        BY <3>1
    <2>7. a = o \/ o \in Inner(a, len[a])
      BY <2>1, <2>2, <2>3, <2>4, <2>5 DEF Inner
    <2>8. CASE a \in C
      <3>1. m.type[a] # "page" /\ len[a] = 1
        BY <2>8, RunShows
      <3>2. m.type[p - 1] # "page"
        BY <1>3, <2>4, <2>5, <3>1
      <3>3. LeftOf(m, p) = NULL
        BY <3>2 DEF LeftOf
      <3>4. First(m, p) = p
        BY <3>3 DEF First
      <3>5. a \notin F
        BY <1>1, <2>8
      <3> QED
        BY <2>6, <3>4, <3>5
    <2>9. CASE a \in T
      <3>1. TakenRun(m, a, len[a])
        BY <2>9 DEF Laid, RunsOK
      <3>2. m.type[o] = "page" /\ m.next[o] = NULL /\ (m.slab[o] = Start(len[a]) \/ m.slab[o] = RunTail)
        BY <2>7, <3>1 DEF TakenRun, Blank
      <3>3. m.slab[o] # Run(0)
        BY <3>2, FieldFacts DEF Run, Start
      <3>4. LeftOf(m, p) = o
        BY <1>6, <2>1, <3>2, <3>3 DEF LeftOf
      <3>5. First(m, p) = p
        BY <3>2, <3>4 DEF First
      <3>6. a \notin F
        BY <1>1, <2>9
      <3> QED
        BY <2>6, <3>5, <3>6
    <2>10. CASE a \in F
      <3>1. /\ OpenRun(m, a, len[a]) /\ m.type[a] = "page" /\ m.next[a] # NULL /\ m.slab[a] = Run(len[a])
        BY <2>10, RunShows DEF Laid, RunsOK
      <3>2. LeftOf(m, p) = a
        <4>1. CASE a = o
          <5>1. m.slab[o] # Run(0)
            BY <2>4, <3>1, <4>1, FieldFacts
          <5> QED
            BY <1>6, <2>1, <3>1, <4>1, <5>1 DEF LeftOf
        <4>2. CASE a # o
          <5>1. Blank(m, o, Run(0))
            BY <2>7, <3>1, <4>2 DEF OpenRun, LooseRun
          <5>2. len[a] > 1 /\ len[a] < Pages /\ a + len[a] - 1 = o
            BY <1>3, <2>1, <2>2, <2>4, <2>5, <4>2
          <5>3. m.prev[o] = a
            BY <3>1, <5>2 DEF OpenRun
          <5> QED
            BY <1>6, <2>1, <5>1, <5>3 DEF LeftOf, Blank
        <4> QED
          BY <4>1, <4>2
      <3>3. First(m, p) = a
        BY <1>4, <2>10, <3>1, <3>2 DEF First
      <3> QED
        BY <2>5, <2>10, <3>3
    <2> QED
      BY <1>2, <2>5, <2>8, <2>9, <2>10
  <1> QED
    BY <1>3, <1>5, <1>6

LEMMA JoinLeftLaid ==
  ASSUME NEW m, NEW F, NEW T, NEW C, NEW p \in PageNos, NEW len, Laid(m, F, T, C, p, len),
         p + len[p] \notin F, NEW u, u = JoinLeft(m, p), NEW f, f = First(m, p)
  PROVE  \E G \in SUBSET PageNos, ln \in [PageNos -> Nat] :
           /\ Stage(m, u, T, C, F, p, len, G, f, ln) /\ f \in PageNos
           /\ f + ln[f] \notin G /\ \A a \in G : a + ln[a] # f
  <1>1. /\ m \in Mems /\ F \subseteq PageNos /\ len \in [PageNos -> Nat] /\ \A a, b \in F : a + len[a] # b
    BY LaidFacts DEF Laid, Placed, Tiling
  <1>4. \/ First(m, p) = p /\ \A a \in F : a + len[a] # p
        \/ First(m, p) # p /\ First(m, p) \in F /\ First(m, p) + len[First(m, p)] = p
    BY FirstIs
  <1>2. CASE f = p
    <2>1. \A a \in F : a + len[a] # p
      BY <1>2, <1>4
    <2>2. u = m
      BY <1>2 DEF JoinLeft
    <2>3. Stage(m, m, T, C, F, p, len, F, p, len)
      BY SameStage
    <2> QED
      BY <1>1, <1>2, <2>1, <2>2, <2>3
  <1>3. CASE f # p
    <2>1. f \in F /\ f + len[f] = p
      BY <1>3, <1>4
    <2>2. m.slab[f].n = len[f] /\ m.slab[p].n = len[p]
      BY <2>1, RunShows DEF LooseOf
    <2>3. PICK k : k = len[f] + len[p]
      OBVIOUS
    <2>4. u = Joined(m, f, p, f, k)
      BY <1>3, <2>2, <2>3 DEF JoinLeft, Joined
    <2>5. PICK ln \in [PageNos -> Nat] :
            Stage(m, u, T, C, F, p, len, F \ {f}, f, ln) /\ ln[f] = k /\ \A a \in F \ {f} : ln[a] = len[a]
      <3>1. p = f + len[f]
        BY <2>1
      <3>2. JoinsTo(m, u, T, C, F, p, len, f, f, p, k)
        BY <2>1, <2>3, <2>4, <3>1, JoinLaid
      <3> QED
        BY <3>2 DEF JoinsTo
    <2>6. f + ln[f] \notin F \ {f}
      <3>1. f \in Nat /\ len[f] \in Nat /\ len[p] \in Nat
        BY <1>1, <2>1, NodeFacts
      <3>2. f + ln[f] = p + len[p]
        BY <2>1, <2>3, <2>5, <3>1
      <3> QED
        BY <3>2
    <2>7. \A a \in F \ {f} : a + ln[a] # f
      BY <1>1, <2>1, <2>5
    <2>8. F \ {f} \in SUBSET PageNos /\ f \in PageNos
      BY <1>1, <2>1
    <2> QED
      BY <2>5, <2>6, <2>7, <2>8
  <1> QED
    BY <1>2, <1>3

LEMMA PushLaid ==
  ASSUME NEW m, NEW F, NEW T, NEW C, NEW p \in PageNos, NEW len, Laid(m, F, T, C, p, len),
         p + len[p] \notin F, \A a \in F : a + len[a] # p, NEW u, u = Push(m, p)
  PROVE  Stage(m, u, T, C, F, p, len, F \cup {p}, NULL, len)
  <1> DEFINE Ld == LeadersOf(F, T, C, p)
  <1>1. /\ m \in Mems /\ Tiling(Ld, len)
        /\ F \subseteq PageNos /\ T \subseteq PageNos /\ C \subseteq PageNos
        /\ F \cap T = {} /\ F \cap C = {} /\ T \cap C = {} /\ p \notin F \cup T \cup C
        /\ FreeList \notin F /\ IsList(m.next, m.prev, FreeList, F)
        /\ m.next[FreeList] \in F \cup {FreeList} /\ m.next[FreeList] \in Nodes
    BY LaidFacts
  <1>2. LooseOf(p) = {p} /\ Ld = F \cup T \cup C \cup {p}
    BY DEF LeadersOf, LooseOf
  <1> HIDE DEF Ld
  <1>3. PICK n : n = len[p]
    OBVIOUS
  <1>4. PICK l : l = p + n - 1
    OBVIOUS
  <1>5. p \in Nat /\ p \in Nodes /\ p \in Ld /\ n \in Nat /\ n >= 1 /\ p + n <= Pages
    BY <1>1, <1>2, <1>3, TileTypes, NodeFacts
  <1>6. l \in Nat /\ l < Pages /\ l \in PageNos /\ l \in Nodes /\ (n > 1 => l \in Inner(p, n))
    BY <1>4, <1>5, NodeFacts, SlabAssumption DEF Inner
  <1>7. PICK f : f = m.next[FreeList]
    OBVIOUS
  <1>8. LooseRun(m, p, n) /\ m.slab[p].n = n
    <2>1. LooseRun(m, p, n)
      BY <1>2, <1>3 DEF Laid, RunsOK
    <2> QED
      BY <2>1 DEF LooseRun, Run
  <1>9. /\ u \in Mems /\ u.slab = m.slab
        /\ \A x \in Nodes : u.next[x] = IF x = FreeList THEN p ELSE IF x = p THEN f ELSE m.next[x]
        /\ \A x \in Nodes : u.prev[x] = IF x = f THEN p ELSE IF x = p THEN FreeList
                                        ELSE IF n > 1 /\ x = l THEN p ELSE m.prev[x]
        /\ \A x \in PageNos : /\ u.type[x] = IF x = p THEN "page" ELSE m.type[x]
                              /\ u.busy[x] = IF x = p THEN {} ELSE m.busy[x]
    <2>1. n > 1 => p + n - 1 \in PageNos
      BY <1>4, <1>6
    <2>2. m \in Mems /\ n \in Nat /\ m.slab[p].n = n /\ m.next[FreeList] \in Nodes
      BY <1>1, <1>5, <1>8
    <2> QED
      BY <1>4, <1>7, <2>1, <2>2, PushGives
  <1>10. PICK W : W = Reach(p, n)
    OBVIOUS
  <1>11. /\ W = {p} \cup Inner(p, n) /\ W \subseteq PageNos /\ W \cap (Ld \ {p}) = {}
         /\ (\A y \in Inner(p, n) : y \notin Ld)
         /\ \A y \in Ld \ {p} : Reach(y, len[y]) \cap W = {}
    BY <1>1, <1>2, <1>3, <1>10, ReachFacts
  <1>12. PICK N : N = {FreeList, f}
    OBVIOUS
  <1>13. N \subseteq F \cup {FreeList} /\ N \cap PageNos \subseteq F \cup C /\ C \cap N = {} /\ p \notin N
    BY <1>1, <1>7, <1>12, NodeFacts
  <1>14. SameBut(u, m, N, W)
    <2>1. p \in W /\ (n > 1 => l \in W)
      BY <1>6, <1>11
    <2> QED
      BY <1>9, <1>12, <2>1 DEF SameBut
  <1>15. /\ \A y \in F : OpenRun(u, y, len[y])
         /\ \A y \in T : TakenRun(u, y, len[y])
         /\ \A y \in C : /\ len[y] = 1 /\ CutPage(u, y, u.slab[y].n)
                         /\ u.slab[y] = m.slab[y] /\ u.busy[y] = m.busy[y]
    <2>0. PICK B : B = {p}
      OBVIOUS
    <2>1. \A y \in LeadersOf(F, T, C, p) \ B : Reach(y, len[y]) \cap W = {}
      BY <1>11, <2>0 DEF Ld
    <2>2. \A y \in C \cap N : m.busy[y] # Whole(m.slab[y].n)
      BY <1>13
    <2>3. N \cap PageNos \subseteq F \cup C
      BY <1>13
    <2>4. /\ \A y \in F \ B : OpenRun(u, y, len[y])
          /\ \A y \in T \ B : TakenRun(u, y, len[y])
          /\ \A y \in C \ B : /\ len[y] = 1 /\ CutPage(u, y, u.slab[y].n)
                               /\ u.slab[y] = m.slab[y] /\ u.busy[y] = m.busy[y]
      BY <1>14, <2>1, <2>2, <2>3, Elsewhere
    <2>5. F \subseteq F \ B /\ T \subseteq T \ B /\ C \subseteq C \ B
      BY <1>1, <2>0
    <2> QED
      BY <2>4, <2>5
  <1>16. \A size \in Sizes : IsList(u.next, u.prev, Slot(size), Room(u, C, size))
    <2>1. C \cap W = {}
      BY <1>1, <1>2, <1>11
    <2>2. W \subseteq PageNos
      BY <1>11
    <2>3. N \subseteq F \cup {FreeList}
      BY <1>13
    <2> QED
      BY <1>14, <2>1, <2>2, <2>3, RowsElsewhere
  <1>17. OpenRun(u, p, n)
    <2>1. u.type[p] = "page" /\ u.slab[p] = Run(n)
      BY <1>8, <1>9 DEF LooseRun
    <2>2. ASSUME NEW y \in Inner(p, n)
          PROVE  Blank(u, y, Run(0))
      <3>1. y \in PageNos /\ y \in Nodes /\ y \notin Ld
        BY <1>11, <2>2, NodeFacts
      <3>2. y # FreeList /\ y # p /\ y # f
        BY <1>2, <1>5, <1>12, <1>13, <3>1, NodeFacts
      <3>3. u.type[y] = m.type[y] /\ u.slab[y] = m.slab[y] /\ u.next[y] = m.next[y]
        BY <1>9, <3>1, <3>2
      <3>4. Blank(m, y, Run(0))
        BY <1>8, <2>2 DEF LooseRun
      <3> QED
        BY <3>3, <3>4 DEF Blank
    <2>3. ASSUME n > 1
          PROVE  u.prev[l] = p
      <3>1. l # p
        BY <1>4, <1>5, <2>3
      <3> QED
        BY <1>6, <1>9, <2>3, <3>1
    <2> QED
      BY <1>4, <2>1, <2>2, <2>3 DEF OpenRun, LooseRun
  <1>18. PICK G : G = F \cup {p}
    OBVIOUS
  <1>19. IsList(u.next, u.prev, FreeList, G)
    <2>1. p \notin F /\ p # FreeList /\ FreeList \in Nodes /\ f # p
      BY <1>1, <1>12, <1>13, NodeFacts
    <2>2. \A x \in F : x \in Nodes /\ x # FreeList /\ x # p /\ ~(n > 1 /\ x = l)
      BY <1>1, <1>2, <1>6, <1>11, NodeFacts
    <2>3. u.next[FreeList] = p /\ u.next[p] = m.next[FreeList] /\ u.prev[p] = FreeList
      BY <1>5, <1>7, <1>9, <2>1
    <2>4. \A x \in F : u.next[x] = m.next[x]
      BY <1>9, <2>2
    <2>5. \A x \in F : u.prev[x] = IF x = m.next[FreeList] THEN p ELSE m.prev[x]
      BY <1>7, <1>9, <2>2
    <2>6. p \notin F /\ p # FreeList /\ FreeList \notin F /\ IsList(m.next, m.prev, FreeList, F)
      BY <1>1, <2>1
    <2>7. PICK nx, pv, nw, pw : nx = m.next /\ pv = m.prev /\ nw = u.next /\ pw = u.prev
      OBVIOUS
    <2>8. nw[FreeList] = p /\ nw[p] = nx[FreeList] /\ pw[p] = FreeList
      BY <2>3, <2>7
    <2>9. \A x \in F : nw[x] = nx[x]
      BY <2>4, <2>7
    <2>10. \A x \in F : pw[x] = IF x = nx[FreeList] THEN p ELSE pv[x]
      BY <2>5, <2>7
    <2>11. IsList(nx, pv, FreeList, F)
      BY <2>6, <2>7
    <2>12. IsList(nw, pw, FreeList, F \cup {p})
      BY <2>6, <2>8, <2>9, <2>10, <2>11, ListPush
    <2> QED
      BY <1>18, <2>7, <2>12
  <1>20. LooseOf(NULL) = {}
    BY NodeFacts DEF LooseOf
  <1>21. Placed(G, T, C, NULL, len)
    <2>1. LeadersOf(G, T, C, NULL) = Ld
      BY <1>2, <1>18, <1>20 DEF LeadersOf
    <2>2. /\ G \subseteq PageNos /\ T \subseteq PageNos /\ C \subseteq PageNos
          /\ G \cap T = {} /\ G \cap C = {} /\ T \cap C = {} /\ NULL \notin G \cup T \cup C
      BY <1>1, <1>18, NodeFacts
    <2>3. \A y, w \in G : y + len[y] # w
      <3>1. \A y, w \in F : y + len[y] # w
        BY DEF Laid, Placed
      <3>2. p + len[p] # p
        BY <1>3, <1>5
      <3> QED
        BY <1>18, <3>1, <3>2
    <2>4. Tiling(LeadersOf(G, T, C, NULL), len)
      BY <1>1, <2>1
    <2> QED
      BY <2>2, <2>3, <2>4, PlacedIs
  <1>22. RunsOK(u, G, T, NULL, len)
    BY <1>3, <1>15, <1>17, <1>18, <1>20 DEF RunsOK
  <1>23. CutOK(u, C, len)
    BY <1>15 DEF CutOK
  <1>24. Laid(u, G, T, C, NULL, len)
    BY <1>9, <1>16, <1>19, <1>21, <1>22, <1>23 DEF Laid, RowsOK
  <1>25. G \cup LooseOf(NULL) = F \cup LooseOf(p)
    BY <1>2, <1>18, <1>20
  <1>26. Stage(m, u, T, C, F, p, len, G, NULL, len)
    BY <1>15, <1>24, <1>25 DEF Stage
  <1> QED
    BY <1>18, <1>26

(* A run that was handed out is on its way back. *)
Loosened(m, p, n) == PlainAll([m EXCEPT !.slab[p] = Run(n)], p + 1 .. p + n - 1, Run(0))

LEMMA LooseRunLaid ==
  ASSUME NEW m, NEW F, NEW T, NEW C, NEW len, Laid(m, F, T, C, NULL, len), NEW p \in T, NEW n, n = len[p],
         NEW u, u = Loosened(m, p, n)
  PROVE  /\ Laid(u, F, T \ {p}, C, p, len) /\ \A r \in C : u.slab[r] = m.slab[r] /\ u.busy[r] = m.busy[r]
  <1> DEFINE Ld == LeadersOf(F, T, C, NULL)
  <1>1. /\ m \in Mems /\ Tiling(Ld, len)
        /\ F \subseteq PageNos /\ T \subseteq PageNos /\ C \subseteq PageNos
        /\ F \cap T = {} /\ F \cap C = {} /\ T \cap C = {}
        /\ FreeList \notin F /\ IsList(m.next, m.prev, FreeList, F)
    BY LaidFacts
  <1>2. LooseOf(NULL) = {} /\ Ld = F \cup T \cup C
    BY NodeFacts DEF LeadersOf, LooseOf
  <1> HIDE DEF Ld
  <1>3. /\ p \in PageNos /\ p \in Nodes /\ p \in Ld /\ p \in Nat /\ n \in Nat /\ n >= 1 /\ p + n <= Pages
        /\ n \in 0 .. Pages /\ 0 \in 0 .. Pages
    BY <1>1, <1>2, TileTypes, NodeFacts, SlabAssumption
  <1>4. Run(n) \in Fields /\ Run(0) \in Fields
    BY <1>3, FieldFacts
  <1>5. PICK a : a = [m EXCEPT !.slab[p] = Run(n)]
    OBVIOUS
  <1>6. /\ a \in Mems /\ a.next = m.next /\ a.prev = m.prev /\ a.type = m.type /\ a.busy = m.busy
        /\ \A y \in PageNos : a.slab[y] = IF y = p THEN Run(n) ELSE m.slab[y]
    BY <1>1, <1>3, <1>4, <1>5, SlabGives
  <1>7. PICK I : I = Inner(p, n)
    OBVIOUS
  <1>8. PICK s \in Fields : s = Run(0)
    BY <1>4
  <1>9. u = PlainAll(a, I, s)
    BY <1>5, <1>7, <1>8 DEF Inner, Loosened
  <1>10. /\ u \in Mems
         /\ \A x \in Nodes : u.next[x] = IF x \in I THEN NULL ELSE a.next[x]
         /\ \A x \in Nodes : u.prev[x] = IF x \in I THEN NULL ELSE a.prev[x]
         /\ \A x \in PageNos : /\ u.type[x] = IF x \in I THEN "page" ELSE a.type[x]
                               /\ u.slab[x] = IF x \in I THEN s ELSE a.slab[x]
                               /\ u.busy[x] = IF x \in I THEN {} ELSE a.busy[x]
    BY <1>6, <1>9, PlainAllGives
  <1>11. PICK W : W = Reach(p, n)
    OBVIOUS
  <1>12. /\ W = {p} \cup I /\ p \notin I /\ W \subseteq PageNos /\ W \cap (Ld \ {p}) = {}
         /\ \A y \in Ld \ {p} : Reach(y, len[y]) \cap W = {}
    BY <1>1, <1>3, <1>7, <1>11, ReachFacts
  <1>13. PICK N : N = {}
    OBVIOUS
  <1>14. SameBut(u, m, N, W)
    BY <1>6, <1>10, <1>12 DEF SameBut
  <1>15. /\ \A y \in F : OpenRun(u, y, len[y])
         /\ \A y \in T \ {p} : TakenRun(u, y, len[y])
         /\ \A y \in C : /\ len[y] = 1 /\ CutPage(u, y, u.slab[y].n)
                         /\ u.slab[y] = m.slab[y] /\ u.busy[y] = m.busy[y]
    <2>0. PICK B : B = {p}
      OBVIOUS
    <2>1. \A y \in LeadersOf(F, T, C, NULL) \ B : Reach(y, len[y]) \cap W = {}
      BY <1>12, <2>0 DEF Ld
    <2>2. \A y \in C \cap N : m.busy[y] # Whole(m.slab[y].n)
      BY <1>13
    <2>3. N \cap PageNos \subseteq F \cup C
      BY <1>13
    <2>4. /\ \A y \in F \ B : OpenRun(u, y, len[y])
          /\ \A y \in T \ B : TakenRun(u, y, len[y])
          /\ \A y \in C \ B : /\ len[y] = 1 /\ CutPage(u, y, u.slab[y].n)
                               /\ u.slab[y] = m.slab[y] /\ u.busy[y] = m.busy[y]
      BY <1>14, <2>1, <2>2, <2>3, Elsewhere
    <2>5. F \subseteq F \ B /\ C \subseteq C \ B
      BY <1>1, <2>0
    <2> QED
      BY <2>0, <2>4, <2>5
  <1>16. \A size \in Sizes : IsList(u.next, u.prev, Slot(size), Room(u, C, size))
    <2>1. C \cap W = {}
      BY <1>1, <1>2, <1>12
    <2>2. W \subseteq PageNos
      BY <1>12
    <2>3. N \subseteq F \cup {FreeList}
      BY <1>13
    <2> QED
      BY <1>14, <2>1, <2>2, <2>3, RowsElsewhere
  <1>17. IsList(u.next, u.prev, FreeList, F)
    <2>1. FreeList \in Nodes /\ FreeList \notin N \cup W /\ F \cap (N \cup W) = {}
      BY <1>1, <1>2, <1>12, <1>13, NodeFacts
    <2> QED
      BY <1>1, <1>14, <2>1, RowKept
  <1>18. LooseRun(u, p, n)
    <2>1. u.slab[p] = Run(n)
      BY <1>3, <1>6, <1>10, <1>12
    <2>2. TakenRun(m, p, n)
      BY DEF Laid, RunsOK
    <2>3. ASSUME NEW y \in Inner(p, n)
          PROVE  Blank(u, y, Run(0))
      <3>1. y \in I /\ y \in PageNos /\ y \in Nodes
        BY <1>7, <1>12, NodeFacts
      <3> QED
        BY <1>8, <1>10, <3>1 DEF Blank
    <2> QED
      BY <2>1, <2>3 DEF LooseRun
  <1>19. LooseOf(p) = {p}
    BY <1>3 DEF LooseOf
  <1>20. PICK U : U = T \ {p}
    OBVIOUS
  <1>21. Placed(F, U, C, p, len)
    <2>1. LeadersOf(F, U, C, p) = Ld
      BY <1>2, <1>19, <1>20 DEF LeadersOf
    <2>2. /\ F \subseteq PageNos /\ U \subseteq PageNos /\ C \subseteq PageNos
          /\ F \cap U = {} /\ F \cap C = {} /\ U \cap C = {} /\ p \notin F \cup U \cup C
      BY <1>1, <1>20
    <2>3. \A y, w \in F : y + len[y] # w
      BY DEF Laid, Placed
    <2>4. Tiling(LeadersOf(F, U, C, p), len)
      BY <1>1, <2>1
    <2> QED
      BY <2>2, <2>3, <2>4, PlacedIs
  <1>22. RunsOK(u, F, U, p, len)
    BY <1>15, <1>18, <1>19, <1>20 DEF RunsOK
  <1>23. CutOK(u, C, len)
    BY <1>15 DEF CutOK
  <1>24. Laid(u, F, U, C, p, len)
    BY <1>10, <1>16, <1>17, <1>21, <1>22, <1>23 DEF Laid, RowsOK
  <1> QED
    BY <1>15, <1>20, <1>24

(* A page of chunks that is in the list of its slot is on its way back. *)
LEMMA LoosePageLaid ==
  ASSUME NEW m, NEW F, NEW T, NEW C, NEW len, Laid(m, F, T, C, NULL, len),
         NEW size \in Sizes, NEW p \in Room(m, C, size), NEW u, u = Unlink(Loosened(m, p, 1), p)
  PROVE  /\ Laid(u, F, T, C \ {p}, p, len) /\ \A r \in C \ {p} : u.slab[r] = m.slab[r] /\ u.busy[r] = m.busy[r]
  <1> DEFINE Ld == LeadersOf(F, T, C, NULL)
             L == Room(m, C, size)
             h == Slot(size)
  <1>1. /\ m \in Mems /\ Tiling(Ld, len)
        /\ F \subseteq PageNos /\ T \subseteq PageNos /\ C \subseteq PageNos
        /\ F \cap T = {} /\ F \cap C = {} /\ T \cap C = {}
        /\ FreeList \notin F /\ IsList(m.next, m.prev, FreeList, F)
        /\ L \subseteq C /\ h \notin L /\ IsList(m.next, m.prev, h, L)
    BY LaidFacts
  <1>2. LooseOf(NULL) = {} /\ Ld = F \cup T \cup C
    BY NodeFacts DEF LeadersOf, LooseOf
  <1> HIDE DEF Ld
  <1>3. p \in C /\ p \in PageNos /\ p \in Nodes /\ p \in Ld /\ p \in Nat /\ len[p] = 1 /\ m.slab[p].n = size
    <2>1. p \in C /\ m.slab[p].n = size
      BY DEF Room
    <2>2. len[p] = 1
      BY <2>1 DEF Laid, CutOK
    <2> QED
      BY <1>1, <1>2, <2>1, <2>2, NodeFacts
  <1>4. h \in Nodes /\ h \notin PageNos /\ h # FreeList /\ h # NULL
    BY NodeFacts
  <1>5. /\ m.next[p] \in L \cup {h} /\ m.prev[p] \in L \cup {h} /\ m.next[p] # p /\ m.prev[p] # p
    BY <1>1, ListSteps
  <1>6. m.next[p] \in Nodes /\ m.prev[p] \in Nodes
    BY <1>1, <1>4, <1>5, NodeFacts
  <1> HIDE DEF L, h
  <1>7. Run(1) \in Fields /\ Run(0) \in Fields
    BY FieldFacts, SlabAssumption
  <1>8. PICK a : a = [m EXCEPT !.slab[p] = Run(1)]
    OBVIOUS
  <1>9. /\ a \in Mems /\ a.next = m.next /\ a.prev = m.prev /\ a.type = m.type /\ a.busy = m.busy
        /\ \A y \in PageNos : a.slab[y] = IF y = p THEN Run(1) ELSE m.slab[y]
    BY <1>1, <1>3, <1>7, <1>8, SlabGives
  <1>10. PICK I : I = p + 1 .. p + 1 - 1
    OBVIOUS
  <1>11. PICK s \in Fields : s = Run(0)
    BY <1>7
  <1>12. PICK b : b = Loosened(m, p, 1)
    OBVIOUS
  <1>13. b = PlainAll(a, I, s)
    BY <1>8, <1>10, <1>11, <1>12 DEF Loosened
  <1>14. I = {}
    BY <1>3, <1>10
  <1>15. /\ b \in Mems
         /\ \A x \in Nodes : b.next[x] = m.next[x] /\ b.prev[x] = m.prev[x]
         /\ \A x \in PageNos : /\ b.type[x] = m.type[x] /\ b.busy[x] = m.busy[x]
                               /\ b.slab[x] = IF x = p THEN Run(1) ELSE m.slab[x]
    <2>1. /\ b \in Mems
          /\ \A x \in Nodes : b.next[x] = IF x \in I THEN NULL ELSE a.next[x]
          /\ \A x \in Nodes : b.prev[x] = IF x \in I THEN NULL ELSE a.prev[x]
          /\ \A x \in PageNos : /\ b.type[x] = IF x \in I THEN "page" ELSE a.type[x]
                                /\ b.slab[x] = IF x \in I THEN s ELSE a.slab[x]
                                /\ b.busy[x] = IF x \in I THEN {} ELSE a.busy[x]
      BY <1>9, <1>13, PlainAllGives
    <2> QED
      BY <1>9, <1>14, <2>1
  <1>16. /\ u \in Mems /\ u.type = b.type /\ u.slab = b.slab /\ u.busy = b.busy
         /\ \A x \in Nodes : u.next[x] = IF x = b.prev[p] THEN b.next[p] ELSE b.next[x]
         /\ \A x \in Nodes : u.prev[x] = IF x = b.next[p] THEN b.prev[p] ELSE b.prev[x]
    <2>1. u = Unlink(b, p)
      BY <1>12
    <2>2. b \in Mems /\ p \in PageNos /\ b.prev[p] \in Nodes /\ b.next[p] \in Nodes
      BY <1>3, <1>6, <1>15
    <2> QED
      BY <2>1, <2>2, UnlinkGives
  <1>17. b.next[p] = m.next[p] /\ b.prev[p] = m.prev[p]
    BY <1>3, <1>15
  <1>18. PICK W : W = Reach(p, 1)
    OBVIOUS
  <1>19. W = {p} /\ \A y \in Ld \ {p} : Reach(y, len[y]) \cap W = {}
    <2>1. W = {p}
      BY <1>3, <1>18 DEF Reach
    <2> QED
      BY <1>1, <1>3, <1>18, <2>1, ReachFacts
  <1>20. PICK N : N = {m.prev[p], m.next[p]}
    OBVIOUS
  <1>21. /\ N \subseteq L \cup {h} /\ N \cap PageNos \subseteq C /\ p \notin N /\ F \cap N = {} /\ FreeList \notin N
    BY <1>1, <1>4, <1>5, <1>20, NodeFacts
  <1>22. SameBut(u, m, N, W)
    BY <1>15, <1>16, <1>17, <1>19, <1>20 DEF SameBut
  <1>23. /\ \A y \in F : OpenRun(u, y, len[y])
         /\ \A y \in T : TakenRun(u, y, len[y])
         /\ \A y \in C \ {p} : /\ len[y] = 1 /\ CutPage(u, y, u.slab[y].n)
                               /\ u.slab[y] = m.slab[y] /\ u.busy[y] = m.busy[y]
    <2>0. PICK B : B = {p}
      OBVIOUS
    <2>1. \A y \in LeadersOf(F, T, C, NULL) \ B : Reach(y, len[y]) \cap W = {}
      BY <1>19, <2>0 DEF Ld
    <2>2. \A y \in C \cap N : m.busy[y] # Whole(m.slab[y].n)
      <3>1. \A y \in L : m.busy[y] # Whole(m.slab[y].n)
        BY DEF L, Room
      <3> QED
        BY <1>1, <1>4, <1>21, <3>1
    <2>3. N \cap PageNos \subseteq F \cup C
      BY <1>21
    <2>4. /\ \A y \in F \ B : OpenRun(u, y, len[y])
          /\ \A y \in T \ B : TakenRun(u, y, len[y])
          /\ \A y \in C \ B : /\ len[y] = 1 /\ CutPage(u, y, u.slab[y].n)
                               /\ u.slab[y] = m.slab[y] /\ u.busy[y] = m.busy[y]
      BY <1>22, <2>1, <2>2, <2>3, Elsewhere
    <2>5. F \subseteq F \ B /\ T \subseteq T \ B
      BY <1>1, <1>3, <2>0
    <2> QED
      BY <2>0, <2>4, <2>5
  <1>24. PICK D : D = C \ {p}
    OBVIOUS
  <1>25. \A other : Room(u, D, other) = Room(m, C, other) \ {p}
    BY <1>23, <1>24 DEF Room
  <1>26. ASSUME NEW other \in Sizes
         PROVE  IsList(u.next, u.prev, Slot(other), Room(u, D, other))
    <2>1. CASE other = size
      <3>1. \A x \in (L \cup {h}) \ {p} : x \in Nodes
        BY <1>1, <1>4, NodeFacts
      <3>2. \A x \in (L \cup {h}) \ {p} : u.next[x] = IF x = m.prev[p] THEN m.next[p] ELSE m.next[x]
        BY <1>15, <1>16, <1>17, <3>1
      <3>3. \A x \in L \ {p} : u.prev[x] = IF x = m.next[p] THEN m.prev[p] ELSE m.prev[x]
        BY <1>15, <1>16, <1>17, <3>1
      <3>4. p \in L /\ h \notin L /\ IsList(m.next, m.prev, h, L)
        BY <1>1 DEF L
      <3>5. IsList(u.next, u.prev, h, L \ {p})
        BY <3>2, <3>3, <3>4, ListUnlink
      <3>6. L \ {p} = Room(u, D, size)
        BY <1>25 DEF L
      <3> QED
        BY <2>1, <3>5, <3>6 DEF h
    <2>2. CASE other # size
      <3>1. PICK M : M = Room(m, C, other)
        OBVIOUS
      <3>2. M \subseteq C /\ IsList(m.next, m.prev, Slot(other), M)
        BY <3>1, LaidFacts
      <3>3. /\ Slot(other) \in Nodes /\ Slot(other) \notin PageNos /\ Slot(other) # h
        BY <2>2, NodeFacts DEF h
      <3>4. M \cap L = {} /\ p \in L
        BY <2>2, <3>1 DEF Room, L
      <3>5. M \subseteq PageNos /\ M \cap (N \cup W) = {} /\ Slot(other) \notin N \cup W
        BY <1>1, <1>3, <1>4, <1>19, <1>21, <3>2, <3>3, <3>4
      <3>6. IsList(u.next, u.prev, Slot(other), M)
        BY <1>22, <3>2, <3>3, <3>5, RowKept
      <3>7. M = Room(u, D, other)
        BY <1>25, <3>1, <3>4
      <3> QED
        BY <3>6, <3>7
    <2> QED
      BY <2>1, <2>2
  <1>27. IsList(u.next, u.prev, FreeList, F)
    <2>1. FreeList \in Nodes /\ FreeList \notin N \cup W /\ F \cap (N \cup W) = {}
      BY <1>1, <1>3, <1>19, <1>21, NodeFacts
    <2> QED
      BY <1>1, <1>22, <2>1, RowKept
  <1>28. LooseRun(u, p, 1)
    <2>1. u.slab[p] = Run(1)
      BY <1>3, <1>15, <1>16
    <2>2. Inner(p, 1) = {}
      BY <1>3 DEF Inner
    <2> QED
      BY <2>1, <2>2 DEF LooseRun
  <1>29. LooseOf(p) = {p}
    BY <1>3 DEF LooseOf
  <1>30. Placed(F, T, D, p, len)
    <2>1. LeadersOf(F, T, D, p) = Ld
      BY <1>2, <1>3, <1>24, <1>29 DEF LeadersOf
    <2>2. /\ F \subseteq PageNos /\ T \subseteq PageNos /\ D \subseteq PageNos
          /\ F \cap T = {} /\ F \cap D = {} /\ T \cap D = {} /\ p \notin F \cup T \cup D
      BY <1>1, <1>3, <1>24
    <2>3. \A y, w \in F : y + len[y] # w
      BY DEF Laid, Placed
    <2>4. Tiling(LeadersOf(F, T, D, p), len)
      BY <1>1, <2>1
    <2> QED
      BY <2>2, <2>3, <2>4, PlacedIs
  <1>31. RunsOK(u, F, T, p, len)
    BY <1>3, <1>23, <1>28, <1>29 DEF RunsOK
  <1>32. CutOK(u, D, len)
    BY <1>23, <1>24 DEF CutOK
  <1>33. Laid(u, F, T, D, p, len)
    BY <1>16, <1>26, <1>27, <1>30, <1>31, <1>32 DEF Laid, RowsOK
  <1> QED
    BY <1>23, <1>24, <1>33

(* The rest of the call. *)
LEMMA GiveBackLaid ==
  ASSUME NEW a, NEW F, NEW T, NEW C, NEW p \in PageNos, NEW len, Laid(a, F, T, C, p, len),
         NEW r, r = JoinRight(a, p), NEW t, t = Push(JoinLeft(r, p), First(r, p))
  PROVE  \E G \in SUBSET PageNos, ln \in [PageNos -> Nat] : Stage(a, t, T, C, F, p, len, G, NULL, ln)
  <1>1. PICK F1 \in SUBSET PageNos, l1 \in [PageNos -> Nat] :
          Stage(a, r, T, C, F, p, len, F1, p, l1) /\ p + l1[p] \notin F1
    BY JoinRightLaid
  <1>2. Laid(r, F1, T, C, p, l1)
    BY <1>1 DEF Stage
  <1>3. PICK f : f = First(r, p)
    OBVIOUS
  <1>4. PICK j : j = JoinLeft(r, p)
    OBVIOUS
  <1>5. PICK F2 \in SUBSET PageNos, l2 \in [PageNos -> Nat] :
          /\ Stage(r, j, T, C, F1, p, l1, F2, f, l2) /\ f \in PageNos
          /\ f + l2[f] \notin F2 /\ \A x \in F2 : x + l2[x] # f
    BY <1>1, <1>2, <1>3, <1>4, JoinLeftLaid
  <1>6. Laid(j, F2, T, C, f, l2)
    BY <1>5 DEF Stage
  <1>7. t = Push(j, f)
    BY <1>3, <1>4
  <1>8. Stage(j, t, T, C, F2, f, l2, F2 \cup {f}, NULL, l2)
    BY <1>5, <1>6, <1>7, PushLaid
  <1>9. PICK G \in SUBSET PageNos : G = F2 \cup {f}
    BY <1>5
  <1>10. Stage(a, t, T, C, F, p, len, G, NULL, l2)
    BY <1>1, <1>5, <1>8, <1>9 DEF Stage
  <1> QED
    BY <1>10

(* The pages of the run p are free, and nothing else changed. *)
FreedTo(m, t, F, T, C, len, p) ==
  \E G \in SUBSET PageNos, ln \in [PageNos -> Nat] :
    /\ Laid(t, G, T \ {p}, C \ {p}, NULL, ln) /\ \A r \in (T \cup C) \ {p} : ln[r] = len[r]
    /\ OpenPages(G, ln) = OpenPages(F, len) \cup Reach(p, len[p])
    /\ \A r \in C \ {p} : t.slab[r] = m.slab[r] /\ t.busy[r] = m.busy[r]

LEMMA OpenAndLoose ==
  ASSUME NEW m, NEW F, NEW T, NEW C, NEW p \in PageNos, NEW len, Laid(m, F, T, C, p, len)
  PROVE  OpenPages(F \cup LooseOf(p), len) = OpenPages(F, len) \cup Reach(p, len[p])
  <1> DEFINE Ld == LeadersOf(F, T, C, p)
  <1>1. Tiling(Ld, len)
    BY LaidFacts
  <1>2. LooseOf(p) = {p} /\ F \subseteq Ld /\ F \cup {p} \subseteq Ld
    BY DEF LeadersOf, LooseOf
  <1> HIDE DEF Ld
  <1>3. OpenPages(F \cup {p}, len) = UNION {Reach(x, len[x]) : x \in F \cup {p}}
    BY <1>1, <1>2, OpenFacts
  <1>4. OpenPages(F, len) = UNION {Reach(x, len[x]) : x \in F}
    BY <1>1, <1>2, OpenFacts
  <1> QED
    BY <1>2, <1>3, <1>4

LEMMA FreeRunLaid ==
  ASSUME NEW m, NEW F, NEW T, NEW C, NEW len, Laid(m, F, T, C, NULL, len), NEW p \in T
  PROVE  FreedTo(m, FreePages(m, p, len[p]), F, T, C, len, p)
  <1>1. PICK n : n = len[p]
    OBVIOUS
  <1>2. PICK a : a = Loosened(m, p, n)
    OBVIOUS
  <1>3. PICK U : U = T \ {p}
    OBVIOUS
  <1>4. Laid(a, F, U, C, p, len) /\ \A r \in C : a.slab[r] = m.slab[r] /\ a.busy[r] = m.busy[r]
    BY <1>1, <1>2, <1>3, LooseRunLaid
  <1>5. m.next[p] = NULL
    BY RunShows
  <1>6. PICK r : r = JoinRight(a, p)
    OBVIOUS
  <1>7. PICK t : t = Push(JoinLeft(r, p), First(r, p))
    OBVIOUS
  <1>8. t = FreePages(m, p, n)
    BY <1>2, <1>5, <1>6, <1>7 DEF FreePages, Loosened
  <1>9. p \in PageNos /\ p \notin C
    BY LaidFacts
  <1>10. PICK G \in SUBSET PageNos, ln \in [PageNos -> Nat] : Stage(a, t, U, C, F, p, len, G, NULL, ln)
    BY <1>4, <1>6, <1>7, <1>9, GiveBackLaid
  <1>11. LooseOf(NULL) = {}
    BY NodeFacts DEF LooseOf
  <1>12. OpenPages(F \cup LooseOf(p), len) = OpenPages(F, len) \cup Reach(p, len[p])
    BY <1>4, <1>9, OpenAndLoose
  <1>13. OpenPages(G, ln) = OpenPages(F, len) \cup Reach(p, len[p])
    <2>1. OpenPages(G \cup LooseOf(NULL), ln) = OpenPages(F \cup LooseOf(p), len)
      BY <1>10 DEF Stage
    <2>2. G \cup LooseOf(NULL) = G
      BY <1>11
    <2> QED
      BY <1>12, <2>1, <2>2
  <1>14. C \ {p} = C
    BY <1>9
  <1>15. /\ Laid(t, G, U, C, NULL, ln) /\ (\A x \in U \cup C : ln[x] = len[x])
         /\ \A x \in C : t.slab[x] = m.slab[x] /\ t.busy[x] = m.busy[x]
    BY <1>4, <1>10 DEF Stage
  <1>16. FreedTo(m, t, F, T, C, len, p)
    BY <1>3, <1>13, <1>14, <1>15 DEF FreedTo
  <1> QED
    BY <1>1, <1>8, <1>16

LEMMA FreePageLaid ==
  ASSUME NEW m, NEW F, NEW T, NEW C, NEW len, Laid(m, F, T, C, NULL, len),
         NEW size \in Sizes, NEW p \in Room(m, C, size)
  PROVE  FreedTo(m, FreePages(m, p, 1), F, T, C, len, p)
  <1>1. PICK a : a = Unlink(Loosened(m, p, 1), p)
    OBVIOUS
  <1>2. PICK D : D = C \ {p}
    OBVIOUS
  <1>3. Laid(a, F, T, D, p, len) /\ \A r \in D : a.slab[r] = m.slab[r] /\ a.busy[r] = m.busy[r]
    BY <1>1, <1>2, LoosePageLaid
  <1>4. /\ p \in C /\ C \subseteq PageNos /\ T \cap C = {} /\ Slot(size) \notin Room(m, C, size)
        /\ IsList(m.next, m.prev, Slot(size), Room(m, C, size))
    BY LaidFacts DEF Room
  <1>5. m.next[p] # NULL
    <2>1. m.next[p] \in Room(m, C, size) \cup {Slot(size)}
      BY <1>4, ListSteps
    <2>2. Room(m, C, size) \subseteq PageNos
      BY <1>4 DEF Room
    <2> QED
      BY <2>1, <2>2, NodeFacts
  <1>6. PICK r : r = JoinRight(a, p)
    OBVIOUS
  <1>7. PICK t : t = Push(JoinLeft(r, p), First(r, p))
    OBVIOUS
  <1>8. t = FreePages(m, p, 1)
    BY <1>1, <1>5, <1>6, <1>7 DEF FreePages, Loosened
  <1>9. p \in PageNos /\ p \notin T
    BY <1>4
  <1>10. PICK G \in SUBSET PageNos, ln \in [PageNos -> Nat] : Stage(a, t, T, D, F, p, len, G, NULL, ln)
    BY <1>3, <1>6, <1>7, <1>9, GiveBackLaid
  <1>11. LooseOf(NULL) = {}
    BY NodeFacts DEF LooseOf
  <1>12. OpenPages(F \cup LooseOf(p), len) = OpenPages(F, len) \cup Reach(p, len[p])
    BY <1>3, <1>9, OpenAndLoose
  <1>13. OpenPages(G, ln) = OpenPages(F, len) \cup Reach(p, len[p])
    <2>1. OpenPages(G \cup LooseOf(NULL), ln) = OpenPages(F \cup LooseOf(p), len)
      BY <1>10 DEF Stage
    <2>2. G \cup LooseOf(NULL) = G
      BY <1>11
    <2> QED
      BY <1>12, <2>1, <2>2
  <1>14. T \ {p} = T
    BY <1>9
  <1>15. /\ Laid(t, G, T, D, NULL, ln) /\ (\A x \in T \cup D : ln[x] = len[x])
         /\ \A x \in D : t.slab[x] = m.slab[x] /\ t.busy[x] = m.busy[x]
    BY <1>3, <1>10 DEF Stage
  <1>16. FreedTo(m, t, F, T, C, len, p)
    BY <1>2, <1>13, <1>14, <1>15 DEF FreedTo
  <1> QED
    BY <1>8, <1>16

-----------------------------------------------------------------------------
(* Chunks. *)

(* A call that touches one page of chunks and the list of its slot. *)
LEMMA ChunksLaid ==
  ASSUME NEW m, NEW F, NEW T, NEW C, NEW len, Laid(m, F, T, C, NULL, len),
         NEW size \in Sizes, NEW p \in C, m.slab[p].n = size, NEW u \in Mems, NEW N,
         NEW W, W = {p}, SameBut(u, m, N, W), N \subseteq Room(m, C, size) \cup {Slot(size)},
         u.slab[p] = m.slab[p], CutPage(u, p, size),
         IsList(u.next, u.prev, Slot(size), Room(u, C, size))
  PROVE  /\ Laid(u, F, T, C, NULL, len)
         /\ \A r \in C : u.slab[r] = m.slab[r] /\ (r # p => u.busy[r] = m.busy[r])
  <1> DEFINE Ld == LeadersOf(F, T, C, NULL)
             L == Room(m, C, size)
  <1>1. /\ Tiling(Ld, len) /\ F \subseteq PageNos /\ T \subseteq PageNos /\ C \subseteq PageNos
        /\ F \cap T = {} /\ F \cap C = {} /\ T \cap C = {}
        /\ IsList(m.next, m.prev, FreeList, F) /\ L \subseteq C
    BY LaidFacts
  <1>2. C \subseteq Ld /\ p \in PageNos /\ p \in Nat /\ len[p] = 1
    <2>1. len[p] = 1
      BY DEF Laid, CutOK
    <2> QED
      BY <1>1, <2>1, NodeFacts DEF LeadersOf
  <1>3. /\ Slot(size) \in Nodes /\ Slot(size) \notin PageNos /\ Slot(size) # FreeList
        /\ FreeList \in Nodes /\ FreeList \notin PageNos
    BY NodeFacts
  <1>4. /\ N \subseteq L \cup {Slot(size)} /\ N \cap PageNos \subseteq F \cup C /\ F \cap N = {} /\ FreeList \notin N
        /\ \A r \in C \cap N : m.busy[r] # Whole(m.slab[r].n)
    <2>1. \A r \in L : m.busy[r] # Whole(m.slab[r].n)
      BY DEF Room
    <2>2. N \subseteq L \cup {Slot(size)}
      OBVIOUS
    <2> HIDE DEF L
    <2> QED
      BY <1>1, <1>3, <2>1, <2>2
  <1> HIDE DEF L
  <1>5. \A y \in Ld \ {p} : Reach(y, len[y]) \cap W = {}
    <2>1. W = Reach(p, len[p])
      BY <1>2 DEF Reach
    <2> QED
      BY <1>1, <1>2, <2>1, ReachFacts
  <1> HIDE DEF Ld
  <1>6. /\ \A y \in F : OpenRun(u, y, len[y])
        /\ \A y \in T : TakenRun(u, y, len[y])
        /\ \A y \in C \ {p} : /\ len[y] = 1 /\ CutPage(u, y, u.slab[y].n)
                              /\ u.slab[y] = m.slab[y] /\ u.busy[y] = m.busy[y]
    <2>0. PICK B : B = {p}
      OBVIOUS
    <2>1. \A y \in LeadersOf(F, T, C, NULL) \ B : Reach(y, len[y]) \cap W = {}
      BY <1>5, <2>0 DEF Ld
    <2>2. \A y \in C \cap N : m.busy[y] # Whole(m.slab[y].n)
      BY <1>4
    <2>3. N \cap PageNos \subseteq F \cup C
      BY <1>4
    <2>4. /\ \A y \in F \ B : OpenRun(u, y, len[y])
          /\ \A y \in T \ B : TakenRun(u, y, len[y])
          /\ \A y \in C \ B : /\ len[y] = 1 /\ CutPage(u, y, u.slab[y].n)
                               /\ u.slab[y] = m.slab[y] /\ u.busy[y] = m.busy[y]
      BY <2>1, <2>2, <2>3, Elsewhere
    <2>5. F \subseteq F \ B /\ T \subseteq T \ B
      BY <1>1, <2>0
    <2> QED
      BY <2>0, <2>4, <2>5
  <1>7. \A r \in C : u.slab[r] = m.slab[r] /\ (r # p => u.busy[r] = m.busy[r])
    BY <1>6
  <1>8. CutOK(u, C, len)
    BY <1>2, <1>6 DEF CutOK
  <1>9. ASSUME NEW other \in Sizes
        PROVE  IsList(u.next, u.prev, Slot(other), Room(u, C, other))
    <2>1. CASE other = size
      BY <2>1
    <2>2. CASE other # size
      <3>1. PICK M : M = Room(m, C, other)
        OBVIOUS
      <3>2. M \subseteq C /\ IsList(m.next, m.prev, Slot(other), M)
        BY <3>1, LaidFacts
      <3>3. Slot(other) \in Nodes /\ Slot(other) \notin PageNos /\ Slot(other) # Slot(size)
        BY <2>2, NodeFacts
      <3>4. M \cap L = {} /\ p \notin M
        BY <2>2, <3>1 DEF Room, L
      <3>5. M \subseteq PageNos /\ M \cap (N \cup W) = {} /\ Slot(other) \notin N \cup W
        BY <1>1, <1>2, <1>3, <1>4, <3>2, <3>3, <3>4
      <3>6. IsList(u.next, u.prev, Slot(other), M)
        BY <3>2, <3>3, <3>5, RowKept
      <3>7. M = Room(u, C, other)
        BY <1>7, <2>2, <3>1 DEF Room
      <3> QED
        BY <3>6, <3>7
    <2> QED
      BY <2>1, <2>2
  <1>10. IsList(u.next, u.prev, FreeList, F)
    <2>1. FreeList \notin N \cup W /\ F \cap (N \cup W) = {}
      BY <1>1, <1>2, <1>3, <1>4
    <2> QED
      BY <1>1, <1>3, <2>1, RowKept
  <1>11. RunsOK(u, F, T, NULL, len) /\ Placed(F, T, C, NULL, len)
    <2>1. LooseOf(NULL) = {}
      BY NodeFacts DEF LooseOf
    <2>2. Placed(F, T, C, NULL, len)
      BY DEF Laid
    <2> QED
      BY <1>6, <2>1, <2>2 DEF RunsOK
  <1> QED
    BY <1>7, <1>8, <1>9, <1>10, <1>11 DEF Laid, RowsOK

LEMMA WholeFacts ==
  ASSUME NEW size \in Sizes
  PROVE  Whole(size) \in Bits /\ \A s : s \subseteq Whole(size) => s \in Bits
  <1>1. NumberOf(size) \in Nat /\ NumberOf(size) <= PageSize
    BY SizeFacts
  <1>2. \A c \in Whole(size) : c \in 0 .. PageSize
    BY <1>1, SlabAssumption DEF Whole
  <1> QED
    BY <1>2 DEF Bits

(* One more chunk of a page is handed out. *)
Marked(m, p, bs) == [m EXCEPT !.busy[p] = bs]
MarkedTo(m, u, F, T, C, len, p, bs) ==
  /\ Laid(u, F, T, C, NULL, len) /\ \A r \in C : u.slab[r] = m.slab[r]
  /\ u.busy[p] = bs /\ \A r \in C : r # p => u.busy[r] = m.busy[r]

LEMMA TakeChunkLaid ==
  ASSUME NEW m, NEW F, NEW T, NEW C, NEW len, Laid(m, F, T, C, NULL, len),
         NEW size \in Sizes, NEW p \in Room(m, C, size), NEW bs, m.busy[p] \subseteq bs, bs \subseteq Whole(size)
  PROVE  MarkedTo(m, DropFull(Marked(m, p, bs), p, size), F, T, C, len, p, bs)
  <1> DEFINE L == Room(m, C, size)
             h == Slot(size)
  <1>1. /\ m \in Mems /\ C \subseteq PageNos /\ L \subseteq C /\ h \notin L /\ IsList(m.next, m.prev, h, L)
    BY LaidFacts
  <1>2. /\ p \in C /\ p \in PageNos /\ p \in Nodes /\ m.slab[p].n = size /\ m.busy[p] # Whole(size)
        /\ CutPage(m, p, size)
    <2>1. p \in C /\ m.slab[p].n = size /\ m.busy[p] # Whole(size)
      BY DEF Room
    <2>2. CutPage(m, p, m.slab[p].n)
      BY <2>1 DEF Laid, CutOK
    <2> QED
      BY <1>1, <2>1, <2>2, NodeFacts
  <1>3. h \in Nodes /\ h \notin PageNos /\ h # NULL
    BY NodeFacts
  <1>4. /\ m.next[p] \in L \cup {h} /\ m.prev[p] \in L \cup {h} /\ m.next[p] # p /\ m.prev[p] # p
    BY <1>1, ListSteps
  <1>5. m.next[p] \in Nodes /\ m.prev[p] \in Nodes
    BY <1>1, <1>3, <1>4, NodeFacts
  <1>6. bs \subseteq Whole(size) /\ bs \in Bits /\ 0 .. Reserved(size) - 1 \subseteq bs
    BY <1>2, WholeFacts DEF CutPage
  <1> HIDE DEF h, L
  <1>0. PICK u : u = DropFull(Marked(m, p, bs), p, size)
    OBVIOUS
  <1>7. PICK a : a = Marked(m, p, bs)
    OBVIOUS
  <1>8. /\ a \in Mems /\ a.next = m.next /\ a.prev = m.prev /\ a.type = m.type /\ a.slab = m.slab
        /\ \A y \in PageNos : a.busy[y] = IF y = p THEN bs ELSE m.busy[y]
    <2>1. m \in Mems /\ p \in PageNos /\ bs \in Bits
      BY <1>1, <1>2, <1>6
    <2>2. a = [m EXCEPT !.busy[p] = bs]
      BY <1>7 DEF Marked
    <2> QED
      BY <2>1, <2>2, BusyGives
  <1>9. PICK W : W = {p}
    OBVIOUS
  <1>10. a.busy[p] = bs
    BY <1>2, <1>8
  <1>11. CASE bs # Whole(size)
    <2>1. u = a
      BY <1>0, <1>7, <1>10, <1>11 DEF DropFull
    <2>2. PICK N : N = {}
      OBVIOUS
    <2>3. SameBut(u, m, N, W)
      BY <1>8, <1>9, <2>1 DEF SameBut
    <2>4. CutPage(u, p, size)
      BY <1>2, <1>6, <1>8, <1>10, <1>11, <2>1 DEF CutPage
    <2>5. Room(u, C, size) = L
      BY <1>1, <1>2, <1>8, <1>10, <1>11, <2>1 DEF Room, L
    <2>6. IsList(u.next, u.prev, Slot(size), Room(u, C, size))
      BY <1>1, <1>8, <2>1, <2>5 DEF h
    <2>7. N \subseteq Room(m, C, size) \cup {Slot(size)} /\ u.slab[p] = m.slab[p] /\ u \in Mems
      BY <1>8, <2>1, <2>2
    <2>8. /\ Laid(u, F, T, C, NULL, len)
          /\ \A r \in C : u.slab[r] = m.slab[r] /\ (r # p => u.busy[r] = m.busy[r])
      <3>1. p \in C /\ m.slab[p].n = size
        BY <1>2
      <3>2. N \subseteq Room(m, C, size) \cup {Slot(size)}
        BY <2>7
      <3>3. u.slab[p] = m.slab[p] /\ u \in Mems
        BY <2>7
      <3> QED
        BY <1>9, <2>3, <2>4, <2>6, <3>1, <3>2, <3>3, ChunksLaid
    <2> QED
      BY <1>0, <1>10, <2>1, <2>8 DEF MarkedTo
  <1>12. CASE bs = Whole(size)
    <2>1. PICK b : b = Unlink(a, p)
      OBVIOUS
    <2>2. /\ b \in Mems /\ b.type = m.type /\ b.slab = m.slab /\ b.busy = a.busy
          /\ \A x \in Nodes : b.next[x] = IF x = m.prev[p] THEN m.next[p] ELSE m.next[x]
          /\ \A x \in Nodes : b.prev[x] = IF x = m.next[p] THEN m.prev[p] ELSE m.prev[x]
      <3>1. a.prev[p] \in Nodes /\ a.next[p] \in Nodes
        BY <1>5, <1>8
      <3>2. /\ b \in Mems /\ b.type = a.type /\ b.slab = a.slab /\ b.busy = a.busy
            /\ \A x \in Nodes : b.next[x] = IF x = a.prev[p] THEN a.next[p] ELSE a.next[x]
            /\ \A x \in Nodes : b.prev[x] = IF x = a.next[p] THEN a.prev[p] ELSE a.prev[x]
        BY <1>2, <1>8, <2>1, <3>1, UnlinkGives
      <3> QED
        BY <1>8, <3>2
    <2>3. PICK d : d = [b EXCEPT !.next[p] = NULL]
      OBVIOUS
    <2>4. /\ d \in Mems /\ d.prev = b.prev /\ d.type = b.type /\ d.slab = b.slab /\ d.busy = b.busy
          /\ \A x \in Nodes : d.next[x] = IF x = p THEN NULL ELSE b.next[x]
      BY <1>2, <2>2, <2>3, NextGives
    <2>5. u = [d EXCEPT !.prev[p] = NULL]
      BY <1>0, <1>7, <1>10, <1>12, <2>1, <2>3 DEF DropFull
    <2>6. /\ u \in Mems /\ u.next = d.next /\ u.type = d.type /\ u.slab = d.slab /\ u.busy = d.busy
          /\ \A x \in Nodes : u.prev[x] = IF x = p THEN NULL ELSE d.prev[x]
      <3>1. d \in Mems /\ p \in Nodes
        BY <1>2, <2>4
      <3>2. PICK w \in Nodes \cup {NULL} : w = NULL
        OBVIOUS
      <3>3. u = [d EXCEPT !.prev[p] = w]
        BY <2>5, <3>2
      <3>4. /\ u \in Mems /\ u.next = d.next /\ u.type = d.type /\ u.slab = d.slab /\ u.busy = d.busy
            /\ \A x \in Nodes : u.prev[x] = IF x = p THEN w ELSE d.prev[x]
        BY <3>1, <3>3, PrevGives
      <3> QED
        BY <3>2, <3>4
    <2>7. PICK N : N = {m.prev[p], m.next[p]}
      OBVIOUS
    <2>8. SameBut(u, m, N, W)
      <3>1. \A y \in PageNos \ W : u.slab[y] = m.slab[y] /\ u.type[y] = m.type[y] /\ u.busy[y] = m.busy[y]
        <4>1. u.slab = m.slab /\ u.type = m.type /\ u.busy = a.busy
          BY <2>2, <2>4, <2>6
        <4> QED
          BY <1>8, <1>9, <4>1
      <3>2. \A y \in Nodes \ (N \cup W) : u.next[y] = m.next[y]
        BY <1>9, <2>2, <2>4, <2>6, <2>7
      <3>3. \A y \in Nodes \ (N \cup W) : u.prev[y] = m.prev[y]
        BY <1>9, <2>2, <2>4, <2>6, <2>7
      <3> QED
        BY <3>1, <3>2, <3>3 DEF SameBut
    <2>9. u.busy[p] = bs /\ u.next[p] = NULL
      BY <1>2, <1>10, <2>2, <2>4, <2>6
    <2>10. CutPage(u, p, size)
      BY <1>2, <1>6, <2>2, <2>4, <2>6, <2>9 DEF CutPage
    <2>11. Room(u, C, size) = L \ {p}
      <3>1. u.slab = m.slab /\ u.busy = a.busy
        BY <2>2, <2>4, <2>6
      <3>2. \A y \in C : y # p => u.busy[y] = m.busy[y]
        BY <1>1, <1>8, <3>1
      <3>3. u.busy[p] = Whole(m.slab[p].n)
        BY <1>2, <1>12, <2>9
      <3> QED
        BY <3>1, <3>2, <3>3 DEF Room, L
    <2>12. IsList(u.next, u.prev, h, L \ {p})
      <3>1. \A x \in (L \cup {h}) \ {p} : x \in Nodes
        BY <1>1, <1>3, NodeFacts
      <3>2. \A x \in (L \cup {h}) \ {p} : u.next[x] = IF x = m.prev[p] THEN m.next[p] ELSE m.next[x]
        BY <2>2, <2>4, <2>6, <3>1
      <3>3. \A x \in L \ {p} : u.prev[x] = IF x = m.next[p] THEN m.prev[p] ELSE m.prev[x]
        BY <2>2, <2>4, <2>6, <3>1
      <3>4. p \in L /\ h \notin L /\ IsList(m.next, m.prev, h, L)
        BY <1>1 DEF L
      <3> QED
        <4>1. PICK M : M = L \ {p}
          OBVIOUS
        <4>2. IsList(u.next, u.prev, h, L \ {p})
          BY <3>2, <3>3, <3>4, ListUnlink
        <4> QED
          BY <4>2
    <2>13. IsList(u.next, u.prev, Slot(size), Room(u, C, size))
      BY <2>11, <2>12 DEF h
    <2>14. N \subseteq Room(m, C, size) \cup {Slot(size)} /\ u.slab[p] = m.slab[p] /\ u \in Mems
      BY <1>4, <2>2, <2>4, <2>6, <2>7 DEF L, h
    <2>15. /\ Laid(u, F, T, C, NULL, len)
           /\ \A r \in C : u.slab[r] = m.slab[r] /\ (r # p => u.busy[r] = m.busy[r])
      <3>1. p \in C /\ m.slab[p].n = size
        BY <1>2
      <3>2. N \subseteq Room(m, C, size) \cup {Slot(size)}
        BY <2>14
      <3>3. u.slab[p] = m.slab[p] /\ u \in Mems
        BY <2>14
      <3> QED
        BY <1>9, <2>8, <2>10, <2>13, <3>1, <3>2, <3>3, ChunksLaid
    <2> QED
      BY <1>0, <2>9, <2>15 DEF MarkedTo
  <1> QED
    BY <1>11, <1>12

(* A page is cut into chunks: the list of the slot, which was empty, gets  *)
(* it.                                                                     *)
CutUp(m, p, size) ==
  [m EXCEPT !.slab[p] = Chunks(size), !.busy[p] = FirstBits(size),
            !.next[p] = Slot(size), !.prev[p] = Slot(size),
            !.type[p] = TypeFor(size), !.next[Slot(size)] = p]
CutTo(m, u, F, T, C, len, p, size) ==
  /\ Laid(u, F, T \ {p}, C \cup {p}, NULL, len) /\ u.slab[p] = Chunks(size) /\ u.busy[p] = FirstBits(size)
  /\ \A r \in C : u.slab[r] = m.slab[r] /\ u.busy[r] = m.busy[r]

LEMMA FirstBitsFacts ==
  ASSUME BitsFit, NEW size \in Sizes
  PROVE  /\ FirstBits(size) \in Bits /\ FirstBits(size) \subseteq Whole(size) /\ FirstBits(size) # Whole(size)
         /\ 0 .. Reserved(size) - 1 \subseteq FirstBits(size) /\ FirstBits(size) = 0 .. Reserved(size)
  <1>1. Reserved(size) + 1 < NumberOf(size) /\ Reserved(size) % Word = Reserved(size)
    BY RoomForOne
  <1>2. Reserved(size) \in Nat /\ NumberOf(size) \in Nat /\ NumberOf(size) <= PageSize
    BY SizeFacts
  <1>3. FirstBits(size) = 0 .. Reserved(size)
    BY <1>1 DEF FirstBits
  <1>4. PICK k : k = Reserved(size)
    OBVIOUS
  <1>5. PICK n : n = NumberOf(size)
    OBVIOUS
  <1>6. FirstBits(size) \subseteq Whole(size)
    BY <1>1, <1>2, <1>3, <1>4, <1>5 DEF Whole
  <1>7. n - 1 \in Whole(size) /\ n - 1 \notin FirstBits(size)
    BY <1>1, <1>2, <1>3, <1>4, <1>5 DEF Whole
  <1>8. 0 .. Reserved(size) - 1 \subseteq FirstBits(size)
    BY <1>2, <1>3, <1>4
  <1>9. FirstBits(size) \in Bits
    BY <1>6, WholeFacts
  <1> QED
    BY <1>3, <1>6, <1>7, <1>8, <1>9

LEMMA CutUpGives ==
  ASSUME NEW m \in Mems, NEW p \in PageNos, NEW size \in Sizes, NEW bs \in Bits, bs = FirstBits(size), NEW h, h = Slot(size),
         NEW u, u = CutUp(m, p, size)
  PROVE  /\ u \in Mems
         /\ \A x \in Nodes : u.next[x] = IF x = h THEN p ELSE IF x = p THEN h ELSE m.next[x]
         /\ \A x \in Nodes : u.prev[x] = IF x = p THEN h ELSE m.prev[x]
         /\ \A x \in PageNos : /\ u.slab[x] = IF x = p THEN Chunks(size) ELSE m.slab[x]
                               /\ u.busy[x] = IF x = p THEN bs ELSE m.busy[x]
                               /\ u.type[x] = IF x = p THEN TypeFor(size) ELSE m.type[x]
  <1>1. p \in Nodes /\ h \in Nodes /\ h # p
    BY NodeFacts
  <1>2. PICK c \in Fields : c = Chunks(size)
    BY FieldFacts
  <1>3. PICK ty \in Types : ty = TypeFor(size)
    BY SizeFacts
  <1>4. PICK q \in Nodes \cup {NULL} : q = h
    BY <1>1
  <1>5. PICK q2 \in Nodes \cup {NULL} : q2 = p
    BY <1>1
  <1>6. PICK a : a = [m EXCEPT !.slab[p] = c]
    OBVIOUS
  <1>7. /\ a \in Mems /\ a.next = m.next /\ a.prev = m.prev /\ a.type = m.type /\ a.busy = m.busy
        /\ \A x \in PageNos : a.slab[x] = IF x = p THEN c ELSE m.slab[x]
    BY <1>6, SlabGives
  <1>8. PICK b : b = [a EXCEPT !.busy[p] = bs]
    OBVIOUS
  <1>9. /\ b \in Mems /\ b.next = a.next /\ b.prev = a.prev /\ b.type = a.type /\ b.slab = a.slab
        /\ \A x \in PageNos : b.busy[x] = IF x = p THEN bs ELSE a.busy[x]
    BY <1>7, <1>8, BusyGives
  <1>10. PICK d : d = [b EXCEPT !.next[p] = q]
    OBVIOUS
  <1>11. /\ d \in Mems /\ d.prev = b.prev /\ d.type = b.type /\ d.slab = b.slab /\ d.busy = b.busy
         /\ \A x \in Nodes : d.next[x] = IF x = p THEN q ELSE b.next[x]
    BY <1>1, <1>9, <1>10, NextGives
  <1>12. PICK e : e = [d EXCEPT !.prev[p] = q]
    OBVIOUS
  <1>13. /\ e \in Mems /\ e.next = d.next /\ e.type = d.type /\ e.slab = d.slab /\ e.busy = d.busy
         /\ \A x \in Nodes : e.prev[x] = IF x = p THEN q ELSE d.prev[x]
    BY <1>1, <1>11, <1>12, PrevGives
  <1>14. PICK f : f = [e EXCEPT !.type[p] = ty]
    OBVIOUS
  <1>15. /\ f \in Mems /\ f.next = e.next /\ f.prev = e.prev /\ f.slab = e.slab /\ f.busy = e.busy
         /\ \A x \in PageNos : f.type[x] = IF x = p THEN ty ELSE e.type[x]
    BY <1>13, <1>14, TypeGives
  <1>16. PICK g : g = [f EXCEPT !.next[h] = q2]
    OBVIOUS
  <1>17. /\ g \in Mems /\ g.prev = f.prev /\ g.type = f.type /\ g.slab = f.slab /\ g.busy = f.busy
         /\ \A x \in Nodes : g.next[x] = IF x = h THEN q2 ELSE f.next[x]
    BY <1>1, <1>15, <1>16, NextGives
  <1>18. u = g
    BY <1>2, <1>3, <1>4, <1>5, <1>6, <1>8, <1>10, <1>12, <1>14, <1>16 DEF CutUp
  <1>19. /\ \A x \in Nodes : g.next[x] = IF x = h THEN p ELSE IF x = p THEN h ELSE m.next[x]
         /\ \A x \in Nodes : g.prev[x] = IF x = p THEN h ELSE m.prev[x]
    BY <1>4, <1>5, <1>7, <1>9, <1>11, <1>13, <1>15, <1>17
  <1>20. \A x \in PageNos : g.slab[x] = IF x = p THEN Chunks(size) ELSE m.slab[x]
    BY <1>2, <1>7, <1>9, <1>11, <1>13, <1>15, <1>17
  <1>21. \A x \in PageNos : g.busy[x] = IF x = p THEN bs ELSE m.busy[x]
    BY <1>7, <1>9, <1>11, <1>13, <1>15, <1>17
  <1>22. \A x \in PageNos : g.type[x] = IF x = p THEN TypeFor(size) ELSE m.type[x]
    BY <1>3, <1>7, <1>9, <1>11, <1>13, <1>15, <1>17
  <1> QED
    BY <1>17, <1>18, <1>19, <1>20, <1>21, <1>22

LEMMA CutUpLaid ==
  ASSUME NEW m, NEW F, NEW T, NEW C, NEW len, Laid(m, F, T, C, NULL, len), NEW p \in T, len[p] = 1,
         NEW size \in Sizes, Room(m, C, size) = {}, BitsFit
  PROVE  CutTo(m, CutUp(m, p, size), F, T, C, len, p, size)
  <1> DEFINE Ld == LeadersOf(F, T, C, NULL)
  <1>1. /\ m \in Mems /\ Tiling(Ld, len)
        /\ F \subseteq PageNos /\ T \subseteq PageNos /\ C \subseteq PageNos
        /\ F \cap T = {} /\ F \cap C = {} /\ T \cap C = {}
        /\ IsList(m.next, m.prev, FreeList, F)
    BY LaidFacts
  <1>2. LooseOf(NULL) = {} /\ Ld = F \cup T \cup C
    BY NodeFacts DEF LeadersOf, LooseOf
  <1> HIDE DEF Ld
  <1>3. p \in PageNos /\ p \in Nodes /\ p \in Nat /\ p \in Ld /\ p \notin F \cup C
    BY <1>1, <1>2, NodeFacts
  <1>4. PICK h : h = Slot(size)
    OBVIOUS
  <1>5. h \in Nodes /\ h \notin PageNos /\ h # FreeList /\ FreeList \in Nodes /\ FreeList \notin PageNos
    BY <1>4, NodeFacts
  <1>6. PICK bs : bs = FirstBits(size)
    OBVIOUS
  <1>7. /\ bs \in Bits /\ bs \subseteq Whole(size) /\ bs # Whole(size) /\ 0 .. Reserved(size) - 1 \subseteq bs
    BY <1>6, FirstBitsFacts
  <1>8. PICK u : u = CutUp(m, p, size)
    OBVIOUS
  <1>9. /\ u \in Mems
        /\ \A x \in Nodes : u.next[x] = IF x = h THEN p ELSE IF x = p THEN h ELSE m.next[x]
        /\ \A x \in Nodes : u.prev[x] = IF x = p THEN h ELSE m.prev[x]
        /\ \A x \in PageNos : /\ u.slab[x] = IF x = p THEN Chunks(size) ELSE m.slab[x]
                              /\ u.busy[x] = IF x = p THEN bs ELSE m.busy[x]
                              /\ u.type[x] = IF x = p THEN TypeFor(size) ELSE m.type[x]
    BY <1>1, <1>3, <1>4, <1>6, <1>7, <1>8, CutUpGives
  <1>10. PICK W : W = {p}
    OBVIOUS
  <1>11. PICK N : N = {h}
    OBVIOUS
  <1>12. SameBut(u, m, N, W)
    BY <1>9, <1>10, <1>11 DEF SameBut
  <1>13. \A y \in Ld \ {p} : Reach(y, len[y]) \cap W = {}
    <2>1. W = Reach(p, len[p])
      BY <1>3, <1>10 DEF Reach
    <2> QED
      BY <1>1, <1>3, <2>1, ReachFacts
  <1>14. /\ \A y \in F : OpenRun(u, y, len[y])
         /\ \A y \in T \ {p} : TakenRun(u, y, len[y])
         /\ \A y \in C : /\ len[y] = 1 /\ CutPage(u, y, u.slab[y].n)
                         /\ u.slab[y] = m.slab[y] /\ u.busy[y] = m.busy[y]
    <2>0. PICK B : B = {p}
      OBVIOUS
    <2>1. \A y \in LeadersOf(F, T, C, NULL) \ B : Reach(y, len[y]) \cap W = {}
      BY <1>13, <2>0 DEF Ld
    <2>2. N \cap PageNos \subseteq F \cup C
      BY <1>5, <1>11
    <2>3. \A y \in C \cap N : m.busy[y] # Whole(m.slab[y].n)
      BY <1>1, <1>5, <1>11
    <2>4. /\ \A y \in F \ B : OpenRun(u, y, len[y])
          /\ \A y \in T \ B : TakenRun(u, y, len[y])
          /\ \A y \in C \ B : /\ len[y] = 1 /\ CutPage(u, y, u.slab[y].n)
                               /\ u.slab[y] = m.slab[y] /\ u.busy[y] = m.busy[y]
      BY <1>12, <2>1, <2>2, <2>3, Elsewhere
    <2>5. F \subseteq F \ B /\ C \subseteq C \ B
      BY <1>3, <2>0
    <2> QED
      BY <2>0, <2>4, <2>5
  <1>15. u.slab[p] = Chunks(size) /\ u.busy[p] = bs /\ u.type[p] = TypeFor(size) /\ u.slab[p].n = size
    BY <1>3, <1>9, FieldFacts
  <1>16. CutPage(u, p, size)
    BY <1>7, <1>15 DEF CutPage
  <1>17. PICK D : D = C \cup {p}
    OBVIOUS
  <1>18. PICK U : U = T \ {p}
    OBVIOUS
  <1>19. \A other : Room(u, D, other) = IF other = size THEN Room(m, C, other) \cup {p} ELSE Room(m, C, other)
    BY <1>3, <1>7, <1>14, <1>15, <1>17 DEF Room
  <1>20. ASSUME NEW other \in Sizes
         PROVE  IsList(u.next, u.prev, Slot(other), Room(u, D, other))
    <2>1. CASE other = size
      <3>1. u.next[h] = p /\ u.next[p] = h /\ u.prev[p] = h
        BY <1>3, <1>5, <1>9
      <3>2. Room(u, D, other) = {p}
        BY <1>19, <2>1
      <3>3. IsList(u.next, u.prev, h, {p})
        BY <3>1 DEF IsList
      <3> QED
        BY <1>4, <2>1, <3>2, <3>3
    <2>2. CASE other # size
      <3>1. PICK M : M = Room(m, C, other)
        OBVIOUS
      <3>2. M \subseteq C /\ IsList(m.next, m.prev, Slot(other), M)
        BY <3>1, LaidFacts
      <3>3. Slot(other) \in Nodes /\ Slot(other) \notin PageNos /\ Slot(other) # h
        BY <1>4, <2>2, NodeFacts
      <3>4. M \subseteq PageNos /\ M \cap (N \cup W) = {} /\ Slot(other) \notin N \cup W
        BY <1>1, <1>3, <1>5, <1>10, <1>11, <3>2, <3>3
      <3>5. IsList(u.next, u.prev, Slot(other), M)
        BY <1>12, <3>2, <3>3, <3>4, RowKept
      <3> QED
        BY <1>19, <2>2, <3>1, <3>5
    <2> QED
      BY <2>1, <2>2
  <1>21. IsList(u.next, u.prev, FreeList, F)
    <2>1. FreeList \notin N \cup W /\ F \cap (N \cup W) = {}
      BY <1>1, <1>3, <1>5, <1>10, <1>11
    <2> QED
      BY <1>1, <1>5, <1>12, <2>1, RowKept
  <1>22. Placed(F, U, D, NULL, len)
    <2>1. LeadersOf(F, U, D, NULL) = Ld
      BY <1>2, <1>17, <1>18 DEF LeadersOf
    <2>2. /\ F \subseteq PageNos /\ U \subseteq PageNos /\ D \subseteq PageNos
          /\ F \cap U = {} /\ F \cap D = {} /\ U \cap D = {} /\ NULL \notin F \cup U \cup D
      BY <1>1, <1>3, <1>17, <1>18, NodeFacts
    <2>3. \A y, w \in F : y + len[y] # w
      BY DEF Laid, Placed
    <2>4. Tiling(LeadersOf(F, U, D, NULL), len)
      BY <1>1, <2>1
    <2> QED
      BY <2>2, <2>3, <2>4, PlacedIs
  <1>23. RunsOK(u, F, U, NULL, len)
    BY <1>2, <1>14, <1>18 DEF RunsOK
  <1>24. CutOK(u, D, len)
    BY <1>14, <1>15, <1>16, <1>17 DEF CutOK
  <1>25. Laid(u, F, U, D, NULL, len)
    BY <1>9, <1>20, <1>21, <1>22, <1>23, <1>24 DEF Laid, RowsOK
  <1> QED
    BY <1>6, <1>8, <1>14, <1>15, <1>17, <1>18, <1>25 DEF CutTo

(* A full page returns to the list of its slot, and a bit is cleared. *)
LEMMA ReturnGives ==
  ASSUME NEW m \in Mems, NEW p \in PageNos, NEW size \in Sizes, NEW h, h = Slot(size), NEW f \in Nodes, f = m.next[h],
         m.next[p] = NULL, NEW u, u = Return(m, p, size)
  PROVE  /\ u \in Mems /\ u.type = m.type /\ u.slab = m.slab /\ u.busy = m.busy
         /\ \A x \in Nodes : u.next[x] = IF x = h THEN p ELSE IF x = p THEN f ELSE m.next[x]
         /\ \A x \in Nodes : u.prev[x] = IF x = f THEN p ELSE IF x = p THEN h ELSE m.prev[x]
  <1>1. p \in Nodes /\ h \in Nodes /\ h # p
    BY NodeFacts
  <1>2. PICK q \in Nodes \cup {NULL} : q = f
    OBVIOUS
  <1>3. PICK q2 \in Nodes \cup {NULL} : q2 = h
    BY <1>1
  <1>4. PICK q3 \in Nodes \cup {NULL} : q3 = p
    BY <1>1
  <1>5. PICK a : a = [m EXCEPT !.next[p] = q]
    OBVIOUS
  <1>6. /\ a \in Mems /\ a.prev = m.prev /\ a.type = m.type /\ a.slab = m.slab /\ a.busy = m.busy
        /\ \A x \in Nodes : a.next[x] = IF x = p THEN q ELSE m.next[x]
    BY <1>1, <1>5, NextGives
  <1>7. PICK b : b = [a EXCEPT !.prev[p] = q2]
    OBVIOUS
  <1>8. /\ b \in Mems /\ b.next = a.next /\ b.type = a.type /\ b.slab = a.slab /\ b.busy = a.busy
        /\ \A x \in Nodes : b.prev[x] = IF x = p THEN q2 ELSE a.prev[x]
    BY <1>1, <1>6, <1>7, PrevGives
  <1>9. PICK d : d = [b EXCEPT !.prev[f] = q3]
    OBVIOUS
  <1>10. /\ d \in Mems /\ d.next = b.next /\ d.type = b.type /\ d.slab = b.slab /\ d.busy = b.busy
         /\ \A x \in Nodes : d.prev[x] = IF x = f THEN q3 ELSE b.prev[x]
    BY <1>8, <1>9, PrevGives
  <1>11. PICK e : e = [d EXCEPT !.next[h] = q3]
    OBVIOUS
  <1>12. /\ e \in Mems /\ e.prev = d.prev /\ e.type = d.type /\ e.slab = d.slab /\ e.busy = d.busy
         /\ \A x \in Nodes : e.next[x] = IF x = h THEN q3 ELSE d.next[x]
    BY <1>1, <1>10, <1>11, NextGives
  <1>13. u = e
    BY <1>2, <1>3, <1>4, <1>5, <1>7, <1>9, <1>11 DEF Return
  <1>14. /\ \A x \in Nodes : e.next[x] = IF x = h THEN p ELSE IF x = p THEN f ELSE m.next[x]
         /\ \A x \in Nodes : e.prev[x] = IF x = f THEN p ELSE IF x = p THEN h ELSE m.prev[x]
    BY <1>2, <1>3, <1>4, <1>6, <1>8, <1>10, <1>12
  <1>15. e.type = m.type /\ e.slab = m.slab /\ e.busy = m.busy
    BY <1>6, <1>8, <1>10, <1>12
  <1> QED
    BY <1>12, <1>13, <1>14, <1>15

LEMMA ReturnLaid ==
  ASSUME NEW m, NEW F, NEW T, NEW C, NEW len, Laid(m, F, T, C, NULL, len),
         NEW p \in C, NEW size, size = m.slab[p].n, NEW c \in m.busy[p], NEW bs, bs \subseteq m.busy[p] \ {c},
         0 .. Reserved(size) - 1 \subseteq bs
  PROVE  /\ MarkedTo(m, Marked(Return(m, p, size), p, bs), F, T, C, len, p, bs)
         /\ p \in Room(Marked(Return(m, p, size), p, bs), C, size)
  <1> DEFINE L == Room(m, C, size)
  <1>1. CutPage(m, p, size)
    BY DEF Laid, CutOK
  <1>2. size \in Sizes
    BY <1>1 DEF CutPage
  <1>3. /\ m \in Mems /\ C \subseteq PageNos /\ L \subseteq C /\ Slot(size) \notin L
        /\ IsList(m.next, m.prev, Slot(size), L)
    BY <1>2, LaidFacts
  <1>4. p \in PageNos /\ p \in Nodes
    BY <1>3, NodeFacts
  <1>5. PICK h : h = Slot(size)
    OBVIOUS
  <1>6. h \in Nodes /\ h \notin PageNos /\ h # NULL /\ h \notin L /\ IsList(m.next, m.prev, h, L)
    BY <1>2, <1>3, <1>5, NodeFacts
  <1>7. bs \subseteq Whole(size) /\ bs \in Bits /\ bs # Whole(size)
    <2>1. m.busy[p] \subseteq Whole(size)
      BY <1>1 DEF CutPage
    <2>2. bs \subseteq Whole(size) /\ c \in Whole(size) /\ c \notin bs
      BY <2>1
    <2> QED
      BY <1>2, <2>2, WholeFacts
  <1>8. p \in L <=> m.busy[p] # Whole(size)
    BY DEF Room
  <1>9. p \in L <=> m.next[p] # NULL
    <2>1. ASSUME p \in L
          PROVE  m.next[p] # NULL
      <3>1. m.next[p] \in L \cup {h}
        BY <1>6, <2>1, ListSteps
      <3> QED
        BY <1>3, <1>6, <3>1, NodeFacts
    <2>2. ASSUME p \notin L
          PROVE  m.next[p] = NULL
      BY <1>1, <1>8, <2>2 DEF CutPage
    <2> QED
      BY <2>1, <2>2
  <1>10. PICK a : a = Return(m, p, size)
    OBVIOUS
  <1>11. PICK f : f = m.next[h]
    OBVIOUS
  <1>12. f \in L \cup {h} /\ f \in Nodes
    <2>1. f \in L \cup {h}
      BY <1>6, <1>11, ListFirst
    <2> QED
      BY <1>3, <1>6, <2>1, NodeFacts
  <1> HIDE DEF L
  <1>13. /\ a \in Mems /\ a.type = m.type /\ a.slab = m.slab /\ a.busy = m.busy
         /\ IsList(a.next, a.prev, h, L \cup {p})
         /\ \A x \in Nodes \ (L \cup {h, p}) : a.next[x] = m.next[x] /\ a.prev[x] = m.prev[x]
    <2>1. CASE p \in L
      <3>1. a = m
        BY <1>9, <1>10, <2>1 DEF Return
      <3>2. L \cup {p} = L
        BY <2>1
      <3> QED
        BY <1>3, <1>6, <3>1, <3>2
    <2>2. CASE p \notin L
      <3>1. m.next[p] = NULL
        BY <1>9, <2>2
      <3>2. /\ a \in Mems /\ a.type = m.type /\ a.slab = m.slab /\ a.busy = m.busy
            /\ \A x \in Nodes : a.next[x] = IF x = h THEN p ELSE IF x = p THEN f ELSE m.next[x]
            /\ \A x \in Nodes : a.prev[x] = IF x = f THEN p ELSE IF x = p THEN h ELSE m.prev[x]
        BY <1>2, <1>3, <1>4, <1>5, <1>10, <1>11, <1>12, <3>1, ReturnGives
      <3>3. p # h /\ p # f
        BY <1>4, <1>6, <1>12, <2>2
      <3>4. \A x \in L : x \in Nodes /\ x # h /\ x # p
        BY <1>3, <1>6, <2>2, NodeFacts
      <3>5. a.next[h] = p /\ a.next[p] = m.next[h] /\ a.prev[p] = h
        BY <1>4, <1>6, <1>11, <3>2, <3>3
      <3>6. \A x \in L : a.next[x] = m.next[x]
        BY <3>2, <3>4
      <3>7. \A x \in L : a.prev[x] = IF x = m.next[h] THEN p ELSE m.prev[x]
        BY <1>11, <3>2, <3>4
      <3>8. p \notin L /\ p # h /\ h \notin L /\ IsList(m.next, m.prev, h, L)
        BY <1>6, <2>2, <3>3
      <3>9. IsList(a.next, a.prev, h, L \cup {p})
        <4>1. PICK nx, pv, nw, pw : nx = m.next /\ pv = m.prev /\ nw = a.next /\ pw = a.prev
          OBVIOUS
        <4>2. h \notin L /\ IsList(nx, pv, h, L) /\ p \notin L /\ p # h
          BY <3>8, <4>1
        <4>3. nw[h] = p /\ nw[p] = nx[h] /\ (\A x \in L : nw[x] = nx[x]) /\ pw[p] = h
          BY <3>5, <3>6, <4>1
        <4>4. \A x \in L : pw[x] = IF x = nx[h] THEN p ELSE pv[x]
          BY <3>7, <4>1
        <4>5. IsList(nw, pw, h, L \cup {p})
          BY <4>2, <4>3, <4>4, ListPush
        <4> QED
          BY <4>1, <4>5
      <3>10. \A x \in Nodes \ (L \cup {h, p}) : a.next[x] = m.next[x] /\ a.prev[x] = m.prev[x]
        BY <1>12, <3>2
      <3> QED
        BY <3>2, <3>9, <3>10
    <2> QED
      BY <2>1, <2>2
  <1>14. PICK u : u = Marked(a, p, bs)
    OBVIOUS
  <1>15. /\ u \in Mems /\ u.next = a.next /\ u.prev = a.prev /\ u.type = a.type /\ u.slab = a.slab
         /\ \A y \in PageNos : u.busy[y] = IF y = p THEN bs ELSE a.busy[y]
    <2>1. a \in Mems /\ p \in PageNos /\ bs \in Bits
      BY <1>4, <1>7, <1>13
    <2>2. u = [a EXCEPT !.busy[p] = bs]
      BY <1>14 DEF Marked
    <2> QED
      BY <2>1, <2>2, BusyGives
  <1>16. u.busy[p] = bs
    BY <1>4, <1>15
  <1>17. PICK W : W = {p}
    OBVIOUS
  <1>18. PICK N : N = L \cup {h}
    OBVIOUS
  <1>19. SameBut(u, m, N, W)
    <2>1. \A y \in PageNos \ W : u.slab[y] = m.slab[y] /\ u.type[y] = m.type[y] /\ u.busy[y] = m.busy[y]
      BY <1>13, <1>15, <1>17
    <2>2. \A y \in Nodes \ (N \cup W) : u.next[y] = m.next[y] /\ u.prev[y] = m.prev[y]
      BY <1>13, <1>15, <1>17, <1>18
    <2> QED
      BY <2>1, <2>2 DEF SameBut
  <1>20. Room(u, C, size) = L \cup {p}
    <2>1. u.slab = m.slab /\ m.slab[p].n = size
      BY <1>13, <1>15
    <2>2. \A y \in C : y # p => u.busy[y] = m.busy[y]
      BY <1>3, <1>13, <1>15
    <2> QED
      BY <1>7, <1>16, <2>1, <2>2 DEF Room, L
  <1>21. CutPage(u, p, size)
    BY <1>1, <1>7, <1>13, <1>15, <1>16 DEF CutPage
  <1>22. /\ Laid(u, F, T, C, NULL, len)
         /\ \A r \in C : u.slab[r] = m.slab[r] /\ (r # p => u.busy[r] = m.busy[r])
    <2>1. IsList(u.next, u.prev, Slot(size), Room(u, C, size))
      BY <1>5, <1>13, <1>15, <1>20
    <2>2. N \subseteq Room(m, C, size) \cup {Slot(size)}
      BY <1>5, <1>18 DEF L
    <2>3. u.slab[p] = m.slab[p] /\ u \in Mems /\ m.slab[p].n = size
      BY <1>13, <1>15
    <2> QED
      BY <1>2, <1>17, <1>19, <1>21, <2>1, <2>2, <2>3, ChunksLaid
  <1>23. MarkedTo(m, u, F, T, C, len, p, bs)
    BY <1>16, <1>22 DEF MarkedTo
  <1>24. p \in Room(u, C, size)
    BY <1>20
  <1> QED
    BY <1>10, <1>14, <1>23, <1>24

-----------------------------------------------------------------------------
(* Blocks. *)

LEMMA Scale ==
  ASSUME NEW a \in Int, NEW b \in Int, NEW w \in Nat
  PROVE  /\ a <= b => a * w <= b * w
         /\ a * w \in Int /\ (a + b) * w = (a * w) + (b * w) /\ (a \in Nat => a * w \in Nat)
         /\ a < b /\ w >= 1 => a * w < b * w
  <1>1. /\ a * w \in Int /\ (a + b) * w = (a * w) + (b * w) /\ (a \in Nat => a * w \in Nat)
    OBVIOUS
  <1>2. PICK d \in Int : d = b - a
    OBVIOUS
  <1>3. d >= 0 => d * w >= 0
    OBVIOUS
  <1>4. d >= 1 /\ w >= 1 => d * w >= 1
    OBVIOUS
  <1>5. b * w = (a * w) + (d * w)
    BY <1>2
  <1>6. d * w \in Int
    OBVIOUS
  <1> QED
    BY <1>1, <1>2, <1>3, <1>4, <1>5, <1>6

LEMMA RunFound ==
  ASSUME NEW F, NEW T, NEW C, NEW len, Laid(Memory, F, T, C, NULL, len),
         NEW n \in Nat, FirstRun(n) # NULL
  PROVE  FirstRun(n) \in F /\ len[FirstRun(n)] \in Nat /\ n <= len[FirstRun(n)]
  <1> DEFINE long == {p \in PageNos : slab[p].n >= n}
             found == long \cap Walk(FreeList, {FreeList} \cup long)
  <1>1. Memory.next = next /\ Memory.prev = prev /\ Memory.slab = slab
    BY DEF Memory
  <1>2. F \subseteq PageNos /\ FreeList \notin F /\ IsList(next, prev, FreeList, F)
    BY <1>1, LaidFacts
  <1>3. \A stops : Walk(FreeList, stops) \subseteq F \cup {FreeList}
    BY <1>2, NodeFacts, WalkIs
  <1>4. found # {} /\ FirstRun(n) = CHOOSE p \in found : TRUE
    BY DEF FirstRun
  <1>5. FirstRun(n) \in found
    BY <1>4
  <1>6. FirstRun(n) \in F
    BY <1>3, <1>5, NodeFacts
  <1>7. slab[FirstRun(n)].n = len[FirstRun(n)]
    BY <1>1, <1>6, RunShows
  <1>8. len[FirstRun(n)] \in Nat
    BY <1>6, LaidFacts
  <1>9. slab[FirstRun(n)].n >= n
    BY <1>5
  <1> QED
    BY <1>6, <1>7, <1>8, <1>9

LEMMA SizeIs ==
  ASSUME NEW request \in SlabRequests, request <= PageSize \div 2
  PROVE  SizeOf(request) \in Sizes /\ SizeOf(request) >= request
  <1> DEFINE fit == {size \in Sizes : size >= request}
  <1>1. PageSize \div 2 \in fit
    BY SlabAssumption
  <1>2. fit \in SUBSET Nat
    BY SizeFacts
  <1>3. Min(fit) \in fit
    BY <1>1, <1>2, LeastIs
  <1> QED
    BY <1>3 DEF SizeOf

(* The first chunk of a page that is clear. *)
LEMMA ChunkFound ==
  ASSUME NEW size \in Sizes, NEW bs, bs \subseteq Whole(size), bs # Whole(size)
  PROVE  Min(Whole(size) \ bs) \in Whole(size) /\ Min(Whole(size) \ bs) \notin bs
  <1>1. PICK s : s = Whole(size) \ bs
    OBVIOUS
  <1>2. s \in SUBSET Nat /\ s # {}
    <2>1. \A x \in Whole(size) : x \in Nat
      BY SizeFacts DEF Whole
    <2>2. s \subseteq Whole(size) /\ s # {}
      BY <1>1
    <2> QED
      BY <2>1, <2>2
  <1>3. Min(s) \in s
    BY <1>2, LeastIs
  <1> QED
    BY <1>1, <1>3

(* What a page is, its descriptor tells. *)
LEMMA PagesShow ==
  ASSUME NEW m, NEW F, NEW T, NEW C, NEW len, Laid(m, F, T, C, NULL, len), NEW p \in PageNos
  PROVE  /\ p \in C <=> m.type[p] # "page"
         /\ p \in T <=> m.type[p] = "page" /\ m.slab[p].tag = "start"
         /\ p \in T => m.slab[p].n = len[p]
         /\ p \in F => m.slab[p].n = len[p]
  <1> DEFINE Ld == LeadersOf(F, T, C, NULL)
  <1>1. /\ Tiling(Ld, len) /\ F \cap T = {} /\ F \cap C = {} /\ T \cap C = {}
    BY LaidFacts
  <1>2. Ld = F \cup T \cup C
    BY NodeFacts DEF LeadersOf, LooseOf
  <1>3. /\ \A q \in F : OpenRun(m, q, len[q])
        /\ \A q \in T : TakenRun(m, q, len[q])
        /\ \A q \in C : len[q] = 1 /\ m.type[q] # "page"
    BY RunShows DEF Laid, RunsOK
  <1>4. p \in F => m.type[p] = "page" /\ m.slab[p].n = len[p] /\ m.slab[p].tag = "run"
    BY <1>3, FieldFacts DEF OpenRun, LooseRun
  <1>5. p \in T => m.type[p] = "page" /\ m.slab[p].n = len[p] /\ m.slab[p].tag = "start"
    BY <1>3, FieldFacts DEF TakenRun, Blank
  <1>6. p \in C => m.type[p] # "page"
    BY <1>3
  <1>7. p \notin Ld => m.type[p] = "page" /\ m.slab[p].tag # "start"
    <2> SUFFICES ASSUME p \notin Ld
                 PROVE  m.type[p] = "page" /\ m.slab[p].tag # "start"
      OBVIOUS
    <2>1. PICK q \in Ld : q <= p /\ p < q + len[q]
      BY <1>1 DEF Tiling
    <2>2. q \in Nat /\ len[q] \in Nat /\ p \in Nat /\ q # p
      BY <1>1, TileTypes, NodeFacts
    <2>3. p \in Inner(q, len[q])
      BY <2>1, <2>2 DEF Inner
    <2>4. q \notin C
      <3>1. ASSUME q \in C
            PROVE  FALSE
        <4>1. len[q] = 1
          BY <1>3, <3>1
        <4> QED
          BY <2>1, <2>2, <4>1
      <3> QED
        BY <3>1
    <2>5. CASE q \in F
      <3>1. Blank(m, p, Run(0))
        BY <1>3, <2>3, <2>5 DEF OpenRun, LooseRun
      <3> QED
        BY <3>1 DEF Blank, Run
    <2>6. CASE q \in T
      <3>1. Blank(m, p, RunTail)
        BY <1>3, <2>3, <2>6 DEF TakenRun
      <3> QED
        BY <3>1 DEF Blank, RunTail
    <2> QED
      BY <1>2, <2>4, <2>5, <2>6
  <1> QED
    BY <1>1, <1>2, <1>4, <1>5, <1>6, <1>7

(* Bytes. *)
BytesOf(b, p, n) ==
  /\ b.addr \in Nat /\ b.len \in Nat /\ b.len >= 1
  /\ p * PageSize <= b.addr /\ b.addr + b.len <= (p + n) * PageSize

LEMMA RunBytes ==
  ASSUME NEW p \in Nat, NEW n \in Nat, n >= 1
  PROVE  /\ BytesOf(PageBlock(p, n), p, n)
         /\ PageBlock(p, n).addr = p * PageSize /\ PageBlock(p, n).len = n * PageSize
         /\ PageBlock(p, n).addr \div PageSize = p
         /\ (PageBlock(p, n).addr + PageBlock(p, n).len - 1) \div PageSize = p + n - 1
         /\ \A size \in Sizes : PageBlock(p, n).len # size
  <1>1. PageSize \in Nat \ {0}
    BY SlabAssumption
  <1>2. PICK a \in Nat : a = p * PageSize
    BY <1>1
  <1>3. PICK l \in Nat : l = n * PageSize
    BY <1>1
  <1>4. PageBlock(p, n).addr = a /\ PageBlock(p, n).len = l
    BY <1>2, <1>3 DEF PageBlock
  <1>5. l >= PageSize
    <2>1. 1 * PageSize <= n * PageSize
      BY <1>1, Scale
    <2> QED
      BY <1>1, <1>3, <2>1
  <1>6. (p + n) * PageSize = a + l
    BY <1>1, <1>2, <1>3, Scale
  <1>7. a \div PageSize = p
    <2>1. ((p * PageSize) + 0) \div PageSize = p
      BY <1>1, Quotient
    <2> QED
      BY <1>2, <2>1
  <1>8. (a + l - 1) \div PageSize = p + n - 1
    <2>1. PICK q \in Nat : q = p + n - 1
      OBVIOUS
    <2>2. PICK r \in Nat : r = PageSize - 1
      BY <1>1
    <2>3. ((q * PageSize) + r) \div PageSize = q
      BY <1>1, <2>2, Quotient
    <2>4. (q + 1) * PageSize = (q * PageSize) + (1 * PageSize)
      BY <1>1, Scale
    <2>5. q + 1 = p + n
      BY <2>1
    <2>6. (q * PageSize) + r = a + l - 1
      <3>1. q * PageSize \in Nat
        BY <1>1
      <3> QED
        BY <1>1, <1>6, <2>2, <2>4, <2>5, <3>1
    <2> QED
      BY <2>1, <2>3, <2>6
  <1>9. \A size \in Sizes : l # size
    BY <1>1, <1>5, SizeFacts
  <1> QED
    BY <1>1, <1>2, <1>3, <1>4, <1>5, <1>6, <1>7, <1>8, <1>9 DEF BytesOf

LEMMA RunLength ==
  ASSUME NEW p \in Nat, NEW n \in Nat, n >= 1
  PROVE  \A size \in Sizes : PageBlock(p, n).len # size
  BY RunBytes

LEMMA ChunkBytes ==
  ASSUME NEW p \in Nat, NEW size \in Sizes, NEW c \in Whole(size)
  PROVE  /\ BytesOf(ChunkBlock(p, c, size), p, 1)
         /\ ChunkBlock(p, c, size).addr = (p * PageSize) + (c * size) /\ ChunkBlock(p, c, size).len = size
         /\ ChunkBlock(p, c, size).addr \div PageSize = p
         /\ (ChunkBlock(p, c, size).addr + ChunkBlock(p, c, size).len - 1) \div PageSize = p
         /\ ChunkBlock(p, c, size).addr % PageSize = c * size
         /\ (c * size) \div size = c
  <1>1. PageSize \in Nat \ {0} /\ size \in Nat \ {0}
    BY SlabAssumption, SizeFacts
  <1>2. PICK n \in Nat : n = NumberOf(size)
    BY SizeFacts
  <1>3. c \in Nat /\ c + 1 <= n
    BY <1>2 DEF Whole
  <1>4. PICK a \in Nat : a = p * PageSize
    BY <1>1
  <1>5. PICK o \in Nat : o = c * size
    BY <1>1, <1>3
  <1>6. o + size <= PageSize
    <2>1. (c + 1) * size <= n * size
      BY <1>1, <1>3, Scale
    <2>2. (c + 1) * size = (c * size) + (1 * size)
      BY <1>1, <1>3, Scale
    <2>3. n * size <= PageSize
      <3>1. size * n <= PageSize
        BY <1>2, SizeFacts
      <3>2. size * n = n * size
        BY <1>1
      <3> QED
        BY <3>1, <3>2
    <2>4. n * size \in Int /\ 1 * size = size
      BY <1>1
    <2> QED
      BY <1>1, <1>5, <2>1, <2>2, <2>3, <2>4
  <1>7. ChunkBlock(p, c, size).addr = a + o /\ ChunkBlock(p, c, size).len = size
    BY <1>4, <1>5 DEF ChunkBlock
  <1>8. (p + 1) * PageSize = a + PageSize
    <2>1. (p + 1) * PageSize = (p * PageSize) + (1 * PageSize)
      BY <1>1, Scale
    <2> QED
      BY <1>1, <1>4, <2>1
  <1>9. (a + o) \div PageSize = p /\ (a + o) % PageSize = o
    <2>1. o < PageSize
      BY <1>1, <1>6
    <2>2. ((p * PageSize) + o) \div PageSize = p /\ ((p * PageSize) + o) % PageSize = o
      BY <1>1, <2>1, Quotient
    <2> QED
      BY <1>4, <2>2
  <1>10. (a + o + size - 1) \div PageSize = p
    <2>1. PICK r \in Nat : r = o + size - 1
      BY <1>1
    <2>2. r < PageSize
      BY <1>1, <1>6, <2>1
    <2>3. ((p * PageSize) + r) \div PageSize = p
      BY <1>1, <2>2, Quotient
    <2>4. a + r = a + o + size - 1
      BY <1>1, <2>1
    <2> QED
      BY <1>4, <2>3, <2>4
  <1>11. (c * size) \div size = c
    <2>1. ((c * size) + 0) \div size = c
      BY <1>1, <1>3, Quotient
    <2>2. (c * size) + 0 = c * size
      BY <1>1, <1>3
    <2> QED
      BY <2>1, <2>2
  <1>12. BytesOf(ChunkBlock(p, c, size), p, 1)
    BY <1>1, <1>4, <1>6, <1>7, <1>8 DEF BytesOf
  <1> QED
    BY <1>4, <1>5, <1>7, <1>9, <1>10, <1>11, <1>12

(* Where a block lies. *)
LEMMA BlockLies ==
  ASSUME NEW m, NEW F, NEW T, NEW C, NEW len, Laid(m, F, T, C, NULL, len), NEW b, IsBlock(b, m, T, C, len)
  PROVE  \/ \E p \in T : b = PageBlock(p, len[p]) /\ BytesOf(b, p, len[p])
         \/ \E p \in C : \E c \in m.busy[p] :
              /\ c >= Reserved(m.slab[p].n) /\ b = ChunkBlock(p, c, m.slab[p].n) /\ BytesOf(b, p, len[p])
              /\ m.slab[p].n \in Sizes /\ c \in Whole(m.slab[p].n)
  <1>1. /\ T \subseteq PageNos /\ C \subseteq PageNos
        /\ \A p \in T \cup C : len[p] \in Nat /\ len[p] >= 1
    BY LaidFacts
  <1>2. CASE \E p \in T : b = PageBlock(p, len[p])
    <2>1. PICK p \in T : b = PageBlock(p, len[p])
      BY <1>2
    <2>2. p \in Nat /\ len[p] \in Nat /\ len[p] >= 1
      BY <1>1, NodeFacts
    <2>3. BytesOf(b, p, len[p])
      BY <2>1, <2>2, RunBytes
    <2> QED
      BY <2>1, <2>3
  <1>3. CASE \E p \in C : \E c \in m.busy[p] : c >= Reserved(m.slab[p].n) /\ b = ChunkBlock(p, c, m.slab[p].n)
    <2>a. PICK p \in C : \E c \in m.busy[p] : c >= Reserved(m.slab[p].n) /\ b = ChunkBlock(p, c, m.slab[p].n)
      BY <1>3
    <2>1. PICK c \in m.busy[p] : c >= Reserved(m.slab[p].n) /\ b = ChunkBlock(p, c, m.slab[p].n)
      BY <2>a
    <2>2. PICK size : size = m.slab[p].n
      OBVIOUS
    <2>3. len[p] = 1 /\ CutPage(m, p, size)
      BY <2>2 DEF Laid, CutOK
    <2>4. size \in Sizes /\ c \in Whole(size)
      BY <2>3 DEF CutPage
    <2>5. p \in Nat
      BY <1>1, NodeFacts
    <2>6. BytesOf(ChunkBlock(p, c, size), p, 1)
      BY <2>4, <2>5, ChunkBytes
    <2> QED
      BY <2>1, <2>2, <2>3, <2>4, <2>6
  <1> QED
    BY <1>2, <1>3 DEF IsBlock

(* Bytes of different tiles. *)
LEMMA BytesApart ==
  ASSUME NEW b, NEW d, NEW p \in Nat, NEW q \in Nat, NEW n \in Nat, NEW k \in Nat,
         BytesOf(b, p, n), BytesOf(d, q, k), p + n <= q \/ q + k <= p
  PROVE  A!Disjoint(b, d)
  <1>1. PageSize \in Nat
    BY SlabAssumption
  <1>2. PICK x \in Nat : x = p * PageSize
    BY <1>1
  <1>3. PICK y \in Nat : y = q * PageSize
    BY <1>1
  <1>4. PICK z \in Nat : z = (p + n) * PageSize
    BY <1>1
  <1>5. PICK w \in Nat : w = (q + k) * PageSize
    BY <1>1
  <1>6. z <= y \/ w <= x
    <2>1. p + n <= q => (p + n) * PageSize <= q * PageSize
      BY <1>1, Scale
    <2>2. q + k <= p => (q + k) * PageSize <= p * PageSize
      BY <1>1, Scale
    <2> QED
      BY <1>2, <1>3, <1>4, <1>5, <2>1, <2>2
  <1>7. b.addr \in Nat /\ b.len \in Nat /\ x <= b.addr /\ b.addr + b.len <= z
    BY <1>2, <1>4 DEF BytesOf
  <1>8. d.addr \in Nat /\ d.len \in Nat /\ y <= d.addr /\ d.addr + d.len <= w
    BY <1>3, <1>5 DEF BytesOf
  <1> QED
    BY <1>6, <1>7, <1>8 DEF A!Disjoint

LEMMA ChunksApart ==
  ASSUME NEW p \in Nat, NEW size \in Sizes, NEW c \in Whole(size), NEW e \in Whole(size), c # e
  PROVE  A!Disjoint(ChunkBlock(p, c, size), ChunkBlock(p, e, size))
  <1>1. PageSize \in Nat /\ size \in Nat /\ c \in Nat /\ e \in Nat
    BY SlabAssumption, SizeFacts DEF Whole
  <1>2. PICK a \in Nat : a = p * PageSize
    BY <1>1
  <1>3. PICK x \in Nat : x = c * size
    BY <1>1
  <1>4. PICK y \in Nat : y = e * size
    BY <1>1
  <1>5. x + size <= y \/ y + size <= x
    <2>1. c + 1 <= e => (c + 1) * size <= e * size
      BY <1>1, Scale
    <2>2. e + 1 <= c => (e + 1) * size <= c * size
      BY <1>1, Scale
    <2>3. (c + 1) * size = x + size
      <3>1. (c + 1) * size = (c * size) + (1 * size)
        BY <1>1, Scale
      <3> QED
        BY <1>1, <1>3, <3>1
    <2>4. (e + 1) * size = y + size
      <3>1. (e + 1) * size = (e * size) + (1 * size)
        BY <1>1, Scale
      <3> QED
        BY <1>1, <1>4, <3>1
    <2>5. c + 1 <= e \/ e + 1 <= c
      BY <1>1
    <2> QED
      BY <1>3, <1>4, <2>1, <2>2, <2>3, <2>4, <2>5
  <1>6. /\ ChunkBlock(p, c, size).addr = a + x /\ ChunkBlock(p, c, size).len = size
        /\ ChunkBlock(p, e, size).addr = a + y /\ ChunkBlock(p, e, size).len = size
    BY <1>2, <1>3, <1>4 DEF ChunkBlock
  <1> QED
    BY <1>1, <1>5, <1>6 DEF A!Disjoint

(* A block that lies in a tile without others meets none. *)
LEMMA NewBlockApart ==
  ASSUME NEW m, NEW F, NEW T, NEW C, NEW len, Laid(m, F, T, C, NULL, len), NEW p \in F,
         NEW n \in Nat, n <= len[p], NEW b, BytesOf(b, p, n)
  PROVE  \A d : IsBlock(d, m, T, C, len) => A!Disjoint(d, b)
  <1> DEFINE Ld == LeadersOf(F, T, C, NULL)
  <1>1. Tiling(Ld, len) /\ F \cap T = {} /\ F \cap C = {} /\ F \subseteq Ld /\ T \subseteq Ld /\ C \subseteq Ld
    <2>1. Tiling(Ld, len) /\ F \cap T = {} /\ F \cap C = {}
      BY LaidFacts
    <2>2. Ld = F \cup T \cup C \cup LooseOf(NULL)
      BY DEF LeadersOf
    <2> QED
      BY <2>1, <2>2
  <1> HIDE DEF Ld
  <1> SUFFICES ASSUME NEW d, IsBlock(d, m, T, C, len)
               PROVE  A!Disjoint(d, b)
    OBVIOUS
  <1>2. PICK q \in T \cup C : BytesOf(d, q, len[q])
    BY BlockLies
  <1>3. q \in Ld /\ p \in Ld /\ q # p
    BY <1>1
  <1>4. p + len[p] <= q \/ q + len[q] <= p
    BY <1>1, <1>3, TileApart
  <1>5. p \in Nat /\ q \in Nat /\ len[p] \in Nat /\ len[q] \in Nat
    BY <1>1, <1>3, TileTypes
  <1>6. p + n <= q \/ q + len[q] <= p
    BY <1>4, <1>5
  <1> QED
    BY <1>2, <1>5, <1>6, BytesApart

(* Blocks do not overlap. *)
LEMMA BlocksApart ==
  ASSUME NEW m, NEW F, NEW T, NEW C, NEW len, Laid(m, F, T, C, NULL, len),
         NEW b, NEW d, IsBlock(b, m, T, C, len), IsBlock(d, m, T, C, len), b # d
  PROVE  A!Disjoint(b, d) /\ b.addr # d.addr
  <1> DEFINE Ld == LeadersOf(F, T, C, NULL)
  <1>1. Tiling(Ld, len) /\ T \cap C = {} /\ T \subseteq Ld /\ C \subseteq Ld
    <2>1. Tiling(Ld, len) /\ T \cap C = {}
      BY LaidFacts
    <2>2. Ld = F \cup T \cup C \cup LooseOf(NULL)
      BY DEF LeadersOf
    <2> QED
      BY <2>1, <2>2
  <1> HIDE DEF Ld
  <1>2. PICK p \in T \cup C :
          /\ BytesOf(b, p, len[p])
          /\ \/ p \in T /\ b = PageBlock(p, len[p])
             \/ p \in C /\ \E c \in Whole(m.slab[p].n) : b = ChunkBlock(p, c, m.slab[p].n) /\ m.slab[p].n \in Sizes
    BY BlockLies
  <1>3. PICK q \in T \cup C :
          /\ BytesOf(d, q, len[q])
          /\ \/ q \in T /\ d = PageBlock(q, len[q])
             \/ q \in C /\ \E c \in Whole(m.slab[q].n) : d = ChunkBlock(q, c, m.slab[q].n) /\ m.slab[q].n \in Sizes
    BY BlockLies
  <1>4. p \in Ld /\ q \in Ld /\ p \in Nat /\ q \in Nat /\ len[p] \in Nat /\ len[q] \in Nat
    BY <1>1, TileTypes
  <1>5. A!Disjoint(b, d)
    <2>1. CASE p # q
      <3>1. p + len[p] <= q \/ q + len[q] <= p
        BY <1>1, <1>4, <2>1, TileApart
      <3> QED
        BY <1>2, <1>3, <1>4, <3>1, BytesApart
    <2>2. CASE p = q
      <3>1. p \in C
        BY <1>1, <1>2, <1>3, <2>2
      <3>2. PICK size \in Sizes : size = m.slab[p].n
        BY <1>1, <1>2, <3>1
      <3>3. PICK c \in Whole(size) : b = ChunkBlock(p, c, size)
        BY <1>1, <1>2, <3>1, <3>2
      <3>4. PICK e \in Whole(size) : d = ChunkBlock(p, e, size)
        BY <1>1, <1>3, <2>2, <3>1, <3>2
      <3>5. c # e
        BY <3>3, <3>4
      <3> QED
        BY <1>4, <3>3, <3>4, <3>5, ChunksApart
    <2> QED
      BY <2>1, <2>2
  <1>6. b.addr # d.addr
    <2>1. b.addr \in Nat /\ d.addr \in Nat /\ b.len \in Nat /\ d.len \in Nat /\ b.len >= 1 /\ d.len >= 1
      BY <1>2, <1>3 DEF BytesOf
    <2> QED
      BY <1>5, <2>1 DEF A!Disjoint
  <1> QED
    BY <1>5, <1>6

(* What callers free. *)
LEMMA FreeableIs ==
  ASSUME NEW F, NEW T, NEW C, NEW len, Laid(Memory, F, T, C, NULL, len), NEW addr \in Freeable,
         NEW p, p = addr \div PageSize
  PROVE  /\ p \in PageNos /\ addr \in Nat
         /\ type[p] = "page" /\ addr % PageSize = 0 => addr = p * PageSize
         /\ type[p] # "page" =>
              \E size \in Sizes : \E c \in Whole(size) :
                /\ size = slab[p].n /\ c >= Reserved(size) /\ (addr % PageSize) \div size = c
                /\ addr = ChunkBlock(p, c, size).addr
  <1>1. PageSize \in Nat \ {0}
    BY SlabAssumption
  <1>2. /\ Memory.type = type /\ Memory.slab = slab
    BY DEF Memory
  <1>3. CASE \E q \in PageNos : type[q] = "page" /\ addr = q * PageSize
    <2>1. PICK q \in PageNos : type[q] = "page" /\ addr = q * PageSize
      BY <1>3
    <2>2. q \in Nat
      BY NodeFacts
    <2>3. ((q * PageSize) + 0) \div PageSize = q
      BY <1>1, <2>2, Quotient
    <2>4. (q * PageSize) + 0 = q * PageSize /\ q * PageSize \in Nat
      BY <1>1, <2>2
    <2>5. p = q
      BY <2>1, <2>3, <2>4
    <2> QED
      BY <2>1, <2>4, <2>5
  <1>4. CASE \E q \in PageNos : \E c \in Reserved(slab[q].n) .. NumberOf(slab[q].n) - 1 :
                type[q] # "page" /\ addr = q * PageSize + c * slab[q].n
    <2>a. PICK q \in PageNos : \E c \in Reserved(slab[q].n) .. NumberOf(slab[q].n) - 1 :
            type[q] # "page" /\ addr = q * PageSize + c * slab[q].n
      BY <1>4
    <2>1. PICK c \in Reserved(slab[q].n) .. NumberOf(slab[q].n) - 1 :
            type[q] # "page" /\ addr = q * PageSize + c * slab[q].n
      BY <2>a
    <2>2. PICK size : size = slab[q].n
      OBVIOUS
    <2>3. q \in C
      BY <1>2, <2>1, PagesShow
    <2>4. size \in Sizes
      BY <1>2, <2>2, <2>3 DEF Laid, CutOK, CutPage
    <2>5. c \in Whole(size) /\ c >= Reserved(size)
      BY <2>1, <2>2, <2>4, SizeFacts DEF Whole
    <2>6. q \in Nat
      BY NodeFacts
    <2>7. /\ ChunkBlock(q, c, size).addr = (q * PageSize) + (c * size)
          /\ ChunkBlock(q, c, size).addr \div PageSize = q
          /\ ChunkBlock(q, c, size).addr % PageSize = c * size
          /\ (c * size) \div size = c
          /\ ChunkBlock(q, c, size).addr \in Nat
      BY <2>4, <2>5, <2>6, ChunkBytes DEF BytesOf
    <2>8. addr = ChunkBlock(q, c, size).addr
      BY <2>1, <2>2, <2>7
    <2>9. p = q
      BY <2>7, <2>8
    <2> QED
      BY <2>1, <2>2, <2>4, <2>5, <2>7, <2>8, <2>9
  <1> QED
    BY <1>3, <1>4 DEF Freeable

-----------------------------------------------------------------------------
(* Counting. *)

LEMMA ReachCount ==
  ASSUME NEW p \in Nat, NEW n \in Nat
  PROVE  IsFiniteSet(Reach(p, n)) /\ Cardinality(Reach(p, n)) = n
  <1>1. p + n - 1 \in Int /\ (p > p + n - 1 <=> n = 0)
    OBVIOUS
  <1>2. /\ IsFiniteSet(p .. p + n - 1)
        /\ Cardinality(p .. p + n - 1) = IF p > p + n - 1 THEN 0 ELSE p + n - 1 - p + 1
    BY <1>1, FS_Interval
  <1> QED
    BY <1>1, <1>2 DEF Reach

LEMMA OpenFinite ==
  ASSUME NEW F, NEW len
  PROVE  IsFiniteSet(OpenPages(F, len))
  <1>1. IsFiniteSet(PageNos)
    <2>1. Pages - 1 \in Int
      BY SlabAssumption
    <2> QED
      BY <2>1, FS_Interval DEF PageNos
  <1>2. OpenPages(F, len) \in SUBSET PageNos
    BY DEF OpenPages
  <1> QED
    BY <1>1, <1>2, FS_Subset

LEMMA FreeLess ==
  ASSUME NEW pf, NEW F, NEW len, NEW Ld, Tiling(Ld, len), F \subseteq Ld, FreeIs(pf, F, len),
         NEW p \in F, NEW n \in Nat, n <= len[p],
         NEW G, NEW ln, OpenPages(G, ln) = OpenPages(F, len) \ Reach(p, n)
  PROVE  FreeIs(pf - n, G, ln)
  <1>1. p \in Nat /\ len[p] \in Nat
    BY TileTypes
  <1>2. Reach(p, n) \subseteq Reach(p, len[p])
    BY <1>1 DEF Reach
  <1>3. OpenPages(F, len) = UNION {Reach(q, len[q]) : q \in F}
    BY OpenFacts
  <1>4. OpenPages(F, len) \cap Reach(p, n) = Reach(p, n)
    BY <1>2, <1>3
  <1>5. IsFiniteSet(OpenPages(F, len))
    BY OpenFinite
  <1>6. Cardinality(OpenPages(F, len) \ Reach(p, n)) =
          Cardinality(OpenPages(F, len)) - Cardinality(OpenPages(F, len) \cap Reach(p, n))
    BY <1>5, FS_Difference
  <1>7. Cardinality(Reach(p, n)) = n
    BY <1>1, ReachCount
  <1> QED
    BY <1>4, <1>6, <1>7 DEF FreeIs

LEMMA FreeMore ==
  ASSUME NEW pf, NEW F, NEW len, NEW Ld, Tiling(Ld, len), F \subseteq Ld, FreeIs(pf, F, len),
         NEW p \in Ld, p \notin F,
         NEW G, NEW ln, OpenPages(G, ln) = OpenPages(F, len) \cup Reach(p, len[p])
  PROVE  FreeIs(pf + len[p], G, ln)
  <1>1. p \in Nat /\ len[p] \in Nat
    BY TileTypes
  <1>2. Reach(p, len[p]) \cap OpenPages(F, len) = {}
    BY OpenFacts
  <1>3. OpenPages(F, len) \cap Reach(p, len[p]) = {}
    BY <1>2
  <1>4. IsFiniteSet(OpenPages(F, len))
    BY OpenFinite
  <1>5. IsFiniteSet(Reach(p, len[p])) /\ Cardinality(Reach(p, len[p])) = len[p]
    BY <1>1, ReachCount
  <1>6. Cardinality(OpenPages(F, len) \cup Reach(p, len[p])) =
          Cardinality(OpenPages(F, len)) + Cardinality(Reach(p, len[p])) - Cardinality(OpenPages(F, len) \cap Reach(p, len[p]))
    BY <1>4, <1>5, FS_Union
  <1>7. PICK x \in Nat : x = Cardinality(OpenPages(F, len))
    BY <1>4, FS_CardinalityType
  <1>8. Cardinality(OpenPages(F, len) \cap Reach(p, len[p])) = 0
    BY <1>3, FS_EmptySet
  <1>9. Cardinality(OpenPages(G, ln)) = x + len[p]
    BY <1>1, <1>5, <1>6, <1>7, <1>8
  <1>10. pf = x
    BY <1>7 DEF FreeIs
  <1> QED
    BY <1>9, <1>10 DEF FreeIs

LEMMA HeldMore ==
  ASSUME NEW un, NEW bs, HeldIs(un, bs), un < MaxLive, NEW b, b \notin bs
  PROVE  HeldIs(un + 1, bs \cup {b})
  <1>1. IsFiniteSet(bs \cup {b}) /\ Cardinality(bs \cup {b}) = Cardinality(bs) + 1
    BY FS_AddElement DEF HeldIs
  <1>2. MaxLive \in Nat /\ un \in 0 .. MaxLive /\ un = Cardinality(bs)
    BY SlabAssumption DEF HeldIs
  <1>3. un + 1 \in 0 .. MaxLive
    BY <1>2
  <1> QED
    BY <1>1, <1>2, <1>3 DEF HeldIs

LEMMA HeldLess ==
  ASSUME NEW un, NEW bs, HeldIs(un, bs), NEW b \in bs
  PROVE  HeldIs(un - 1, bs \ {b})
  <1>1. IsFiniteSet(bs \ {b}) /\ Cardinality(bs \ {b}) = Cardinality(bs) - 1
    BY FS_RemoveElement DEF HeldIs
  <1>2. Cardinality(bs \ {b}) \in Nat
    BY <1>1, FS_CardinalityType
  <1>3. MaxLive \in Nat /\ un \in 0 .. MaxLive /\ un = Cardinality(bs)
    BY SlabAssumption DEF HeldIs
  <1>4. un - 1 \in 0 .. MaxLive
    BY <1>1, <1>2, <1>3
  <1> QED
    BY <1>1, <1>3, <1>4 DEF HeldIs

LongOf(bs, size) == {b \in bs : b.len = size}

LEMMA LongFinite ==
  ASSUME NEW bs, IsFiniteSet(bs)
  PROVE  \A size : IsFiniteSet(LongOf(bs, size)) /\ Cardinality(LongOf(bs, size)) \in Nat
  <1> SUFFICES ASSUME NEW size
               PROVE  IsFiniteSet(LongOf(bs, size)) /\ Cardinality(LongOf(bs, size)) \in Nat
    OBVIOUS
  <1>1. LongOf(bs, size) \in SUBSET bs
    BY DEF LongOf
  <1>2. IsFiniteSet(LongOf(bs, size))
    BY <1>1, FS_Subset
  <1> QED
    BY <1>2, FS_CardinalityType

LEMMA UsedMore ==
  ASSUME NEW us, NEW bs, IsFiniteSet(bs), UsedIs(us, bs), NEW b, b \notin bs, NEW size \in Sizes, b.len = size
  PROVE  UsedIs([us EXCEPT ![size] = @ + 1], bs \cup {b})
  <1>1. us \in [Sizes -> Nat] /\ \A s \in Sizes : us[s] = Cardinality(LongOf(bs, s))
    BY DEF UsedIs, LongOf
  <1>2. \A s \in Sizes : s # size => LongOf(bs \cup {b}, s) = LongOf(bs, s)
    BY DEF LongOf
  <1>3. LongOf(bs \cup {b}, size) = LongOf(bs, size) \cup {b} /\ b \notin LongOf(bs, size)
    BY DEF LongOf
  <1>4. IsFiniteSet(LongOf(bs, size))
    BY LongFinite
  <1>5. Cardinality(LongOf(bs, size) \cup {b}) = Cardinality(LongOf(bs, size)) + 1
    BY <1>3, <1>4, FS_AddElement
  <1>6. PICK w : w = [us EXCEPT ![size] = @ + 1]
    OBVIOUS
  <1>7. w \in [Sizes -> Nat] /\ \A s \in Sizes : w[s] = IF s = size THEN us[size] + 1 ELSE us[s]
    BY <1>1, <1>6
  <1>8. \A s \in Sizes : w[s] = Cardinality(LongOf(bs \cup {b}, s))
    BY <1>1, <1>2, <1>3, <1>5, <1>7
  <1>9. UsedIs(w, bs \cup {b})
    BY <1>7, <1>8 DEF UsedIs, LongOf
  <1> QED
    BY <1>6, <1>9

LEMMA UsedLess ==
  ASSUME NEW us, NEW bs, IsFiniteSet(bs), UsedIs(us, bs), NEW b \in bs, NEW size \in Sizes, b.len = size
  PROVE  UsedIs([us EXCEPT ![size] = @ - 1], bs \ {b})
  <1>1. us \in [Sizes -> Nat] /\ \A s \in Sizes : us[s] = Cardinality(LongOf(bs, s))
    BY DEF UsedIs, LongOf
  <1>2. \A s \in Sizes : s # size => LongOf(bs \ {b}, s) = LongOf(bs, s)
    BY DEF LongOf
  <1>3. LongOf(bs \ {b}, size) = LongOf(bs, size) \ {b} /\ b \in LongOf(bs, size)
    BY DEF LongOf
  <1>4. IsFiniteSet(LongOf(bs, size)) /\ Cardinality(LongOf(bs \ {b}, size)) \in Nat
    <2>1. IsFiniteSet(bs \ {b})
      BY FS_RemoveElement
    <2> QED
      BY <2>1, LongFinite
  <1>5. Cardinality(LongOf(bs, size) \ {b}) = Cardinality(LongOf(bs, size)) - 1
    BY <1>3, <1>4, FS_RemoveElement
  <1>6. PICK w : w = [us EXCEPT ![size] = @ - 1]
    OBVIOUS
  <1>7. us[size] - 1 \in Nat
    BY <1>1, <1>3, <1>4, <1>5
  <1>8. w \in [Sizes -> Nat] /\ \A s \in Sizes : w[s] = IF s = size THEN us[size] - 1 ELSE us[s]
    BY <1>1, <1>6, <1>7
  <1>9. \A s \in Sizes : w[s] = Cardinality(LongOf(bs \ {b}, s))
    BY <1>1, <1>2, <1>3, <1>5, <1>8
  <1>10. UsedIs(w, bs \ {b})
    BY <1>8, <1>9 DEF UsedIs, LongOf
  <1> QED
    BY <1>6, <1>10

LEMMA UsedSame ==
  ASSUME NEW us, NEW bs, UsedIs(us, bs), NEW b, \A size \in Sizes : b.len # size
  PROVE  UsedIs(us, bs \cup {b}) /\ UsedIs(us, bs \ {b})
  <1>1. us \in [Sizes -> Nat] /\ \A s \in Sizes : us[s] = Cardinality(LongOf(bs, s))
    BY DEF UsedIs, LongOf
  <1>2. \A s \in Sizes : LongOf(bs \cup {b}, s) = LongOf(bs, s) /\ LongOf(bs \ {b}, s) = LongOf(bs, s)
    BY DEF LongOf
  <1>3. \A s \in Sizes : us[s] = Cardinality(LongOf(bs \cup {b}, s)) /\ us[s] = Cardinality(LongOf(bs \ {b}, s))
    BY <1>1, <1>2
  <1> QED
    BY <1>1, <1>3 DEF UsedIs, LongOf

LEMMA TotalSame ==
  ASSUME NEW tl, NEW m, NEW C, TotalIs(tl, m, C), NEW t, \A r \in C : t.slab[r] = m.slab[r]
  PROVE  TotalIs(tl, t, C)
  <1>1. \A size \in Sizes : CutFor(t, C, size) = CutFor(m, C, size)
    BY DEF CutFor
  <1>2. /\ tl \in [Sizes -> Nat]
        /\ \A size \in Sizes : tl[size] = (NumberOf(size) - Reserved(size)) * Cardinality(CutFor(m, C, size))
    BY DEF TotalIs
  <1>3. \A size \in Sizes : tl[size] = (NumberOf(size) - Reserved(size)) * Cardinality(CutFor(t, C, size))
    BY <1>1, <1>2
  <1> QED
    BY <1>2, <1>3 DEF TotalIs

LEMMA CutFinite ==
  ASSUME NEW m, NEW C, C \subseteq PageNos
  PROVE  \A size : IsFiniteSet(CutFor(m, C, size)) /\ Cardinality(CutFor(m, C, size)) \in Nat
  <1> SUFFICES ASSUME NEW size
               PROVE  IsFiniteSet(CutFor(m, C, size)) /\ Cardinality(CutFor(m, C, size)) \in Nat
    OBVIOUS
  <1>1. IsFiniteSet(PageNos)
    <2>1. Pages - 1 \in Int
      BY SlabAssumption
    <2> QED
      BY <2>1, FS_Interval DEF PageNos
  <1>2. CutFor(m, C, size) \in SUBSET PageNos
    BY DEF CutFor
  <1>3. IsFiniteSet(CutFor(m, C, size))
    BY <1>1, <1>2, FS_Subset
  <1> QED
    BY <1>3, FS_CardinalityType

(* One product more, one less. *)
LEMMA OneMore ==
  ASSUME NEW d \in Nat, NEW k \in Nat
  PROVE  d * (k + 1) = (d * k) + d /\ (d * k) + d \in Nat
  OBVIOUS

LEMMA TotalMore ==
  ASSUME BitsFit, NEW tl, NEW m, NEW C, C \subseteq PageNos, TotalIs(tl, m, C), NEW t, \A r \in C : t.slab[r] = m.slab[r],
         NEW p \in PageNos, p \notin C, NEW size \in Sizes, t.slab[p].n = size
  PROVE  TotalIs([tl EXCEPT ![size] = @ + NumberOf(size) - Reserved(size)], t, C \cup {p})
  <1>1. /\ tl \in [Sizes -> Nat]
        /\ \A s \in Sizes : tl[s] = (NumberOf(s) - Reserved(s)) * Cardinality(CutFor(m, C, s))
    BY DEF TotalIs
  <1>2. \A s \in Sizes : s # size => CutFor(t, C \cup {p}, s) = CutFor(m, C, s)
    BY DEF CutFor
  <1>3. CutFor(t, C \cup {p}, size) = CutFor(m, C, size) \cup {p} /\ p \notin CutFor(m, C, size)
    BY DEF CutFor
  <1>4. IsFiniteSet(CutFor(m, C, size)) /\ Cardinality(CutFor(m, C, size)) \in Nat
    BY CutFinite
  <1>5. PICK k \in Nat : k = Cardinality(CutFor(m, C, size))
    BY <1>4
  <1>6. Cardinality(CutFor(t, C \cup {p}, size)) = k + 1
    BY <1>3, <1>4, <1>5, FS_AddElement
  <1>7. PICK d \in Nat : d = NumberOf(size) - Reserved(size)
    BY SizeFacts, RoomForOne
  <1>8. tl[size] = d * k /\ tl[size] \in Nat
    BY <1>1, <1>5, <1>7
  <1>9. tl[size] + NumberOf(size) - Reserved(size) = tl[size] + d
    BY <1>7, <1>8, SizeFacts
  <1>10. PICK w : w = [tl EXCEPT ![size] = @ + NumberOf(size) - Reserved(size)]
    OBVIOUS
  <1>11. w \in [Sizes -> Nat] /\ \A s \in Sizes : w[s] = IF s = size THEN tl[size] + d ELSE tl[s]
    <2>1. tl[size] + d \in Nat
      BY <1>8
    <2>2. w = [tl EXCEPT ![size] = tl[size] + d]
      BY <1>9, <1>10
    <2> QED
      BY <1>1, <2>1, <2>2
  <1>12. tl[size] + d = d * (k + 1)
    BY <1>8, OneMore
  <1>13. \A s \in Sizes : w[s] = (NumberOf(s) - Reserved(s)) * Cardinality(CutFor(t, C \cup {p}, s))
    <2>1. \A s \in Sizes : s # size => w[s] = (NumberOf(s) - Reserved(s)) * Cardinality(CutFor(t, C \cup {p}, s))
      BY <1>1, <1>2, <1>11
    <2>2. w[size] = (NumberOf(size) - Reserved(size)) * Cardinality(CutFor(t, C \cup {p}, size))
      BY <1>6, <1>7, <1>11, <1>12
    <2> QED
      BY <2>1, <2>2
  <1>14. TotalIs(w, t, C \cup {p})
    BY <1>11, <1>13 DEF TotalIs
  <1> QED
    BY <1>10, <1>14

LEMMA TotalLess ==
  ASSUME BitsFit, NEW tl, NEW m, NEW C, C \subseteq PageNos, TotalIs(tl, m, C),
         NEW p \in C, NEW size \in Sizes, m.slab[p].n = size, NEW t, \A r \in C \ {p} : t.slab[r] = m.slab[r]
  PROVE  TotalIs([tl EXCEPT ![size] = @ - (NumberOf(size) - Reserved(size))], t, C \ {p})
  <1>1. /\ tl \in [Sizes -> Nat]
        /\ \A s \in Sizes : tl[s] = (NumberOf(s) - Reserved(s)) * Cardinality(CutFor(m, C, s))
    BY DEF TotalIs
  <1>2. \A s \in Sizes : s # size => CutFor(t, C \ {p}, s) = CutFor(m, C, s)
    BY DEF CutFor
  <1>3. CutFor(t, C \ {p}, size) = CutFor(m, C, size) \ {p} /\ p \in CutFor(m, C, size)
    BY DEF CutFor
  <1>4. IsFiniteSet(CutFor(m, C, size)) /\ Cardinality(CutFor(t, C \ {p}, size)) \in Nat
    <2>1. C \ {p} \subseteq PageNos
      OBVIOUS
    <2> QED
      BY <2>1, CutFinite
  <1>5. PICK k \in Nat : k = Cardinality(CutFor(t, C \ {p}, size))
    BY <1>4
  <1>6. Cardinality(CutFor(m, C, size)) = k + 1
    <2>1. Cardinality(CutFor(m, C, size) \ {p}) = Cardinality(CutFor(m, C, size)) - 1
      BY <1>3, <1>4, FS_RemoveElement
    <2>2. PICK x \in Nat : x = Cardinality(CutFor(m, C, size))
      BY CutFinite
    <2>3. k = x - 1
      BY <1>3, <1>5, <2>1, <2>2
    <2>4. x = k + 1
      BY <2>3
    <2> QED
      BY <2>2, <2>4
  <1>7. PICK d \in Nat : d = NumberOf(size) - Reserved(size)
    BY SizeFacts, RoomForOne
  <1>8. tl[size] = d * (k + 1) /\ d * k \in Nat
    BY <1>1, <1>6, <1>7
  <1>9. tl[size] - d = d * k
    <2>1. PICK x \in Nat : x = d * k
      BY <1>8
    <2>2. tl[size] = x + d
      BY <1>8, <2>1, OneMore
    <2> QED
      BY <2>1, <2>2
  <1>10. PICK w : w = [tl EXCEPT ![size] = @ - (NumberOf(size) - Reserved(size))]
    OBVIOUS
  <1>11. w \in [Sizes -> Nat] /\ \A s \in Sizes : w[s] = IF s = size THEN d * k ELSE tl[s]
    <2>1. w = [tl EXCEPT ![size] = d * k]
      BY <1>7, <1>9, <1>10
    <2> QED
      BY <1>1, <1>8, <2>1
  <1>12. \A s \in Sizes : w[s] = (NumberOf(s) - Reserved(s)) * Cardinality(CutFor(t, C \ {p}, s))
    <2>1. \A s \in Sizes : s # size => w[s] = (NumberOf(s) - Reserved(s)) * Cardinality(CutFor(t, C \ {p}, s))
      BY <1>1, <1>2, <1>11
    <2>2. w[size] = (NumberOf(size) - Reserved(size)) * Cardinality(CutFor(t, C \ {p}, size))
      BY <1>5, <1>7, <1>11
    <2> QED
      BY <2>1, <2>2
  <1>13. TotalIs(w, t, C \ {p})
    BY <1>11, <1>12 DEF TotalIs
  <1> QED
    BY <1>10, <1>13

-----------------------------------------------------------------------------
(* The blocks of one page or run, and what a call changes of them. *)
BlockAt(b, m, T, C, len, p) ==
  \/ p \in T /\ b = PageBlock(p, len[p])
  \/ p \in C /\ \E c \in m.busy[p] : c >= Reserved(m.slab[p].n) /\ b = ChunkBlock(p, c, m.slab[p].n)

LEMMA BlockAtPage ==
  ASSUME NEW m, NEW F, NEW T, NEW C, NEW len, Laid(m, F, T, C, NULL, len), NEW b, NEW p, BlockAt(b, m, T, C, len, p)
  PROVE  b.addr \div PageSize = p
  <1>1. /\ T \subseteq PageNos /\ C \subseteq PageNos
        /\ \A q \in T : len[q] \in Nat /\ len[q] >= 1
    BY LaidFacts
  <1>2. CASE p \in T /\ b = PageBlock(p, len[p])
    <2>1. p \in Nat /\ len[p] \in Nat /\ len[p] >= 1
      BY <1>1, <1>2, NodeFacts
    <2> QED
      BY <1>2, <2>1, RunBytes
  <1>3. CASE p \in C /\ \E c \in m.busy[p] : c >= Reserved(m.slab[p].n) /\ b = ChunkBlock(p, c, m.slab[p].n)
    <2>1. PICK c \in m.busy[p] : b = ChunkBlock(p, c, m.slab[p].n)
      BY <1>3
    <2>2. PICK size : size = m.slab[p].n
      OBVIOUS
    <2>3. CutPage(m, p, size)
      BY <1>3, <2>2 DEF Laid, CutOK
    <2>4. size \in Sizes /\ c \in Whole(size)
      BY <2>3 DEF CutPage
    <2>5. p \in Nat
      BY <1>1, <1>3, NodeFacts
    <2> QED
      BY <2>1, <2>2, <2>4, <2>5, ChunkBytes
  <1> QED
    BY <1>2, <1>3 DEF BlockAt

LEMMA BlockSomewhere ==
  ASSUME NEW b, NEW m, NEW T, NEW C, NEW len
  PROVE  IsBlock(b, m, T, C, len) <=> \E p : BlockAt(b, m, T, C, len, p)
  BY DEF IsBlock, BlockAt

SameAt(m, T, C, len, t, U, D, ln, p) ==
  \A b, r : r # p => (BlockAt(b, t, U, D, ln, r) <=> BlockAt(b, m, T, C, len, r))

LEMMA AtSame ==
  ASSUME NEW m, NEW T, NEW C, NEW len, NEW t, NEW U, NEW D, NEW ln, NEW p,
         T \ {p} = U \ {p}, C \ {p} = D \ {p}, \A r \in T \ {p} : ln[r] = len[r],
         \A r \in C \ {p} : t.slab[r] = m.slab[r] /\ t.busy[r] = m.busy[r]
  PROVE  SameAt(m, T, C, len, t, U, D, ln, p)
  <1> SUFFICES ASSUME NEW b, NEW r, r # p
               PROVE  BlockAt(b, t, U, D, ln, r) <=> BlockAt(b, m, T, C, len, r)
    BY DEF SameAt
  <1>1. (r \in T <=> r \in U) /\ (r \in C <=> r \in D)
    OBVIOUS
  <1>2. r \in T => ln[r] = len[r]
    OBVIOUS
  <1>3. r \in C => t.slab[r] = m.slab[r] /\ t.busy[r] = m.busy[r]
    OBVIOUS
  <1> QED
    BY <1>1, <1>2, <1>3 DEF BlockAt

LEMMA BlockAdded ==
  ASSUME NEW bs, NEW m, NEW T, NEW C, NEW len, LiveIs(bs, m, T, C, len), NEW t, NEW U, NEW D, NEW ln, NEW p,
         SameAt(m, T, C, len, t, U, D, ln, p), NEW d,
         \A b : BlockAt(b, t, U, D, ln, p) <=> BlockAt(b, m, T, C, len, p) \/ b = d
  PROVE  LiveIs(bs \cup {d}, t, U, D, ln)
  <1> SUFFICES ASSUME NEW b
               PROVE  b \in bs \cup {d} <=> IsBlock(b, t, U, D, ln)
    BY DEF LiveIs
  <1>1. b \in bs <=> \E r : BlockAt(b, m, T, C, len, r)
    BY BlockSomewhere DEF LiveIs
  <1>2. IsBlock(b, t, U, D, ln) <=> \E r : BlockAt(b, t, U, D, ln, r)
    BY BlockSomewhere
  <1>3. \A r : r # p => (BlockAt(b, t, U, D, ln, r) <=> BlockAt(b, m, T, C, len, r))
    BY DEF SameAt
  <1>4. BlockAt(b, t, U, D, ln, p) <=> BlockAt(b, m, T, C, len, p) \/ b = d
    OBVIOUS
  <1> QED
    BY <1>1, <1>2, <1>3, <1>4

LEMMA BlockRemoved ==
  ASSUME NEW bs, NEW m, NEW F, NEW T, NEW C, NEW len, Laid(m, F, T, C, NULL, len), LiveIs(bs, m, T, C, len),
         NEW t, NEW U, NEW D, NEW ln, NEW p, SameAt(m, T, C, len, t, U, D, ln, p), NEW d, BlockAt(d, m, T, C, len, p),
         \A b : BlockAt(b, t, U, D, ln, p) <=> BlockAt(b, m, T, C, len, p) /\ b # d
  PROVE  LiveIs(bs \ {d}, t, U, D, ln) /\ d \in bs
  <1>1. \A b : b \in bs <=> \E r : BlockAt(b, m, T, C, len, r)
    BY BlockSomewhere DEF LiveIs
  <1>2. \A r : BlockAt(d, m, T, C, len, r) => r = p
    <2>1. d.addr \div PageSize = p
      BY BlockAtPage
    <2>2. \A r : BlockAt(d, m, T, C, len, r) => d.addr \div PageSize = r
      BY BlockAtPage
    <2> QED
      BY <2>1, <2>2
  <1>3. ASSUME NEW b
        PROVE  b \in bs \ {d} <=> IsBlock(b, t, U, D, ln)
    <2>1. b \in bs <=> \E r : BlockAt(b, m, T, C, len, r)
      BY <1>1
    <2>2. IsBlock(b, t, U, D, ln) <=> \E r : BlockAt(b, t, U, D, ln, r)
      BY BlockSomewhere
    <2>3. \A r : r # p => (BlockAt(b, t, U, D, ln, r) <=> BlockAt(b, m, T, C, len, r))
      BY DEF SameAt
    <2>4. BlockAt(b, t, U, D, ln, p) <=> BlockAt(b, m, T, C, len, p) /\ b # d
      OBVIOUS
    <2> QED
      BY <1>2, <2>1, <2>2, <2>3, <2>4
  <1>4. d \in bs
    BY <1>1
  <1> QED
    BY <1>3, <1>4 DEF LiveIs

-----------------------------------------------------------------------------
(* The calls. *)

LEMMA RunTaken ==
  ASSUME NEW m, NEW bs, NEW pf, NEW un, NEW us, NEW tl, NEW F, NEW T, NEW C, NEW len,
         Shaped(m, bs, pf, un, us, tl, F, T, C, len), un < MaxLive,
         NEW p \in F, NEW n \in Nat, 0 < n, n <= len[p]
  PROVE  InShape(TakeRun(m, p, n), bs \cup {PageBlock(p, n)}, pf - n, un + 1, us, tl)
  <1>1. /\ Laid(m, F, T, C, NULL, len) /\ LiveIs(bs, m, T, C, len)
        /\ FreeIs(pf, F, len) /\ HeldIs(un, bs) /\ UsedIs(us, bs) /\ TotalIs(tl, m, C)
    BY DEF Shaped
  <1>2. /\ F \subseteq PageNos /\ T \subseteq PageNos /\ F \cap T = {} /\ F \cap C = {}
        /\ Tiling(LeadersOf(F, T, C, NULL), len)
    BY <1>1, LaidFacts
  <1>3. PICK t : t = TakeRun(m, p, n)
    OBVIOUS
  <1>4. TakenFrom(m, t, F, T, C, len, p, n)
    <2>1. TakenFrom(m, TakeRun(m, p, n), F, T, C, len, p, n)
      BY <1>1, TakeRunLaid
    <2> QED
      BY <1>3, <2>1
  <1>5. PICK G \in SUBSET PageNos, ln \in [PageNos -> Nat] :
          /\ Laid(t, G, T \cup {p}, C, NULL, ln) /\ ln[p] = n /\ \A r \in T \cup C : ln[r] = len[r]
          /\ OpenPages(G, ln) = OpenPages(F, len) \ Reach(p, n)
          /\ \A r \in C : t.slab[r] = m.slab[r] /\ t.busy[r] = m.busy[r]
    BY <1>4 DEF TakenFrom
  <1>6. PICK U : U = T \cup {p}
    OBVIOUS
  <1>7. PICK b : b = PageBlock(p, n)
    OBVIOUS
  <1>8. SameAt(m, T, C, len, t, U, C, ln, p)
    <2>1. T \ {p} = U \ {p} /\ \A r \in T \ {p} : ln[r] = len[r]
      BY <1>5, <1>6
    <2>2. \A r \in C \ {p} : t.slab[r] = m.slab[r] /\ t.busy[r] = m.busy[r]
      BY <1>5
    <2> QED
      BY <2>1, <2>2, AtSame
  <1>9. p \notin T /\ p \notin C /\ p \in U /\ p \in PageNos
    BY <1>2, <1>6
  <1>10. \A d : BlockAt(d, t, U, C, ln, p) <=> BlockAt(d, m, T, C, len, p) \/ d = b
    BY <1>5, <1>7, <1>9 DEF BlockAt
  <1>11. LiveIs(bs \cup {b}, t, U, C, ln)
    BY <1>1, <1>8, <1>10, BlockAdded
  <1>12. p \in Nat /\ BytesOf(b, p, n) /\ (\A size \in Sizes : b.len # size) /\ b.addr \div PageSize = p
    <2>1. p \in Nat /\ n >= 1
      BY <1>9, NodeFacts
    <2> QED
      BY <1>7, <2>1, RunBytes
  <1>13. b \notin bs
    <2>1. ASSUME b \in bs
          PROVE  FALSE
      <3>1. PICK r : BlockAt(b, m, T, C, len, r)
        BY <1>1, <2>1, BlockSomewhere DEF LiveIs
      <3>2. r = p
        BY <1>1, <1>12, <3>1, BlockAtPage
      <3> QED
        BY <1>9, <3>1, <3>2 DEF BlockAt
    <2> QED
      BY <2>1
  <1>14. FreeIs(pf - n, G, ln)
    <2>1. F \subseteq LeadersOf(F, T, C, NULL)
      BY DEF LeadersOf
    <2> QED
      BY <1>1, <1>2, <1>5, <2>1, FreeLess
  <1>15. HeldIs(un + 1, bs \cup {b})
    BY <1>1, <1>13, HeldMore
  <1>16. UsedIs(us, bs \cup {b})
    BY <1>1, <1>12, UsedSame
  <1>17. TotalIs(tl, t, C)
    BY <1>1, <1>5, TotalSame
  <1>18. Laid(t, G, U, C, NULL, ln)
    BY <1>5, <1>6
  <1>19. Shaped(t, bs \cup {b}, pf - n, un + 1, us, tl, G, U, C, ln)
    BY <1>11, <1>14, <1>15, <1>16, <1>17, <1>18 DEF Shaped
  <1>20. U \in SUBSET PageNos /\ C \in SUBSET PageNos
    BY <1>1, <1>2, <1>6, <1>9, LaidFacts
  <1>21. InShape(t, bs \cup {b}, pf - n, un + 1, us, tl)
    BY <1>5, <1>19, <1>20 DEF InShape
  <1> QED
    BY <1>3, <1>7, <1>21

(* A page is taken and cut into chunks, the first of which is handed out. *)
LEMMA PageOpened ==
  ASSUME BitsFit, NEW m, NEW bs, NEW pf, NEW un, NEW us, NEW tl, NEW F, NEW T, NEW C, NEW len,
         Shaped(m, bs, pf, un, us, tl, F, T, C, len), un < MaxLive,
         NEW p \in F, 1 <= len[p], NEW size \in Sizes, Room(m, C, size) = {}
  PROVE  InShape(CutUp(TakeRun(m, p, 1), p, size), bs \cup {ChunkBlock(p, Reserved(size), size)}, pf - 1, un + 1,
                 [us EXCEPT ![size] = @ + 1], [tl EXCEPT ![size] = @ + NumberOf(size) - Reserved(size)])
  <1>1. /\ Laid(m, F, T, C, NULL, len) /\ LiveIs(bs, m, T, C, len)
        /\ FreeIs(pf, F, len) /\ HeldIs(un, bs) /\ UsedIs(us, bs) /\ TotalIs(tl, m, C)
    BY DEF Shaped
  <1>2. /\ F \subseteq PageNos /\ T \subseteq PageNos /\ C \subseteq PageNos /\ F \cap T = {} /\ F \cap C = {}
        /\ Tiling(LeadersOf(F, T, C, NULL), len)
    BY <1>1, LaidFacts
  <1>3. PICK t : t = TakeRun(m, p, 1)
    OBVIOUS
  <1>4. TakenFrom(m, t, F, T, C, len, p, 1)
    <2>1. TakenFrom(m, TakeRun(m, p, 1), F, T, C, len, p, 1)
      BY <1>1, TakeRunLaid
    <2> QED
      BY <1>3, <2>1
  <1>5. PICK G \in SUBSET PageNos, ln \in [PageNos -> Nat] :
          /\ Laid(t, G, T \cup {p}, C, NULL, ln) /\ ln[p] = 1 /\ \A r \in T \cup C : ln[r] = len[r]
          /\ OpenPages(G, ln) = OpenPages(F, len) \ Reach(p, 1)
          /\ \A r \in C : t.slab[r] = m.slab[r] /\ t.busy[r] = m.busy[r]
    BY <1>4 DEF TakenFrom
  <1>6. PICK U : U = T \cup {p}
    OBVIOUS
  <1>7. PICK u : u = CutUp(t, p, size)
    OBVIOUS
  <1>8. p \notin T /\ p \notin C /\ p \in U /\ p \in PageNos /\ T = U \ {p}
    BY <1>2, <1>6
  <1>9. PICK D : D = C \cup {p}
    OBVIOUS
  <1>10. CutTo(t, u, G, U, C, ln, p, size)
    <2>1. Laid(t, G, U, C, NULL, ln)
      BY <1>5, <1>6
    <2>2. Room(t, C, size) = {}
      BY <1>5 DEF Room
    <2>3. CutTo(t, CutUp(t, p, size), G, U, C, ln, p, size)
      BY <1>5, <1>8, <2>1, <2>2, CutUpLaid
    <2> QED
      BY <1>7, <2>3
  <1>11. /\ Laid(u, G, T, D, NULL, ln) /\ u.slab[p] = Chunks(size) /\ u.busy[p] = FirstBits(size)
         /\ \A r \in C : u.slab[r] = m.slab[r] /\ u.busy[r] = m.busy[r]
    BY <1>5, <1>8, <1>9, <1>10 DEF CutTo
  <1>12. PICK b : b = ChunkBlock(p, Reserved(size), size)
    OBVIOUS
  <1>13. SameAt(m, T, C, len, u, T, D, ln, p)
    <2>1. C \ {p} = D \ {p} /\ \A r \in T \ {p} : ln[r] = len[r]
      BY <1>5, <1>9
    <2>2. \A r \in C \ {p} : u.slab[r] = m.slab[r] /\ u.busy[r] = m.busy[r]
      BY <1>11
    <2> QED
      BY <2>1, <2>2, AtSame
  <1>14. Reserved(size) \in Nat /\ FirstBits(size) = 0 .. Reserved(size) /\ Reserved(size) \in Whole(size)
    <2>1. Reserved(size) \in Nat
      BY SizeFacts
    <2>2. FirstBits(size) = 0 .. Reserved(size) /\ FirstBits(size) \subseteq Whole(size)
      BY FirstBitsFacts
    <2> QED
      BY <2>1, <2>2
  <1>15. u.slab[p].n = size
    BY <1>11, FieldFacts
  <1>16. \A d : BlockAt(d, u, T, D, ln, p) <=> BlockAt(d, m, T, C, len, p) \/ d = b
    <2> SUFFICES ASSUME NEW d
                 PROVE  BlockAt(d, u, T, D, ln, p) <=> BlockAt(d, m, T, C, len, p) \/ d = b
      OBVIOUS
    <2>1. ~ BlockAt(d, m, T, C, len, p)
      BY <1>8 DEF BlockAt
    <2>2. BlockAt(d, u, T, D, ln, p) <=> \E c \in FirstBits(size) : c >= Reserved(size) /\ d = ChunkBlock(p, c, size)
      BY <1>8, <1>9, <1>11, <1>15 DEF BlockAt
    <2>3. \A c \in FirstBits(size) : c >= Reserved(size) <=> c = Reserved(size)
      BY <1>14
    <2>4. Reserved(size) \in FirstBits(size)
      BY <1>14
    <2> QED
      BY <1>12, <2>1, <2>2, <2>3, <2>4
  <1>17. LiveIs(bs \cup {b}, u, T, D, ln)
    BY <1>1, <1>13, <1>16, BlockAdded
  <1>18. p \in Nat /\ b.len = size /\ b.addr \div PageSize = p
    <2>1. p \in Nat
      BY <1>8, NodeFacts
    <2> QED
      BY <1>12, <1>14, <2>1, ChunkBytes
  <1>19. b \notin bs
    <2>1. ASSUME b \in bs
          PROVE  FALSE
      <3>1. PICK r : BlockAt(b, m, T, C, len, r)
        BY <1>1, <2>1, BlockSomewhere DEF LiveIs
      <3>2. r = p
        BY <1>1, <1>18, <3>1, BlockAtPage
      <3> QED
        BY <1>8, <3>1, <3>2 DEF BlockAt
    <2> QED
      BY <2>1
  <1>20. FreeIs(pf - 1, G, ln)
    <2>1. F \subseteq LeadersOf(F, T, C, NULL)
      BY DEF LeadersOf
    <2> QED
      BY <1>1, <1>2, <1>5, <2>1, FreeLess
  <1>21. HeldIs(un + 1, bs \cup {b})
    BY <1>1, <1>19, HeldMore
  <1>22. UsedIs([us EXCEPT ![size] = @ + 1], bs \cup {b})
    BY <1>1, <1>18, <1>19, UsedMore DEF HeldIs
  <1>23. TotalIs([tl EXCEPT ![size] = @ + NumberOf(size) - Reserved(size)], u, D)
    <2>1. \A r \in C : u.slab[r] = m.slab[r]
      BY <1>11
    <2>2. TotalIs([tl EXCEPT ![size] = @ + NumberOf(size) - Reserved(size)], u, C \cup {p})
      BY <1>1, <1>2, <1>8, <1>15, <2>1, TotalMore
    <2> QED
      BY <1>9, <2>2
  <1>24. PICK ws, wl : ws = [us EXCEPT ![size] = @ + 1] /\ wl = [tl EXCEPT ![size] = @ + NumberOf(size) - Reserved(size)]
    OBVIOUS
  <1>25. Shaped(u, bs \cup {b}, pf - 1, un + 1, ws, wl, G, T, D, ln)
    BY <1>11, <1>17, <1>20, <1>21, <1>22, <1>23, <1>24 DEF Shaped
  <1>26. D \in SUBSET PageNos /\ T \in SUBSET PageNos
    BY <1>2, <1>8, <1>9
  <1>27. InShape(u, bs \cup {b}, pf - 1, un + 1, ws, wl)
    BY <1>5, <1>25, <1>26 DEF InShape
  <1> QED
    BY <1>3, <1>7, <1>12, <1>24, <1>27

(* A chunk of a page that has one. *)
LEMMA ChunkTaken ==
  ASSUME NEW m, NEW bs, NEW pf, NEW un, NEW us, NEW tl, NEW F, NEW T, NEW C, NEW len,
         Shaped(m, bs, pf, un, us, tl, F, T, C, len), un < MaxLive,
         NEW size \in Sizes, NEW p \in Room(m, C, size), NEW c, c \in Whole(size), c \notin m.busy[p]
  PROVE  Shaped(DropFull(Marked(m, p, m.busy[p] \cup {c}), p, size), bs \cup {ChunkBlock(p, c, size)}, pf, un + 1,
                [us EXCEPT ![size] = @ + 1], tl, F, T, C, len)
  <1>1. /\ Laid(m, F, T, C, NULL, len) /\ LiveIs(bs, m, T, C, len)
        /\ FreeIs(pf, F, len) /\ HeldIs(un, bs) /\ UsedIs(us, bs) /\ TotalIs(tl, m, C)
    BY DEF Shaped
  <1>2. /\ C \subseteq PageNos /\ T \cap C = {}
    BY <1>1, LaidFacts
  <1>3. p \in C /\ m.slab[p].n = size
    BY DEF Room
  <1>4. CutPage(m, p, size)
    BY <1>1, <1>3 DEF Laid, CutOK
  <1>5. PICK bits : bits = m.busy[p] \cup {c}
    OBVIOUS
  <1>6. m.busy[p] \subseteq bits /\ bits \subseteq Whole(size)
    BY <1>4, <1>5 DEF CutPage
  <1>7. PICK u : u = DropFull(Marked(m, p, bits), p, size)
    OBVIOUS
  <1>8. MarkedTo(m, u, F, T, C, len, p, bits)
    <2>1. MarkedTo(m, DropFull(Marked(m, p, bits), p, size), F, T, C, len, p, bits)
      BY <1>1, <1>6, TakeChunkLaid
    <2> QED
      BY <1>7, <2>1
  <1>9. /\ Laid(u, F, T, C, NULL, len) /\ \A r \in C : u.slab[r] = m.slab[r]
        /\ u.busy[p] = bits /\ \A r \in C : r # p => u.busy[r] = m.busy[r]
    BY <1>8 DEF MarkedTo
  <1>10. PICK b : b = ChunkBlock(p, c, size)
    OBVIOUS
  <1>11. SameAt(m, T, C, len, u, T, C, len, p)
    <2>1. \A r \in C \ {p} : u.slab[r] = m.slab[r] /\ u.busy[r] = m.busy[r]
      BY <1>9
    <2> QED
      BY <2>1, AtSame
  <1>12. c >= Reserved(size)
    <2>1. 0 .. Reserved(size) - 1 \subseteq m.busy[p]
      BY <1>4 DEF CutPage
    <2>2. c \in Nat /\ Reserved(size) \in Nat
      BY SizeFacts DEF Whole
    <2> QED
      BY <2>1, <2>2
  <1>13. u.slab[p].n = size
    BY <1>3, <1>9
  <1>14. \A d : BlockAt(d, u, T, C, len, p) <=> BlockAt(d, m, T, C, len, p) \/ d = b
    <2> SUFFICES ASSUME NEW d
                 PROVE  BlockAt(d, u, T, C, len, p) <=> BlockAt(d, m, T, C, len, p) \/ d = b
      OBVIOUS
    <2>1. p \notin T
      BY <1>2, <1>3
    <2>2. BlockAt(d, u, T, C, len, p) <=> \E e \in bits : e >= Reserved(size) /\ d = ChunkBlock(p, e, size)
      BY <1>3, <1>9, <1>13, <2>1 DEF BlockAt
    <2>3. BlockAt(d, m, T, C, len, p) <=> \E e \in m.busy[p] : e >= Reserved(size) /\ d = ChunkBlock(p, e, size)
      BY <1>3, <2>1 DEF BlockAt
    <2> QED
      BY <1>5, <1>10, <1>12, <2>2, <2>3
  <1>15. LiveIs(bs \cup {b}, u, T, C, len)
    BY <1>1, <1>11, <1>14, BlockAdded
  <1>16. b.len = size /\ p \in Nat
    BY <1>2, <1>3, <1>10, NodeFacts DEF ChunkBlock
  <1>17. b \notin bs
    <2>1. ASSUME b \in bs
          PROVE  FALSE
      <3>1. PICK r : BlockAt(b, m, T, C, len, r)
        BY <1>1, <2>1, BlockSomewhere DEF LiveIs
      <3>2. b.addr \div PageSize = r
        BY <1>1, <3>1, BlockAtPage
      <3>3. b.addr \div PageSize = p /\ b.addr % PageSize = c * size /\ (c * size) \div size = c
        BY <1>10, <1>16, ChunkBytes
      <3>4. r = p /\ p \notin T
        BY <1>2, <1>3, <3>2, <3>3
      <3>5. PICK e \in m.busy[p] : b = ChunkBlock(p, e, size)
        BY <1>3, <3>1, <3>4 DEF BlockAt
      <3>6. e \in Whole(size)
        BY <1>4 DEF CutPage
      <3>7. b.addr % PageSize = e * size /\ (e * size) \div size = e
        BY <1>16, <3>5, <3>6, ChunkBytes
      <3>8. e = c
        BY <3>3, <3>7
      <3> QED
        BY <3>8
    <2> QED
      BY <2>1
  <1>18. HeldIs(un + 1, bs \cup {b})
    BY <1>1, <1>17, HeldMore
  <1>19. UsedIs([us EXCEPT ![size] = @ + 1], bs \cup {b})
    BY <1>1, <1>16, <1>17, UsedMore DEF HeldIs
  <1>20. TotalIs(tl, u, C)
    BY <1>1, <1>9, TotalSame
  <1>21. Shaped(u, bs \cup {b}, pf, un + 1, [us EXCEPT ![size] = @ + 1], tl, F, T, C, len)
    BY <1>1, <1>9, <1>15, <1>18, <1>19, <1>20 DEF Shaped
  <1> QED
    BY <1>5, <1>7, <1>10, <1>21

(* A block that one holds is the only one at its address. *)
LEMMA OneAtAddress ==
  ASSUME NEW m, NEW F, NEW T, NEW C, NEW len, Laid(m, F, T, C, NULL, len), NEW bs, LiveIs(bs, m, T, C, len), NEW b \in bs
  PROVE  {d \in bs : d.addr # b.addr} = bs \ {b}
  <1>1. \A d \in bs : d # b => d.addr # b.addr
    BY BlocksApart DEF LiveIs
  <1> QED
    BY <1>1

LEMMA RunFreed ==
  ASSUME NEW m, NEW bs, NEW pf, NEW un, NEW us, NEW tl, NEW F, NEW T, NEW C, NEW len,
         Shaped(m, bs, pf, un, us, tl, F, T, C, len), NEW p \in T
  PROVE  /\ PageBlock(p, len[p]) \in bs
         /\ InShape(FreePages(m, p, len[p]), bs \ {PageBlock(p, len[p])}, pf + len[p], un - 1, us, tl)
  <1>1. /\ Laid(m, F, T, C, NULL, len) /\ LiveIs(bs, m, T, C, len)
        /\ FreeIs(pf, F, len) /\ HeldIs(un, bs) /\ UsedIs(us, bs) /\ TotalIs(tl, m, C)
    BY DEF Shaped
  <1>2. /\ T \subseteq PageNos /\ C \subseteq PageNos /\ F \cap T = {} /\ T \cap C = {}
        /\ Tiling(LeadersOf(F, T, C, NULL), len) /\ len[p] \in Nat /\ len[p] >= 1
    BY <1>1, LaidFacts
  <1>3. PICK t : t = FreePages(m, p, len[p])
    OBVIOUS
  <1>4. FreedTo(m, t, F, T, C, len, p)
    <2>1. FreedTo(m, FreePages(m, p, len[p]), F, T, C, len, p)
      BY <1>1, FreeRunLaid
    <2> QED
      BY <1>3, <2>1
  <1>5. PICK G \in SUBSET PageNos, ln \in [PageNos -> Nat] :
          /\ Laid(t, G, T \ {p}, C \ {p}, NULL, ln) /\ \A r \in (T \cup C) \ {p} : ln[r] = len[r]
          /\ OpenPages(G, ln) = OpenPages(F, len) \cup Reach(p, len[p])
          /\ \A r \in C \ {p} : t.slab[r] = m.slab[r] /\ t.busy[r] = m.busy[r]
    BY <1>4 DEF FreedTo
  <1>6. PICK U : U = T \ {p}
    OBVIOUS
  <1>7. p \notin C /\ p \notin U /\ C \ {p} = C /\ p \in PageNos /\ U \in SUBSET PageNos /\ p \notin F
    BY <1>2, <1>6
  <1>8. PICK b : b = PageBlock(p, len[p])
    OBVIOUS
  <1>9. SameAt(m, T, C, len, t, U, C, ln, p)
    <2>1. T \ {p} = U \ {p} /\ \A r \in T \ {p} : ln[r] = len[r]
      BY <1>5, <1>6
    <2>2. \A r \in C \ {p} : t.slab[r] = m.slab[r] /\ t.busy[r] = m.busy[r]
      BY <1>5
    <2> QED
      BY <2>1, <2>2, AtSame
  <1>10. BlockAt(b, m, T, C, len, p)
    BY <1>8 DEF BlockAt
  <1>11. \A d : BlockAt(d, t, U, C, ln, p) <=> BlockAt(d, m, T, C, len, p) /\ d # b
    BY <1>7, <1>8 DEF BlockAt
  <1>12. LiveIs(bs \ {b}, t, U, C, ln) /\ b \in bs
    BY <1>1, <1>9, <1>10, <1>11, BlockRemoved
  <1>13. \A size \in Sizes : b.len # size
    <2>1. p \in Nat
      BY <1>7, NodeFacts
    <2>2. PICK n \in Nat : n = len[p] /\ n >= 1
      BY <1>2
    <2>3. \A size \in Sizes : PageBlock(p, n).len # size
      BY <2>1, <2>2, RunLength
    <2> QED
      BY <1>8, <2>2, <2>3
  <1>14. FreeIs(pf + len[p], G, ln)
    <2>1. F \subseteq LeadersOf(F, T, C, NULL) /\ p \in LeadersOf(F, T, C, NULL)
      BY DEF LeadersOf
    <2> QED
      BY <1>1, <1>2, <1>5, <1>7, <2>1, FreeMore
  <1>15. HeldIs(un - 1, bs \ {b})
    BY <1>1, <1>12, HeldLess
  <1>16. UsedIs(us, bs \ {b})
    BY <1>1, <1>13, UsedSame
  <1>17. TotalIs(tl, t, C)
    <2>1. \A r \in C : t.slab[r] = m.slab[r]
      BY <1>5, <1>7
    <2> QED
      BY <1>1, <2>1, TotalSame
  <1>18. Laid(t, G, U, C, NULL, ln)
    BY <1>5, <1>6, <1>7
  <1>19. Shaped(t, bs \ {b}, pf + len[p], un - 1, us, tl, G, U, C, ln)
    BY <1>12, <1>14, <1>15, <1>16, <1>17, <1>18 DEF Shaped
  <1>20. C \in SUBSET PageNos
    BY <1>2
  <1>21. InShape(t, bs \ {b}, pf + len[p], un - 1, us, tl)
    BY <1>5, <1>7, <1>19, <1>20 DEF InShape
  <1> QED
    BY <1>3, <1>8, <1>12, <1>21

(* A chunk, and others of its page stay. *)
LessOne(m, p, size, c) == Marked(Return(m, p, size), p, m.busy[p] \ {c})
ChunkGone(m, bs, pf, un, us, tl, F, T, C, len, p, size, c) ==
  /\ ChunkBlock(p, c, size) \in bs
  /\ Shaped(LessOne(m, p, size, c), bs \ {ChunkBlock(p, c, size)}, pf, un - 1,
            [us EXCEPT ![size] = @ - 1], tl, F, T, C, len)
  /\ LessOne(m, p, size, c).busy[p] = m.busy[p] \ {c}

LEMMA ChunkFreed ==
  ASSUME NEW m, NEW bs, NEW pf, NEW un, NEW us, NEW tl, NEW F, NEW T, NEW C, NEW len,
         Shaped(m, bs, pf, un, us, tl, F, T, C, len),
         NEW p \in C, NEW size, size = m.slab[p].n, NEW c \in m.busy[p], c >= Reserved(size)
  PROVE  ChunkGone(m, bs, pf, un, us, tl, F, T, C, len, p, size, c)
  <1>1. /\ Laid(m, F, T, C, NULL, len) /\ LiveIs(bs, m, T, C, len)
        /\ FreeIs(pf, F, len) /\ HeldIs(un, bs) /\ UsedIs(us, bs) /\ TotalIs(tl, m, C)
    BY DEF Shaped
  <1>2. /\ C \subseteq PageNos /\ T \cap C = {}
    BY <1>1, LaidFacts
  <1>3. CutPage(m, p, size)
    BY <1>1 DEF Laid, CutOK
  <1>4. size \in Sizes /\ m.busy[p] \subseteq Whole(size) /\ 0 .. Reserved(size) - 1 \subseteq m.busy[p]
    BY <1>3 DEF CutPage
  <1>5. PICK bits : bits = m.busy[p] \ {c}
    OBVIOUS
  <1>6. bits \subseteq m.busy[p] \ {c} /\ 0 .. Reserved(size) - 1 \subseteq bits
    <2>1. c \notin 0 .. Reserved(size) - 1
      BY <1>4, SizeFacts DEF Whole
    <2> QED
      BY <1>4, <1>5, <2>1
  <1>7. PICK u : u = Marked(Return(m, p, size), p, bits)
    OBVIOUS
  <1>8. MarkedTo(m, u, F, T, C, len, p, bits)
    <2>1. MarkedTo(m, Marked(Return(m, p, size), p, bits), F, T, C, len, p, bits)
      BY <1>1, <1>6, ReturnLaid
    <2> QED
      BY <1>7, <2>1
  <1>9. /\ Laid(u, F, T, C, NULL, len) /\ \A r \in C : u.slab[r] = m.slab[r]
        /\ u.busy[p] = bits /\ \A r \in C : r # p => u.busy[r] = m.busy[r]
    BY <1>8 DEF MarkedTo
  <1>10. PICK b : b = ChunkBlock(p, c, size)
    OBVIOUS
  <1>11. SameAt(m, T, C, len, u, T, C, len, p)
    <2>1. \A r \in C \ {p} : u.slab[r] = m.slab[r] /\ u.busy[r] = m.busy[r]
      BY <1>9
    <2> QED
      BY <2>1, AtSame
  <1>12. p \in Nat /\ b.len = size
    BY <1>2, <1>10, NodeFacts DEF ChunkBlock
  <1>13. u.slab[p].n = size
    BY <1>9
  <1>14. BlockAt(b, m, T, C, len, p)
    BY <1>10 DEF BlockAt
  <1>15. \A e \in m.busy[p] : e # c => ChunkBlock(p, e, size) # b
    <2> SUFFICES ASSUME NEW e \in m.busy[p], ChunkBlock(p, e, size) = b
                 PROVE  e = c
      OBVIOUS
    <2>1. c \in Whole(size) /\ e \in Whole(size)
      BY <1>4
    <2>2. b.addr % PageSize = c * size /\ (c * size) \div size = c
      BY <1>4, <1>10, <1>12, <2>1, ChunkBytes
    <2>3. ChunkBlock(p, e, size).addr % PageSize = e * size /\ (e * size) \div size = e
      BY <1>4, <1>12, <2>1, ChunkBytes
    <2> QED
      BY <2>2, <2>3
  <1>16. \A d : BlockAt(d, u, T, C, len, p) <=> BlockAt(d, m, T, C, len, p) /\ d # b
    <2> SUFFICES ASSUME NEW d
                 PROVE  BlockAt(d, u, T, C, len, p) <=> BlockAt(d, m, T, C, len, p) /\ d # b
      OBVIOUS
    <2>1. p \notin T
      BY <1>2
    <2>2. BlockAt(d, u, T, C, len, p) <=> \E e \in bits : e >= Reserved(size) /\ d = ChunkBlock(p, e, size)
      BY <1>9, <1>13, <2>1 DEF BlockAt
    <2>3. BlockAt(d, m, T, C, len, p) <=> \E e \in m.busy[p] : e >= Reserved(size) /\ d = ChunkBlock(p, e, size)
      BY <2>1 DEF BlockAt
    <2> QED
      BY <1>5, <1>10, <1>15, <2>2, <2>3
  <1>17. LiveIs(bs \ {b}, u, T, C, len) /\ b \in bs
    BY <1>1, <1>11, <1>14, <1>16, BlockRemoved
  <1>18. HeldIs(un - 1, bs \ {b})
    BY <1>1, <1>17, HeldLess
  <1>19. UsedIs([us EXCEPT ![size] = @ - 1], bs \ {b})
    BY <1>1, <1>4, <1>12, <1>17, UsedLess DEF HeldIs
  <1>20. TotalIs(tl, u, C)
    BY <1>1, <1>9, TotalSame
  <1>21. Shaped(u, bs \ {b}, pf, un - 1, [us EXCEPT ![size] = @ - 1], tl, F, T, C, len)
    BY <1>1, <1>9, <1>17, <1>18, <1>19, <1>20 DEF Shaped
  <1>22. u.busy[p] = bits
    BY <1>9
  <1> QED
    BY <1>5, <1>7, <1>10, <1>17, <1>21, <1>22 DEF LessOne, ChunkGone

(* The last chunk of its page: the page is given back. *)
LEMMA PageFreed ==
  ASSUME BitsFit, NEW m, NEW bs, NEW pf, NEW un, NEW us, NEW tl, NEW F, NEW T, NEW C, NEW len,
         Shaped(m, bs, pf, un, us, tl, F, T, C, len),
         NEW p \in C, NEW size, size = m.slab[p].n, NEW c \in m.busy[p], c >= Reserved(size),
         (m.busy[p] \ {c}) \ (0 .. Reserved(size) - 1) = {}
  PROVE  /\ ChunkBlock(p, c, size) \in bs
         /\ InShape(FreePages(LessOne(m, p, size, c), p, 1), bs \ {ChunkBlock(p, c, size)},
                    pf + 1, un - 1, [us EXCEPT ![size] = @ - 1],
                    [tl EXCEPT ![size] = @ - (NumberOf(size) - Reserved(size))])
  <1>1. /\ Laid(m, F, T, C, NULL, len) /\ LiveIs(bs, m, T, C, len)
        /\ FreeIs(pf, F, len) /\ HeldIs(un, bs) /\ UsedIs(us, bs) /\ TotalIs(tl, m, C)
    BY DEF Shaped
  <1>2. CutPage(m, p, size) /\ len[p] = 1
    BY <1>1 DEF Laid, CutOK
  <1>3. size \in Sizes /\ m.busy[p] \subseteq Whole(size) /\ 0 .. Reserved(size) - 1 \subseteq m.busy[p]
    BY <1>2 DEF CutPage
  <1>4. PICK bits : bits = m.busy[p] \ {c}
    OBVIOUS
  <1>5. PICK a : a = LessOne(m, p, size, c)
    OBVIOUS
  <1>6. PICK b : b = ChunkBlock(p, c, size)
    OBVIOUS
  <1>7. PICK ws : ws = [us EXCEPT ![size] = @ - 1]
    OBVIOUS
  <1>8. b \in bs /\ Shaped(a, bs \ {b}, pf, un - 1, ws, tl, F, T, C, len)
    <2>1. ChunkGone(m, bs, pf, un, us, tl, F, T, C, len, p, size, c)
      BY ChunkFreed
    <2> QED
      BY <1>5, <1>6, <1>7, <2>1 DEF ChunkGone
  <1>9. /\ Laid(a, F, T, C, NULL, len) /\ LiveIs(bs \ {b}, a, T, C, len)
        /\ FreeIs(pf, F, len) /\ HeldIs(un - 1, bs \ {b}) /\ UsedIs(ws, bs \ {b}) /\ TotalIs(tl, a, C)
    BY <1>8 DEF Shaped
  <1>10. p \in Room(a, C, size) /\ a.busy[p] = bits /\ \A r \in C : a.slab[r] = m.slab[r]
    <2>1. bits \subseteq m.busy[p] \ {c} /\ 0 .. Reserved(size) - 1 \subseteq bits
      <3>1. c \notin 0 .. Reserved(size) - 1
        BY <1>3, SizeFacts DEF Whole
      <3> QED
        BY <1>3, <1>4, <3>1
    <2>2. /\ MarkedTo(m, Marked(Return(m, p, size), p, bits), F, T, C, len, p, bits)
          /\ p \in Room(Marked(Return(m, p, size), p, bits), C, size)
      BY <1>1, <2>1, ReturnLaid
    <2>3. MarkedTo(m, a, F, T, C, len, p, bits) /\ p \in Room(a, C, size)
      BY <1>4, <1>5, <2>2 DEF LessOne
    <2> QED
      BY <2>3 DEF MarkedTo
  <1>11. PICK t : t = FreePages(a, p, 1)
    OBVIOUS
  <1>12. FreedTo(a, t, F, T, C, len, p)
    <2>1. FreedTo(a, FreePages(a, p, 1), F, T, C, len, p)
      BY <1>3, <1>9, <1>10, FreePageLaid
    <2> QED
      BY <1>11, <2>1
  <1>13. PICK G \in SUBSET PageNos, ln \in [PageNos -> Nat] :
          /\ Laid(t, G, T \ {p}, C \ {p}, NULL, ln) /\ \A r \in (T \cup C) \ {p} : ln[r] = len[r]
          /\ OpenPages(G, ln) = OpenPages(F, len) \cup Reach(p, len[p])
          /\ \A r \in C \ {p} : t.slab[r] = a.slab[r] /\ t.busy[r] = a.busy[r]
    BY <1>12 DEF FreedTo
  <1>14. /\ F \subseteq PageNos /\ T \subseteq PageNos /\ C \subseteq PageNos /\ F \cap C = {} /\ T \cap C = {}
         /\ Tiling(LeadersOf(F, T, C, NULL), len)
    BY <1>1, LaidFacts
  <1>15. PICK D : D = C \ {p}
    OBVIOUS
  <1>16. p \notin T /\ p \notin F /\ p \notin D /\ T \ {p} = T /\ D \in SUBSET PageNos /\ T \in SUBSET PageNos
    BY <1>14, <1>15
  <1>17. LiveIs(bs \ {b}, t, T, D, ln)
    <2>1. SameAt(a, T, C, len, t, T, D, ln, p)
      <3>1. C \ {p} = D \ {p} /\ \A r \in T \ {p} : ln[r] = len[r]
        BY <1>13, <1>15
      <3> QED
        BY <1>13, <3>1, AtSame
    <2>2. \A d : ~ BlockAt(d, t, T, D, ln, p)
      BY <1>16 DEF BlockAt
    <2>3. \A d : ~ BlockAt(d, a, T, C, len, p)
      <3>1. a.slab[p].n = size
        BY <1>10
      <3>2. \A e \in bits : ~ (e >= Reserved(size))
        <4>1. bits \subseteq 0 .. Reserved(size) - 1
          BY <1>4
        <4>2. Reserved(size) \in Nat
          BY <1>3, SizeFacts
        <4>3. \A e \in 0 .. Reserved(size) - 1 : ~ (e >= Reserved(size))
          BY <4>2
        <4> QED
          BY <4>1, <4>3
      <3> QED
        BY <1>10, <1>16, <3>1, <3>2 DEF BlockAt
    <2> SUFFICES ASSUME NEW d
                 PROVE  d \in bs \ {b} <=> IsBlock(d, t, T, D, ln)
      BY DEF LiveIs
    <2>4. d \in bs \ {b} <=> \E r : BlockAt(d, a, T, C, len, r)
      BY <1>9, BlockSomewhere DEF LiveIs
    <2>5. IsBlock(d, t, T, D, ln) <=> \E r : BlockAt(d, t, T, D, ln, r)
      BY BlockSomewhere
    <2>6. \A r : r # p => (BlockAt(d, t, T, D, ln, r) <=> BlockAt(d, a, T, C, len, r))
      BY <2>1 DEF SameAt
    <2> QED
      BY <2>2, <2>3, <2>4, <2>5, <2>6
  <1>18. FreeIs(pf + 1, G, ln)
    <2>1. F \subseteq LeadersOf(F, T, C, NULL) /\ p \in LeadersOf(F, T, C, NULL)
      BY DEF LeadersOf
    <2>2. FreeIs(pf + len[p], G, ln)
      BY <1>9, <1>13, <1>14, <1>16, <2>1, FreeMore
    <2> QED
      BY <1>2, <2>2
  <1>19. PICK wl : wl = [tl EXCEPT ![size] = @ - (NumberOf(size) - Reserved(size))]
    OBVIOUS
  <1>20. TotalIs(wl, t, D)
    <2>1. \A r \in C \ {p} : t.slab[r] = a.slab[r]
      BY <1>13
    <2>2. a.slab[p].n = size
      BY <1>10
    <2>3. TotalIs([tl EXCEPT ![size] = @ - (NumberOf(size) - Reserved(size))], t, C \ {p})
      BY <1>3, <1>9, <1>14, <2>1, <2>2, TotalLess
    <2> QED
      BY <1>15, <1>19, <2>3
  <1>21. Laid(t, G, T, D, NULL, ln)
    BY <1>13, <1>15, <1>16
  <1>22. Shaped(t, bs \ {b}, pf + 1, un - 1, ws, wl, G, T, D, ln)
    BY <1>9, <1>17, <1>18, <1>20, <1>21 DEF Shaped
  <1>23. InShape(t, bs \ {b}, pf + 1, un - 1, ws, wl)
    BY <1>13, <1>16, <1>22 DEF InShape
  <1> QED
    BY <1>4, <1>5, <1>6, <1>7, <1>8, <1>11, <1>19, <1>23

-----------------------------------------------------------------------------
(* The steps. *)

LEMMA MemoryTo ==
  ASSUME NEW m \in Mems, MemoryIs(m)
  PROVE  Memory' = m
  <1>1. m = [next |-> m.next, prev |-> m.prev, type |-> m.type, slab |-> m.slab, busy |-> m.busy]
    BY MemFields
  <1>2. next' = m.next /\ prev' = m.prev /\ type' = m.type /\ slab' = m.slab /\ busy' = m.busy
    BY DEF MemoryIs
  <1> QED
    BY <1>1, <1>2 DEF Memory

LEMMA MemoryKept ==
  ASSUME UNCHANGED desc
  PROVE  Memory' = Memory
  BY DEF desc, Memory

LEMMA ShapedMems ==
  ASSUME NEW m, NEW bs, NEW pf, NEW un, NEW us, NEW tl, NEW F, NEW T, NEW C, NEW len,
         Shaped(m, bs, pf, un, us, tl, F, T, C, len)
  PROVE  m \in Mems /\ Laid(m, F, T, C, NULL, len) /\ LiveIs(bs, m, T, C, len)
  <1>1. Laid(m, F, T, C, NULL, len) /\ LiveIs(bs, m, T, C, len)
    BY DEF Shaped
  <1> QED
    BY <1>1, LaidFacts

(* A call that leaves the pool in good shape. *)
LEMMA ShapeKept ==
  ASSUME NEW m, MemoryIs(m), InShape(m, live', pfree', unfreed', used', total')
  PROVE  SlabInv'
  <1>1. m \in Mems
    BY ShapedMems DEF InShape
  <1>2. Memory' = m
    BY <1>1, MemoryTo
  <1>3. InShape(Memory', live', pfree', unfreed', used', total')
    BY <1>2
  <1> QED
    BY <1>3 DEF SlabInv

LEMMA InPool ==
  ASSUME NEW b, NEW p \in Nat, NEW n \in Nat, BytesOf(b, p, n), p + n <= Pages
  PROVE  b.addr \in 0 .. Pages * PageSize - 1 /\ b.len \in 1 .. Pages * PageSize - b.addr
  <1>1. PageSize \in Nat /\ Pages \in Nat
    BY SlabAssumption
  <1>2. (p + n) * PageSize <= Pages * PageSize
    BY <1>1, Scale
  <1>3. PICK x \in Nat : x = p * PageSize
    BY <1>1
  <1>4. PICK y \in Nat : y = (p + n) * PageSize
    BY <1>1
  <1>5. PICK z \in Nat : z = Pages * PageSize
    BY <1>1
  <1>6. b.addr \in Nat /\ b.len \in Nat /\ b.len >= 1 /\ x <= b.addr /\ b.addr + b.len <= y /\ y <= z
    BY <1>2, <1>3, <1>4, <1>5 DEF BytesOf
  <1>7. b.addr \in 0 .. z - 1 /\ b.len \in 1 .. z - b.addr
    BY <1>6
  <1> QED
    BY <1>5, <1>7

(* One block more, in good shape: it was not handed out before, lies in    *)
(* the pool and meets no other.                                            *)
LEMMA Allocates ==
  ASSUME NEW b, HeldIs(unfreed, live), live' = live \cup {b}, unfreed' = unfreed + 1,
         NEW m, InShape(m, live', pfree', unfreed', used', total')
  PROVE  A!Next
  <1>0. PICK F \in SUBSET PageNos, T \in SUBSET PageNos, C \in SUBSET PageNos, len \in [PageNos -> Nat] :
          Shaped(m, live', pfree', unfreed', used', total', F, T, C, len)
    BY DEF InShape
  <1>1. Laid(m, F, T, C, NULL, len) /\ LiveIs(live', m, T, C, len) /\ HeldIs(unfreed', live')
    BY <1>0 DEF Shaped
  <1>2. b \notin live
    <2>1. ASSUME b \in live
          PROVE  FALSE
      <3>1. live' = live
        BY <2>1
      <3>2. unfreed' = unfreed
        BY <1>1, <3>1 DEF HeldIs
      <3>3. unfreed \in Nat
        BY SlabAssumption DEF HeldIs
      <3> QED
        BY <3>2, <3>3
    <2> QED
      BY <2>1
  <1>3. b \in live' \ live /\ live \subseteq live'
    BY <1>2
  <1>4. \A d \in live' : IsBlock(d, m, T, C, len)
    BY <1>1 DEF LiveIs
  <1>5. PICK p \in T \cup C : BytesOf(b, p, len[p])
    BY <1>1, <1>3, <1>4, BlockLies
  <1>6. p \in Nat /\ len[p] \in Nat /\ p + len[p] <= Pages
    <2>1. T \subseteq PageNos /\ C \subseteq PageNos /\ len[p] \in Nat /\ p + len[p] <= Pages
      BY <1>1, <1>5, LaidFacts
    <2> QED
      BY <2>1, NodeFacts
  <1>7. b.addr \in 0 .. Pages * PageSize - 1 /\ b.len \in 1 .. Pages * PageSize - b.addr
    BY <1>5, <1>6, InPool
  <1>8. \A d \in live : A!Disjoint(b, d)
    <2> SUFFICES ASSUME NEW d \in live
                 PROVE  A!Disjoint(b, d)
      OBVIOUS
    <2>1. b # d /\ IsBlock(b, m, T, C, len) /\ IsBlock(d, m, T, C, len)
      BY <1>2, <1>3, <1>4
    <2> QED
      BY <1>1, <2>1, BlocksApart
  <1> QED
    BY <1>3, <1>7, <1>8 DEF A!Next, A!Alloc

LEMMA Frees ==
  ASSUME NEW b \in live, live' = live \ {b}, unfreed' = unfreed - 1
  PROVE  A!Next
  BY DEF A!Next, A!Free

LEMMA HandedOut ==
  ASSUME NEW addr, NEW len, HandOut(addr, len)
  PROVE  live' = live \cup {[addr |-> addr, len |-> len]} /\ unfreed' = unfreed + 1
  BY DEF HandOut

LEMMA FreedIs ==
  ASSUME NEW b \in live, {d \in live : d.addr # b.addr} = live \ {b}, Freed(b.addr)
  PROVE  live' = live \ {b} /\ unfreed' = unfreed - 1
  BY DEF Freed

LEMMA AllocChunkStep ==
  ASSUME BitsFit, SlabInv, NEW request \in SlabRequests, AllocChunk(request)
  PROVE  SlabInv' /\ A!Next
  <1>1. PICK F \in SUBSET PageNos, T \in SUBSET PageNos, C \in SUBSET PageNos, len \in [PageNos -> Nat] :
          Shaped(Memory, live, pfree, unfreed, used, total, F, T, C, len)
    BY DEF SlabInv, InShape
  <1>2. Laid(Memory, F, T, C, NULL, len) /\ HeldIs(unfreed, live)
    BY <1>1 DEF Shaped
  <1>3. Memory.next = next /\ Memory.busy = busy
    BY DEF Memory
  <1>4. request <= PageSize \div 2 /\ unfreed < MaxLive
    BY DEF AllocChunk
  <1>5. PICK size \in Sizes : size = SizeOf(request)
    BY <1>4, SizeIs
  <1>6. PICK p : p = next[Slot(size)]
    OBVIOUS
  <1>7. \/ p # Slot(size) /\ TakeChunk(p, size)
        \/ p = Slot(size) /\ FirstRun(1) # NULL /\ OpenPage(FirstRun(1), size)
    BY <1>5, <1>6 DEF AllocChunk
  <1>8. p \in Room(Memory, C, size) \cup {Slot(size)} /\ (p = Slot(size) <=> Room(Memory, C, size) = {})
    <2>1. /\ IsList(Memory.next, Memory.prev, Slot(size), Room(Memory, C, size))
          /\ Slot(size) \notin Room(Memory, C, size)
      BY <1>2, LaidFacts
    <2>2. /\ Memory.next[Slot(size)] \in Room(Memory, C, size) \cup {Slot(size)}
          /\ Memory.next[Slot(size)] = Slot(size) <=> Room(Memory, C, size) = {}
      BY <2>1, ListFirst
    <2> QED
      BY <1>3, <1>6, <2>2
  <1>9. CASE p # Slot(size) /\ TakeChunk(p, size)
    <2>1. p \in Room(Memory, C, size)
      BY <1>8, <1>9
    <2>2. CutPage(Memory, p, size) /\ p \in C /\ Memory.busy[p] # Whole(size)
      BY <1>2, <2>1 DEF Room, Laid, CutOK
    <2>3. busy[p] \subseteq Whole(size) /\ busy[p] # Whole(size)
      BY <1>3, <2>2 DEF CutPage
    <2>4. PICK c \in Whole(size) : c = Min(Whole(size) \ busy[p]) /\ c \notin busy[p]
      BY <2>3, ChunkFound
    <2>5. PICK m : m = DropFull(Marked(Memory, p, Memory.busy[p] \cup {c}), p, size)
      OBVIOUS
    <2>6. MemoryIs(m) /\ HandOutChunk(p, c, size) /\ used' = [used EXCEPT ![size] = @ + 1] /\ total' = total /\ pfree' = pfree
      BY <1>9, <2>4, <2>5 DEF TakeChunk, Marked
    <2>7. PICK b : b = ChunkBlock(p, c, size)
      OBVIOUS
    <2>8. live' = live \cup {b} /\ unfreed' = unfreed + 1
      BY <2>6, <2>7 DEF HandOutChunk, HandOut, ChunkBlock
    <2>9. Shaped(DropFull(Marked(Memory, p, Memory.busy[p] \cup {c}), p, size), live \cup {ChunkBlock(p, c, size)}, pfree, unfreed + 1,
                [used EXCEPT ![size] = @ + 1], total, F, T, C, len)
      BY <1>1, <1>3, <1>4, <2>1, <2>4, ChunkTaken
    <2>a. Shaped(m, live', pfree', unfreed', used', total', F, T, C, len)
      BY <2>5, <2>6, <2>7, <2>8, <2>9
    <2>10. InShape(m, live', pfree', unfreed', used', total')
      BY <2>a DEF InShape
    <2>11. SlabInv'
      BY <2>6, <2>10, ShapeKept
    <2>12. A!Next
      BY <1>2, <2>8, <2>10, Allocates
    <2> QED
      BY <2>11, <2>12
  <1>10. CASE p = Slot(size) /\ FirstRun(1) # NULL /\ OpenPage(FirstRun(1), size)
    <2>1. PICK q : q = FirstRun(1)
      OBVIOUS
    <2>2. q \in F /\ len[q] \in Nat /\ 1 <= len[q]
      <3>1. 1 \in Nat
        OBVIOUS
      <3> QED
        BY <1>2, <1>10, <2>1, <3>1, RunFound
    <2>3. PICK u : u = CutUp(TakeRun(Memory, q, 1), q, size)
      OBVIOUS
    <2>4. /\ MemoryIs(u) /\ HandOutChunk(q, Reserved(size), size)
          /\ total' = [total EXCEPT ![size] = @ + NumberOf(size) - Reserved(size)]
          /\ used' = [used EXCEPT ![size] = @ + 1] /\ pfree' = pfree - 1
      BY <1>10, <2>1, <2>3 DEF OpenPage, CutUp
    <2>5. PICK b : b = ChunkBlock(q, Reserved(size), size)
      OBVIOUS
    <2>6. live' = live \cup {b} /\ unfreed' = unfreed + 1
      BY <2>4, <2>5 DEF HandOutChunk, HandOut, ChunkBlock
    <2>7. InShape(CutUp(TakeRun(Memory, q, 1), q, size), live \cup {ChunkBlock(q, Reserved(size), size)}, pfree - 1, unfreed + 1,
                  [used EXCEPT ![size] = @ + 1], [total EXCEPT ![size] = @ + NumberOf(size) - Reserved(size)])
      BY <1>1, <1>4, <1>8, <1>10, <2>2, PageOpened
    <2>8. InShape(u, live', pfree', unfreed', used', total')
      BY <2>3, <2>4, <2>5, <2>6, <2>7
    <2>9. SlabInv'
      BY <2>4, <2>8, ShapeKept
    <2>10. A!Next
      BY <1>2, <2>6, <2>8, Allocates
    <2> QED
      BY <2>9, <2>10
  <1> QED
    BY <1>7, <1>9, <1>10

LEMMA QuotientPositive ==
  ASSUME NEW a \in Nat, NEW w \in Nat \ {0}, a >= w
  PROVE  a \div w \in Nat /\ 0 < a \div w
  <1>1. a % w \in 0 .. w - 1 /\ a \div w \in Int /\ a = (w * (a \div w)) + (a % w)
    BY PageDivMod
  <1>2. PICK q \in Int, r \in Int : q = a \div w /\ r = a % w
    BY <1>1
  <1>3. a = (w * q) + r /\ r < w
    BY <1>1, <1>2
  <1>4. q <= 0 => w * q <= 0
    OBVIOUS
  <1>5. q > 0
    BY <1>3, <1>4
  <1> QED
    BY <1>2, <1>5

LEMMA PagesAsked ==
  ASSUME NEW request \in Nat \ {0}
  PROVE  (request + PageSize - 1) \div PageSize \in Nat /\ 0 < (request + PageSize - 1) \div PageSize
  <1>1. PageSize \in Nat \ {0}
    BY SlabAssumption
  <1>2. request + PageSize - 1 \in Nat /\ request + PageSize - 1 >= PageSize
    BY <1>1
  <1> QED
    BY <1>1, <1>2, QuotientPositive

LEMMA AllocPagesStep ==
  ASSUME SlabInv, NEW request \in SlabRequests, AllocPages(request)
  PROVE  SlabInv' /\ A!Next
  <1>1. PICK F \in SUBSET PageNos, T \in SUBSET PageNos, C \in SUBSET PageNos, len \in [PageNos -> Nat] :
          Shaped(Memory, live, pfree, unfreed, used, total, F, T, C, len)
    BY DEF SlabInv, InShape
  <1>2. Laid(Memory, F, T, C, NULL, len) /\ HeldIs(unfreed, live)
    BY <1>1 DEF Shaped
  <1>3. PICK n : n = (request + PageSize - 1) \div PageSize
    OBVIOUS
  <1>4. n \in Nat /\ 0 < n
    BY <1>3, PagesAsked, SlabAssumption
  <1>5. PICK p : p = FirstRun(n)
    OBVIOUS
  <1>6. PICK t : t = TakeRun(Memory, p, n)
    OBVIOUS
  <1>7. /\ unfreed < MaxLive /\ p # NULL /\ MemoryIs(t) /\ pfree' = pfree - n
        /\ HandOut(p * PageSize, n * PageSize) /\ used' = used /\ total' = total
    BY <1>3, <1>5, <1>6 DEF AllocPages, stats
  <1>8. p \in F /\ n <= len[p]
    BY <1>2, <1>4, <1>5, <1>7, RunFound
  <1>9. PICK b : b = PageBlock(p, n)
    OBVIOUS
  <1>10. live' = live \cup {b} /\ unfreed' = unfreed + 1
    BY <1>7, <1>9 DEF HandOut, PageBlock
  <1>11. InShape(TakeRun(Memory, p, n), live \cup {PageBlock(p, n)}, pfree - n, unfreed + 1, used, total)
    BY <1>1, <1>4, <1>7, <1>8, RunTaken
  <1>12. InShape(t, live', pfree', unfreed', used', total')
    BY <1>6, <1>7, <1>9, <1>10, <1>11
  <1>13. SlabInv'
    BY <1>7, <1>12, ShapeKept
  <1>14. A!Next
    BY <1>2, <1>10, <1>12, Allocates
  <1> QED
    BY <1>13, <1>14

LEMMA FreeRunStep ==
  ASSUME SlabInv, NEW addr \in Freeable, FreeRun(addr)
  PROVE  SlabInv' /\ A!Next
  <1>1. PICK F \in SUBSET PageNos, T \in SUBSET PageNos, C \in SUBSET PageNos, len \in [PageNos -> Nat] :
          Shaped(Memory, live, pfree, unfreed, used, total, F, T, C, len)
    BY DEF SlabInv, InShape
  <1>2. Laid(Memory, F, T, C, NULL, len) /\ LiveIs(live, Memory, T, C, len)
    BY <1>1 DEF Shaped
  <1>3. Memory.type = type /\ Memory.slab = slab
    BY DEF Memory
  <1>4. PICK p : p = addr \div PageSize
    OBVIOUS
  <1>5. PICK n : n = slab[p].n
    OBVIOUS
  <1>6. PICK t : t = FreePages(Memory, p, n)
    OBVIOUS
  <1>7. /\ type[p] = "page" /\ addr % PageSize = 0 /\ slab[p].tag = "start"
        /\ MemoryIs(t) /\ pfree' = pfree + n /\ Freed(addr) /\ used' = used /\ total' = total
    BY <1>4, <1>5, <1>6 DEF FreeRun, stats
  <1>8. p \in PageNos /\ addr = p * PageSize
    BY <1>2, <1>4, <1>7, FreeableIs
  <1>9. p \in T /\ n = len[p]
    <2>1. /\ p \in T <=> Memory.type[p] = "page" /\ Memory.slab[p].tag = "start"
          /\ p \in T => Memory.slab[p].n = len[p]
      BY <1>2, <1>8, PagesShow
    <2> QED
      BY <1>3, <1>5, <1>7, <2>1
  <1>10. PICK b : b = PageBlock(p, n)
    OBVIOUS
  <1>11. addr = b.addr
    BY <1>8, <1>10 DEF PageBlock
  <1>12. /\ PageBlock(p, len[p]) \in live
         /\ InShape(FreePages(Memory, p, len[p]), live \ {PageBlock(p, len[p])}, pfree + len[p], unfreed - 1, used, total)
    BY <1>1, <1>9, RunFreed
  <1>13. b \in live
    BY <1>9, <1>10, <1>12
  <1>14. live' = live \ {b} /\ unfreed' = unfreed - 1
    <2>1. {d \in live : d.addr # b.addr} = live \ {b}
      BY <1>2, <1>13, OneAtAddress
    <2>2. Freed(b.addr)
      BY <1>7, <1>11
    <2> QED
      BY <1>13, <2>1, <2>2, FreedIs
  <1>15. InShape(t, live', pfree', unfreed', used', total')
    BY <1>6, <1>7, <1>9, <1>10, <1>12, <1>14
  <1>16. SlabInv'
    BY <1>7, <1>15, ShapeKept
  <1>17. A!Next
    BY <1>13, <1>14, Frees
  <1> QED
    BY <1>16, <1>17

LEMMA FreeChunkStep ==
  ASSUME BitsFit, SlabInv, NEW addr \in Freeable, FreeChunk(addr)
  PROVE  SlabInv' /\ A!Next
  <1>1. PICK F \in SUBSET PageNos, T \in SUBSET PageNos, C \in SUBSET PageNos, len \in [PageNos -> Nat] :
          Shaped(Memory, live, pfree, unfreed, used, total, F, T, C, len)
    BY DEF SlabInv, InShape
  <1>2. Laid(Memory, F, T, C, NULL, len) /\ LiveIs(live, Memory, T, C, len)
    BY <1>1 DEF Shaped
  <1>3. Memory.type = type /\ Memory.slab = slab /\ Memory.busy = busy
    BY DEF Memory
  <1>4. PICK p : p = addr \div PageSize
    OBVIOUS
  <1>5. type[p] # "page"
    BY <1>4 DEF FreeChunk
  <1>6. /\ p \in PageNos
        /\ \E size \in Sizes : \E c \in Whole(size) :
             /\ size = slab[p].n /\ c >= Reserved(size) /\ (addr % PageSize) \div size = c
             /\ addr = ChunkBlock(p, c, size).addr
    BY <1>2, <1>4, <1>5, FreeableIs
  <1>7. PICK size \in Sizes : \E c \in Whole(size) :
             /\ size = slab[p].n /\ c >= Reserved(size) /\ (addr % PageSize) \div size = c
             /\ addr = ChunkBlock(p, c, size).addr
    BY <1>6
  <1>8. PICK c \in Whole(size) :
             /\ size = slab[p].n /\ c >= Reserved(size) /\ (addr % PageSize) \div size = c
             /\ addr = ChunkBlock(p, c, size).addr
    BY <1>7
  <1>9. PICK m : m = LessOne(Memory, p, size, c)
    OBVIOUS
  <1>10. m = [Return(Memory, p, size) EXCEPT !.busy[p] = @ \ {c}]
    <2>1. Return(Memory, p, size).busy = Memory.busy
      BY DEF Return, Memory
    <2> QED
      BY <1>9, <2>1 DEF LessOne, Marked
  <1>11. /\ c \in busy[p]
         /\ IF m.busy[p] \ (0 .. Reserved(size) - 1) # {}
            THEN MemoryIs(m) /\ total' = total /\ pfree' = pfree
            ELSE /\ MemoryIs(FreePages(m, p, 1))
                 /\ total' = [total EXCEPT ![size] = @ - (NumberOf(size) - Reserved(size))]
                 /\ pfree' = pfree + 1
         /\ used' = [used EXCEPT ![size] = @ - 1]
         /\ Freed(addr)
    BY <1>4, <1>8, <1>10 DEF FreeChunk
  <1>12. p \in C
    BY <1>2, <1>3, <1>5, <1>6, PagesShow
  <1>13. PICK b : b = ChunkBlock(p, c, size)
    OBVIOUS
  <1>14. size = Memory.slab[p].n /\ c \in Memory.busy[p] /\ c >= Reserved(size)
    BY <1>3, <1>8, <1>11
  <1>15. /\ ChunkBlock(p, c, size) \in live
         /\ Shaped(LessOne(Memory, p, size, c), live \ {ChunkBlock(p, c, size)}, pfree, unfreed - 1,
                   [used EXCEPT ![size] = @ - 1], total, F, T, C, len)
         /\ LessOne(Memory, p, size, c).busy[p] = Memory.busy[p] \ {c}
    <2>1. ChunkGone(Memory, live, pfree, unfreed, used, total, F, T, C, len, p, size, c)
      BY <1>1, <1>12, <1>14, ChunkFreed
    <2> QED
      BY <2>1 DEF ChunkGone
  <1>16. b \in live
    BY <1>13, <1>15
  <1>17. live' = live \ {b} /\ unfreed' = unfreed - 1
    <2>1. {d \in live : d.addr # b.addr} = live \ {b}
      BY <1>2, <1>16, OneAtAddress
    <2>2. Freed(b.addr)
      BY <1>8, <1>11, <1>13
    <2> QED
      BY <1>16, <2>1, <2>2, FreedIs
  <1>18. A!Next
    BY <1>16, <1>17, Frees
  <1>19. CASE m.busy[p] \ (0 .. Reserved(size) - 1) # {}
    <2>1. MemoryIs(m) /\ total' = total /\ pfree' = pfree /\ used' = [used EXCEPT ![size] = @ - 1]
      BY <1>11, <1>19
    <2>2. Shaped(m, live', pfree', unfreed', used', total', F, T, C, len)
      BY <1>9, <1>13, <1>15, <1>17, <2>1
    <2>3. InShape(m, live', pfree', unfreed', used', total')
      BY <2>2 DEF InShape
    <2> QED
      BY <1>18, <2>1, <2>3, ShapeKept
  <1>20. CASE m.busy[p] \ (0 .. Reserved(size) - 1) = {}
    <2>1. /\ MemoryIs(FreePages(m, p, 1))
          /\ total' = [total EXCEPT ![size] = @ - (NumberOf(size) - Reserved(size))]
          /\ pfree' = pfree + 1 /\ used' = [used EXCEPT ![size] = @ - 1]
      BY <1>11, <1>20
    <2>2. PICK t : t = FreePages(m, p, 1)
      OBVIOUS
    <2>3. (Memory.busy[p] \ {c}) \ (0 .. Reserved(size) - 1) = {}
      BY <1>9, <1>15, <1>20
    <2>4. InShape(FreePages(LessOne(Memory, p, size, c), p, 1), live \ {ChunkBlock(p, c, size)},
                  pfree + 1, unfreed - 1, [used EXCEPT ![size] = @ - 1],
                  [total EXCEPT ![size] = @ - (NumberOf(size) - Reserved(size))])
      BY <1>1, <1>12, <1>14, <2>3, PageFreed
    <2>5. InShape(t, live', pfree', unfreed', used', total')
      BY <1>9, <1>13, <1>17, <2>1, <2>2, <2>4
    <2>6. SlabInv'
      BY <2>1, <2>2, <2>5, ShapeKept
    <2> QED
      BY <1>18, <2>6
  <1> QED
    BY <1>19, <1>20

LEMMA SlabStill ==
  ASSUME SlabInv, UNCHANGED slabVars
  PROVE  SlabInv' /\ UNCHANGED A!vars
  <1>1. /\ live' = live /\ unfreed' = unfreed /\ pfree' = pfree /\ used' = used /\ total' = total
        /\ UNCHANGED desc
    BY DEF slabVars, stats
  <1>2. Memory' = Memory
    BY <1>1, MemoryKept
  <1>3. SlabInv'
    BY <1>1, <1>2 DEF SlabInv
  <1> QED
    BY <1>1, <1>3 DEF A!vars

LEMMA SlabStep ==
  ASSUME BitsFit, SlabInv, [SlabNext]_slabVars
  PROVE  SlabInv' /\ [A!Next]_(A!vars)
  <1>1. CASE \E request \in SlabRequests : AllocChunk(request) \/ AllocPages(request)
    BY <1>1, AllocChunkStep, AllocPagesStep
  <1>2. CASE \E addr \in Freeable : FreeChunk(addr) \/ FreeRun(addr)
    BY <1>2, FreeChunkStep, FreeRunStep
  <1>3. CASE UNCHANGED slabVars
    BY <1>3, SlabStill
  <1> QED
    BY <1>1, <1>2, <1>3 DEF SlabNext

-----------------------------------------------------------------------------
(* The beginning: one run has all the pages. *)

LEMMA SlabBegins ==
  ASSUME SlabInit
  PROVE  SlabInv
  <1>1. Pages \in Nat /\ Pages >= 1 /\ 0 \in PageNos /\ PageSize \in Nat
    BY SlabAssumption DEF PageNos
  <1>2. PICK len : len = [p \in PageNos |-> IF p = 0 THEN Pages ELSE 0]
    OBVIOUS
  <1>3. len \in [PageNos -> Nat] /\ len[0] = Pages
    BY <1>1, <1>2
  <1>4. PICK F : F = {0}
    OBVIOUS
  <1>5. /\ \A x \in Nodes : next[x] = IF x = 0 THEN FreeList ELSE IF x = FreeList THEN 0
                                      ELSE IF x \in Heads THEN x ELSE NULL
        /\ \A x \in Nodes : prev[x] = IF x = 0 THEN FreeList ELSE NULL
        /\ \A x \in PageNos : type[x] = "page" /\ slab[x] = Run(IF x = 0 THEN Pages ELSE 0) /\ busy[x] = {}
    BY DEF SlabInit
  <1>6. /\ Memory.next = next /\ Memory.prev = prev /\ Memory.type = type
        /\ Memory.slab = slab /\ Memory.busy = busy
    BY DEF Memory
  <1>7. Memory \in Mems
    <2>1. next \in [Nodes -> Nodes \cup {NULL}] /\ prev \in [Nodes -> Nodes \cup {NULL}]
      <3>1. \A x \in Heads : x \in Nodes
        BY DEF Nodes
      <3>2. 0 \in Nodes /\ FreeList \in Nodes
        BY <1>1, NodeFacts
      <3> QED
        BY <3>1, <3>2 DEF SlabInit
    <2>2. type \in [PageNos -> Types] /\ busy \in [PageNos -> Bits]
      BY DEF SlabInit, Types, Bits
    <2>3. slab \in [PageNos -> Fields]
      <3>1. 0 \in 0 .. Pages /\ Pages \in 0 .. Pages
        BY <1>1
      <3>2. Run(0) \in Fields /\ Run(Pages) \in Fields
        BY <3>1, FieldFacts
      <3> QED
        BY <3>2 DEF SlabInit
    <2> QED
      BY <2>1, <2>2, <2>3 DEF Mems, Memory
  <1>8. Tiling(LeadersOf(F, {}, {}, NULL), len)
    <2>1. LeadersOf(F, {}, {}, NULL) = {0}
      BY <1>4, NodeFacts DEF LeadersOf, LooseOf
    <2>2. Tiling({0}, len)
      <3>1. {0} \subseteq PageNos
        BY <1>1
      <3>2. len[0] >= 1 /\ 0 + len[0] <= Pages /\ \A q \in Inner(0, len[0]) : q \notin {0}
        BY <1>1, <1>3 DEF Inner
      <3>3. \A q \in PageNos : 0 <= q /\ q < 0 + len[0]
        BY <1>1, <1>3, NodeFacts
      <3> QED
        BY <1>3, <3>1, <3>2, <3>3 DEF Tiling
    <2> QED
      BY <2>1, <2>2
  <1>9. Placed(F, {}, {}, NULL, len)
    <2>1. F \subseteq PageNos /\ NULL \notin F
      BY <1>1, <1>4, NodeFacts
    <2>2. \A p, q \in F : p + len[p] # q
      BY <1>1, <1>3, <1>4
    <2> QED
      BY <1>8, <2>1, <2>2 DEF Placed
  <1>10. RunsOK(Memory, F, {}, NULL, len)
    <2>1. OpenRun(Memory, 0, Pages)
      <3>1. \A q \in Inner(0, Pages) : q \in PageNos /\ q \in Nodes /\ q # 0 /\ q \notin Heads /\ q # FreeList
        <4>1. \A q \in Inner(0, Pages) : q \in Nat /\ q < Pages /\ q # 0
          BY <1>1 DEF Inner
        <4>2. \A x \in Heads : x \notin PageNos
          BY NodeFacts DEF Heads
        <4> QED
          BY <4>1, <4>2, NodeFacts
      <3>2. \A q \in Inner(0, Pages) : Blank(Memory, q, Run(0))
        BY <1>5, <1>6, <3>1 DEF Blank
      <3> QED
        BY <1>1, <1>5, <1>6, <3>2 DEF OpenRun, LooseRun
    <2>2. \A p \in F : OpenRun(Memory, p, len[p])
      BY <1>3, <1>4, <2>1
    <2>3. LooseOf(NULL) = {}
      BY NodeFacts DEF LooseOf
    <2> QED
      BY <2>2, <2>3 DEF RunsOK
  <1>11. RowsOK(Memory, F, {})
    <2>1. IsList(next, prev, FreeList, F)
      <3>1. next[0] = FreeList /\ next[FreeList] = 0 /\ prev[0] = FreeList
        BY <1>1, <1>5, NodeFacts
      <3>2. \A S \in SUBSET ({0} \cup {FreeList}) : FreeList \in S /\ (\A x \in S : next[x] \in S) => S = {0} \cup {FreeList}
        <4> SUFFICES ASSUME NEW S \in SUBSET ({0} \cup {FreeList}), FreeList \in S, \A x \in S : next[x] \in S
                     PROVE  S = {0} \cup {FreeList}
          OBVIOUS
        <4>1. 0 \in S
          BY <3>1
        <4> QED
          BY <4>1
      <3> QED
        BY <1>4, <3>1, <3>2 DEF IsList
    <2>2. ASSUME NEW size \in Sizes
          PROVE  IsList(next, prev, Slot(size), Room(Memory, {}, size))
      <3>1. PICK h : h = Slot(size)
        OBVIOUS
      <3>2. h \in Heads /\ h \in Nodes /\ h # FreeList /\ h \notin PageNos
        BY <3>1, NodeFacts
      <3>3. next[h] = h
        BY <1>1, <1>5, <3>2
      <3>4. Room(Memory, {}, size) = {}
        BY DEF Room
      <3>5. IsList(next, prev, h, {})
        BY <3>3 DEF IsList
      <3> QED
        BY <3>1, <3>4, <3>5
    <2> QED
      BY <1>6, <2>1, <2>2 DEF RowsOK
  <1>12. Laid(Memory, F, {}, {}, NULL, len)
    BY <1>7, <1>9, <1>10, <1>11 DEF Laid, CutOK
  <1>13. LiveIs(live, Memory, {}, {}, len)
    BY DEF SlabInit, LiveIs, IsBlock
  <1>14. FreeIs(pfree, F, len)
    <2>1. OpenPages(F, len) = Reach(0, Pages)
      <3>1. \A q \in PageNos : 0 <= q /\ q < 0 + len[0]
        BY <1>1, <1>3, NodeFacts
      <3>2. OpenPages(F, len) = PageNos
        BY <1>4, <3>1 DEF OpenPages
      <3>3. Reach(0, Pages) = PageNos
        BY <1>1 DEF Reach, PageNos
      <3> QED
        BY <3>2, <3>3
    <2>2. Cardinality(Reach(0, Pages)) = Pages
      BY <1>1, ReachCount
    <2> QED
      BY <2>1, <2>2 DEF FreeIs, SlabInit
  <1>15. HeldIs(unfreed, live)
    <2>1. MaxLive \in Nat
      BY SlabAssumption
    <2> QED
      BY <2>1, FS_EmptySet DEF HeldIs, SlabInit
  <1>16. UsedIs(used, live)
    <2>1. \A size \in Sizes : LongOf({}, size) = {}
      BY DEF LongOf
    <2>2. \A size \in Sizes : Cardinality(LongOf({}, size)) = 0
      BY <2>1, FS_EmptySet
    <2>3. used = [size \in Sizes |-> 0] /\ live = {}
      BY DEF SlabInit
    <2> QED
      BY <2>2, <2>3 DEF UsedIs, LongOf
  <1>17. TotalIs(total, Memory, {})
    <2>1. \A size \in Sizes : CutFor(Memory, {}, size) = {}
      BY DEF CutFor
    <2>2. \A size \in Sizes : Cardinality(CutFor(Memory, {}, size)) = 0
      BY <2>1, FS_EmptySet
    <2>3. \A size \in Sizes : (NumberOf(size) - Reserved(size)) * 0 = 0
      BY SizeFacts
    <2>4. total = [size \in Sizes |-> 0]
      BY DEF SlabInit
    <2>5. \A size \in Sizes : total[size] = (NumberOf(size) - Reserved(size)) * Cardinality(CutFor(Memory, {}, size))
      BY <2>2, <2>3, <2>4
    <2> QED
      BY <2>4, <2>5 DEF TotalIs
  <1>18. Shaped(Memory, live, pfree, unfreed, used, total, F, {}, {}, len)
    BY <1>12, <1>13, <1>14, <1>15, <1>16, <1>17 DEF Shaped
  <1>19. F \in SUBSET PageNos /\ {} \in SUBSET PageNos
    BY <1>1, <1>4
  <1> QED
    BY <1>3, <1>18, <1>19 DEF SlabInv, InShape

-----------------------------------------------------------------------------
(* What a pool in good shape shows. *)

LEMMA ListsShow ==
  ASSUME NEW F, NEW T, NEW C, NEW len, Laid(Memory, F, T, C, NULL, len)
  PROVE  OnList(FreeList) = F /\ \A size \in Sizes : OnList(Slot(size)) = Room(Memory, C, size)
  <1>1. Memory.next = next /\ Memory.prev = prev
    BY DEF Memory
  <1>2. /\ F \subseteq PageNos /\ FreeList \notin F /\ IsList(next, prev, FreeList, F) /\ C \subseteq PageNos
        /\ \A size \in Sizes : /\ Room(Memory, C, size) \subseteq C /\ Slot(size) \notin Room(Memory, C, size)
                               /\ IsList(next, prev, Slot(size), Room(Memory, C, size))
    BY <1>1, LaidFacts
  <1>3. OnList(FreeList) = F
    BY <1>2, NodeFacts, WalkIs DEF OnList
  <1>4. ASSUME NEW size \in Sizes
        PROVE  OnList(Slot(size)) = Room(Memory, C, size)
    <2>1. PICK h, L : h = Slot(size) /\ L = Room(Memory, C, size)
      OBVIOUS
    <2>2. h \notin L /\ L \subseteq PageNos /\ h \notin PageNos /\ IsList(next, prev, h, L)
      BY <1>2, <2>1, NodeFacts
    <2>3. Walk(h, {h}) \ {h} = L
      BY <2>2, WalkIs
    <2> QED
      BY <2>1, <2>3 DEF OnList
  <1> QED
    BY <1>3, <1>4

LEMMA ShapeShowsLists ==
  ASSUME NEW F, NEW T, NEW C, NEW len, Laid(Memory, F, T, C, NULL, len)
  PROVE  ListsAreLinked /\ SlotsOfferRoom
  <1>1. Memory.next = next /\ Memory.prev = prev /\ Memory.type = type /\ Memory.slab = slab /\ Memory.busy = busy
    BY DEF Memory
  <1>2. OnList(FreeList) = F /\ \A size \in Sizes : OnList(Slot(size)) = Room(Memory, C, size)
    BY ListsShow
  <1>3. /\ F \subseteq PageNos /\ FreeList \notin F /\ IsList(next, prev, FreeList, F) /\ C \subseteq PageNos
        /\ \A size \in Sizes : /\ Room(Memory, C, size) \subseteq C /\ Slot(size) \notin Room(Memory, C, size)
                               /\ IsList(next, prev, Slot(size), Room(Memory, C, size))
    BY <1>1, LaidFacts
  <1>4. ASSUME NEW h, NEW L, h \notin L, h \notin PageNos, IsList(next, prev, h, L), NEW p \in L
        PROVE  next[prev[p]] = p /\ (next[p] \in PageNos => prev[next[p]] = p)
    BY <1>4, ListSteps
  <1>5. \A p \in OnList(FreeList) : next[prev[p]] = p /\ (next[p] \in PageNos => prev[next[p]] = p)
    BY <1>2, <1>3, <1>4, NodeFacts
  <1>6. ASSUME NEW size \in Sizes, NEW p \in OnList(Slot(size))
        PROVE  next[prev[p]] = p /\ (next[p] \in PageNos => prev[next[p]] = p)
    <2>1. PICK h, L : h = Slot(size) /\ L = Room(Memory, C, size)
      OBVIOUS
    <2>2. h \notin L /\ h \notin PageNos /\ IsList(next, prev, h, L) /\ p \in L
      BY <1>2, <1>3, <1>6, <2>1, NodeFacts
    <2> QED
      BY <1>4, <2>2
  <1>7. \A p \in OnList(FreeList) : p > 0 /\ slab[p].n > 1 /\ slab[p].n < Pages => prev[p + slab[p].n - 1] = p
    <2> SUFFICES ASSUME NEW p \in F, slab[p].n > 1, slab[p].n < Pages
                 PROVE  prev[p + slab[p].n - 1] = p
      BY <1>2
    <2>1. PICK n : n = slab[p].n
      OBVIOUS
    <2>2. n = len[p]
      BY <1>1, <2>1, RunShows
    <2>3. OpenRun(Memory, p, n)
      BY <2>2 DEF Laid, RunsOK
    <2>4. prev[p + n - 1] = p
      BY <1>1, <2>1, <2>3 DEF OpenRun
    <2> QED
      BY <2>1, <2>4
  <1>8. ListsAreLinked
    BY <1>5, <1>6, <1>7 DEF ListsAreLinked
  <1>9. ASSUME NEW size \in Sizes
        PROVE  OnList(Slot(size)) = {p \in PageNos : type[p] # "page" /\ slab[p].n = size /\ busy[p] # Whole(size)}
    <2>1. \A p \in PageNos : p \in C <=> type[p] # "page"
      BY <1>1, PagesShow
    <2>2. Room(Memory, C, size) = {p \in PageNos : type[p] # "page" /\ slab[p].n = size /\ busy[p] # Whole(size)}
      BY <1>1, <1>3, <2>1 DEF Room
    <2> QED
      BY <1>2, <2>2
  <1> QED
    BY <1>8, <1>9 DEF SlotsOfferRoom

(* The pages of a block. *)
Across(b) == b.addr \div PageSize .. (b.addr + b.len - 1) \div PageSize

LEMMA BlockAcross ==
  ASSUME NEW m, NEW F, NEW T, NEW C, NEW len, Laid(m, F, T, C, NULL, len), NEW b, NEW p, BlockAt(b, m, T, C, len, p)
  PROVE  p \in T \cup C /\ Across(b) = Reach(p, len[p])
  <1>1. /\ T \subseteq PageNos /\ C \subseteq PageNos
        /\ \A q \in T \cup C : len[q] \in Nat /\ len[q] >= 1
    BY LaidFacts
  <1>2. CASE p \in T /\ b = PageBlock(p, len[p])
    <2>1. PICK n \in Nat : n = len[p] /\ n >= 1
      BY <1>1, <1>2
    <2>2. p \in Nat
      BY <1>1, <1>2, NodeFacts
    <2>3. b.addr \div PageSize = p /\ (b.addr + b.len - 1) \div PageSize = p + n - 1
      BY <1>2, <2>1, <2>2, RunBytes
    <2>4. Across(b) = Reach(p, n)
      BY <2>3 DEF Across, Reach
    <2> QED
      BY <1>2, <2>1, <2>4
  <1>3. CASE p \in C /\ \E c \in m.busy[p] : c >= Reserved(m.slab[p].n) /\ b = ChunkBlock(p, c, m.slab[p].n)
    <2>1. PICK c \in m.busy[p] : b = ChunkBlock(p, c, m.slab[p].n)
      BY <1>3
    <2>2. PICK size : size = m.slab[p].n
      OBVIOUS
    <2>3. CutPage(m, p, size) /\ len[p] = 1
      BY <1>3, <2>2 DEF Laid, CutOK
    <2>4. size \in Sizes /\ c \in Whole(size)
      BY <2>3 DEF CutPage
    <2>5. p \in Nat
      BY <1>1, <1>3, NodeFacts
    <2>6. b.addr \div PageSize = p /\ (b.addr + b.len - 1) \div PageSize = p
      BY <2>1, <2>2, <2>4, <2>5, ChunkBytes
    <2>7. Across(b) = p .. p /\ Reach(p, 1) = p .. p
      BY <2>5, <2>6 DEF Across, Reach
    <2> QED
      BY <1>3, <2>3, <2>7
  <1> QED
    BY <1>2, <1>3 DEF BlockAt

LEMMA ShapeShowsOccupied ==
  ASSUME NEW F, NEW T, NEW C, NEW len, Laid(Memory, F, T, C, NULL, len), LiveIs(live, Memory, T, C, len)
  PROVE  PageNos \ Occupied = OpenPages(F, len)
  <1> DEFINE Ld == LeadersOf(F, T, C, NULL)
  <1>1. /\ Tiling(Ld, len) /\ F \subseteq PageNos /\ T \subseteq PageNos /\ C \subseteq PageNos
        /\ F \cap T = {} /\ F \cap C = {} /\ T \cap C = {}
    BY LaidFacts
  <1>2. Ld = F \cup T \cup C
    BY NodeFacts DEF LeadersOf, LooseOf
  <1> HIDE DEF Ld
  <1>3. Memory.type = type
    BY DEF Memory
  <1>4. \A p \in PageNos : p \in C <=> type[p] # "page"
    BY <1>3, PagesShow
  <1>5. \A b \in live : \E p : BlockAt(b, Memory, T, C, len, p)
    BY BlockSomewhere DEF LiveIs
  <1>6. \A p \in T : PageBlock(p, len[p]) \in live /\ BlockAt(PageBlock(p, len[p]), Memory, T, C, len, p)
    BY BlockSomewhere DEF LiveIs, BlockAt
  <1>7. \A p \in C : len[p] = 1 /\ Reach(p, len[p]) = {p}
    <2> SUFFICES ASSUME NEW p \in C
                 PROVE  len[p] = 1 /\ Reach(p, len[p]) = {p}
      OBVIOUS
    <2>1. len[p] = 1
      BY RunShows
    <2>2. p \in Nat
      BY <1>1, NodeFacts
    <2>3. Reach(p, 1) = {p}
      BY <2>2 DEF Reach
    <2> QED
      BY <2>1, <2>3
  <1>8. Occupied = {p \in PageNos : type[p] # "page"} \cup UNION {Across(b) : b \in live}
    BY DEF Occupied, Across
  <1>9. Occupied = UNION {Reach(p, len[p]) : p \in T \cup C}
    <2>1. ASSUME NEW q \in Occupied
          PROVE  \E p \in T \cup C : q \in Reach(p, len[p])
      <3>1. CASE q \in PageNos /\ type[q] # "page"
        BY <1>4, <1>7, <3>1
      <3>2. CASE \E b \in live : q \in Across(b)
        <4>1. PICK b \in live : q \in Across(b)
          BY <3>2
        <4>2. PICK p : BlockAt(b, Memory, T, C, len, p)
          BY <1>5
        <4>3. p \in T \cup C /\ Across(b) = Reach(p, len[p])
          BY <4>2, BlockAcross
        <4> QED
          BY <4>1, <4>3
      <3> QED
        BY <1>8, <3>1, <3>2
    <2>2. ASSUME NEW p \in T, NEW q \in Reach(p, len[p])
          PROVE  q \in Occupied
      <3>1. PICK b \in live : BlockAt(b, Memory, T, C, len, p)
        BY <1>6
      <3>2. Across(b) = Reach(p, len[p])
        BY <3>1, BlockAcross
      <3> QED
        BY <1>8, <2>2, <3>2
    <2>3. ASSUME NEW p \in C, NEW q \in Reach(p, len[p])
          PROVE  q \in Occupied
      BY <1>1, <1>4, <1>7, <1>8, <2>3
    <2> QED
      BY <2>1, <2>2, <2>3
  <1>10. OpenPages(F, len) = UNION {Reach(p, len[p]) : p \in F} /\ OpenPages(F, len) \subseteq PageNos
    BY <1>1, <1>2, OpenFacts
  <1>11. \A p, q \in Ld : p # q => Reach(p, len[p]) \cap Reach(q, len[q]) = {}
    BY <1>1, ReachFacts
  <1>12. \A q \in PageNos : \E p \in Ld : q \in Reach(p, len[p])
    <2> SUFFICES ASSUME NEW q \in PageNos
                 PROVE  \E p \in Ld : q \in Reach(p, len[p])
      OBVIOUS
    <2>1. PICK p \in Ld : p <= q /\ q < p + len[p]
      BY <1>1 DEF Tiling
    <2>2. p \in Nat /\ len[p] \in Nat /\ q \in Nat
      BY <1>1, TileTypes, NodeFacts
    <2>3. q \in Reach(p, len[p])
      BY <2>1, <2>2 DEF Reach
    <2> QED
      BY <2>3
  <1>13. ASSUME NEW q \in OpenPages(F, len)
         PROVE  q \in PageNos \ Occupied
    <2>1. PICK p \in F : q \in Reach(p, len[p])
      BY <1>10
    <2>2. ASSUME NEW r \in T \cup C, q \in Reach(r, len[r])
          PROVE  FALSE
      <3>1. p # r /\ p \in Ld /\ r \in Ld
        BY <1>1, <1>2
      <3> QED
        BY <1>11, <2>1, <2>2, <3>1
    <2> QED
      BY <1>9, <1>10, <2>2
  <1>14. ASSUME NEW q \in PageNos \ Occupied
         PROVE  q \in OpenPages(F, len)
    <2>1. PICK p \in Ld : q \in Reach(p, len[p])
      BY <1>12
    <2>2. p \notin T \cup C
      BY <1>9, <2>1
    <2>3. p \in F
      BY <1>2, <2>2
    <2> QED
      BY <1>10, <2>1, <2>3
  <1> QED
    BY <1>13, <1>14

LEMMA ShapeShowsRuns ==
  ASSUME NEW F, NEW T, NEW C, NEW len, Laid(Memory, F, T, C, NULL, len), LiveIs(live, Memory, T, C, len), FreeIs(pfree, F, len)
  PROVE  RunsAreMaximal
  <1>1. OnList(FreeList) = F
    BY ListsShow
  <1>2. Memory.slab = slab
    BY DEF Memory
  <1>3. \A p \in F : slab[p].n = len[p] /\ Span(p) = Reach(p, len[p])
    BY <1>2, RunShows DEF Span, Reach
  <1>4. /\ Tiling(LeadersOf(F, T, C, NULL), len) /\ F \subseteq LeadersOf(F, T, C, NULL)
        /\ \A p, q \in F : p + len[p] # q
    <2>1. Placed(F, T, C, NULL, len)
      BY DEF Laid
    <2>2. Tiling(LeadersOf(F, T, C, NULL), len) /\ \A p, q \in F : p + len[p] # q
      BY <2>1 DEF Placed
    <2>3. F \subseteq LeadersOf(F, T, C, NULL)
      BY DEF LeadersOf
    <2> QED
      BY <2>2, <2>3
  <1>5. OpenPages(F, len) = UNION {Reach(p, len[p]) : p \in F}
    BY <1>4, OpenFacts
  <1>6. UNION {Span(p) : p \in F} = UNION {Reach(p, len[p]) : p \in F}
    BY <1>3
  <1>7. UNION {Span(p) : p \in F} = PageNos \ Occupied /\ pfree = Cardinality(PageNos \ Occupied)
    BY <1>5, <1>6, ShapeShowsOccupied DEF FreeIs
  <1>8. \A p, q \in F : p # q => p + slab[p].n # q /\ Span(p) \cap Span(q) = {}
    <2> SUFFICES ASSUME NEW p \in F, NEW q \in F, p # q
                 PROVE  p + slab[p].n # q /\ Span(p) \cap Span(q) = {}
      OBVIOUS
    <2>1. Reach(p, len[p]) \cap Reach(q, len[q]) = {}
      BY <1>4, ReachFacts
    <2>2. Span(p) = Reach(p, len[p]) /\ Span(q) = Reach(q, len[q]) /\ slab[p].n = len[p]
      BY <1>3
    <2> QED
      BY <1>4, <2>1, <2>2
  <1> QED
    BY <1>1, <1>7, <1>8 DEF RunsAreMaximal

LEMMA ShapeShowsBits ==
  ASSUME NEW F, NEW T, NEW C, NEW len, Laid(Memory, F, T, C, NULL, len), LiveIs(live, Memory, T, C, len)
  PROVE  BitmapIsReserved
  <1> SUFFICES ASSUME NEW p \in PageNos, type[p] # "page"
               PROVE  busy[p] = (0 .. Reserved(slab[p].n) - 1)
                         \cup {(b.addr % PageSize) \div b.len : b \in {b \in live : b.addr \div PageSize = p}}
    BY DEF BitmapIsReserved
  <1>1. Memory.type = type /\ Memory.slab = slab /\ Memory.busy = busy
    BY DEF Memory
  <1>2. p \in C /\ p \notin T
    <2>1. p \in C
      BY <1>1, PagesShow
    <2> QED
      BY <2>1, LaidFacts
  <1>3. PICK size : size = slab[p].n
    OBVIOUS
  <1>4. CutPage(Memory, p, size)
    BY <1>1, <1>2, <1>3 DEF Laid, CutOK
  <1>5. size \in Sizes /\ busy[p] \subseteq Whole(size) /\ 0 .. Reserved(size) - 1 \subseteq busy[p]
    BY <1>1, <1>4 DEF CutPage
  <1>6. p \in Nat
    BY NodeFacts
  <1>7. \A c \in busy[p] : /\ (ChunkBlock(p, c, size).addr % PageSize) \div ChunkBlock(p, c, size).len = c
                           /\ ChunkBlock(p, c, size).addr \div PageSize = p
    <2> SUFFICES ASSUME NEW c \in busy[p]
                 PROVE  /\ (ChunkBlock(p, c, size).addr % PageSize) \div ChunkBlock(p, c, size).len = c
                        /\ ChunkBlock(p, c, size).addr \div PageSize = p
      OBVIOUS
    <2>1. c \in Whole(size)
      BY <1>5
    <2>2. /\ ChunkBlock(p, c, size).addr % PageSize = c * size /\ ChunkBlock(p, c, size).len = size
          /\ (c * size) \div size = c /\ ChunkBlock(p, c, size).addr \div PageSize = p
      BY <1>5, <1>6, <2>1, ChunkBytes
    <2> QED
      BY <2>2
  <1>8. ASSUME NEW b
        PROVE  b \in live /\ b.addr \div PageSize = p
                 <=> \E c \in busy[p] : c >= Reserved(size) /\ b = ChunkBlock(p, c, size)
    <2>1. b \in live <=> \E r : BlockAt(b, Memory, T, C, len, r)
      BY BlockSomewhere DEF LiveIs
    <2>2. \A r : BlockAt(b, Memory, T, C, len, r) => b.addr \div PageSize = r
      BY BlockAtPage
    <2>3. BlockAt(b, Memory, T, C, len, p) <=> \E c \in busy[p] : c >= Reserved(size) /\ b = ChunkBlock(p, c, size)
      BY <1>1, <1>2, <1>3 DEF BlockAt
    <2> QED
      BY <2>1, <2>2, <2>3
  <1>9. \A c \in busy[p] : c >= Reserved(size) \/ c \in 0 .. Reserved(size) - 1
    <2>1. \A c \in Whole(size) : c \in Nat
      BY <1>5, SizeFacts DEF Whole
    <2>2. Reserved(size) \in Nat
      BY <1>5, SizeFacts
    <2>3. \A c \in Nat : c >= Reserved(size) \/ c \in 0 .. Reserved(size) - 1
      BY <2>2
    <2> QED
      BY <1>5, <2>1, <2>3
  <1>10. PICK of : of = {b \in live : b.addr \div PageSize = p}
    OBVIOUS
  <1>11. \A b : b \in of <=> \E c \in busy[p] : c >= Reserved(size) /\ b = ChunkBlock(p, c, size)
    BY <1>8, <1>10
  <1>12. \A c \in busy[p] : c >= Reserved(size) => \E b \in of : c = (b.addr % PageSize) \div b.len
    BY <1>7, <1>11
  <1>13. \A b \in of : (b.addr % PageSize) \div b.len \in busy[p]
    <2> SUFFICES ASSUME NEW b \in of
                 PROVE  (b.addr % PageSize) \div b.len \in busy[p]
      OBVIOUS
    <2>1. PICK c \in busy[p] : b = ChunkBlock(p, c, size)
      BY <1>11
    <2>2. (b.addr % PageSize) \div b.len = c
      BY <1>7, <2>1
    <2> QED
      BY <2>2
  <1>14. busy[p] = (0 .. Reserved(size) - 1) \cup {(b.addr % PageSize) \div b.len : b \in of}
    BY <1>5, <1>9, <1>12, <1>13
  <1> QED
    BY <1>3, <1>10, <1>14

LEMMA ShapeShowsStats ==
  ASSUME NEW F, NEW T, NEW C, NEW len, Laid(Memory, F, T, C, NULL, len), UsedIs(used, live), TotalIs(total, Memory, C)
  PROVE  StatsAreTrue
  <1>1. Memory.type = type /\ Memory.slab = slab
    BY DEF Memory
  <1>2. C \subseteq PageNos
    BY LaidFacts
  <1>3. \A p \in PageNos : p \in C <=> type[p] # "page"
    BY <1>1, PagesShow
  <1>4. \A size \in Sizes : CutFor(Memory, C, size) = {p \in PageNos : type[p] # "page" /\ slab[p].n = size}
    BY <1>1, <1>2, <1>3 DEF CutFor
  <1>5. \A size \in Sizes : total[size] = (NumberOf(size) - Reserved(size)) * Cardinality(CutFor(Memory, C, size))
    BY DEF TotalIs
  <1>6. \A size \in Sizes : used[size] = Cardinality({b \in live : b.len = size})
    BY DEF UsedIs
  <1>7. \A size \in Sizes : total[size] = (NumberOf(size) - Reserved(size))
                              * Cardinality({p \in PageNos : type[p] # "page" /\ slab[p].n = size})
    BY <1>4, <1>5
  <1> QED
    BY <1>6, <1>7 DEF StatsAreTrue

LEMMA ShapeShowsTypes ==
  ASSUME NEW F, NEW T, NEW C, NEW len, Shaped(Memory, live, pfree, unfreed, used, total, F, T, C, len)
  PROVE  SlabTypeOK
  <1>1. /\ Memory \in Mems /\ FreeIs(pfree, F, len) /\ HeldIs(unfreed, live) /\ UsedIs(used, live) /\ TotalIs(total, Memory, C)
    BY ShapedMems DEF Shaped
  <1>2. /\ next \in [Nodes -> Nodes \cup {NULL}] /\ prev \in [Nodes -> Nodes \cup {NULL}]
        /\ type \in [PageNos -> Types] /\ slab \in [PageNos -> Fields] /\ busy \in [PageNos -> Bits]
    <2>1. Memory.next = next /\ Memory.prev = prev /\ Memory.type = type /\ Memory.slab = slab /\ Memory.busy = busy
      BY DEF Memory
    <2> QED
      BY <1>1, <2>1, MemFields
  <1>3. used \in [Sizes -> Nat] /\ total \in [Sizes -> Nat] /\ unfreed \in 0 .. MaxLive
    BY <1>1 DEF UsedIs, TotalIs, HeldIs
  <1>4. pfree \in 0 .. Pages
    <2>1. IsFiniteSet(PageNos) /\ Cardinality(PageNos) = Pages
      <3>1. Pages \in Nat /\ Pages >= 1
        BY SlabAssumption
      <3>2. PageNos = Reach(0, Pages)
        BY <3>1 DEF PageNos, Reach
      <3> QED
        BY <3>1, <3>2, ReachCount
    <2>2. OpenPages(F, len) \in SUBSET PageNos
      BY DEF OpenPages
    <2>3. Cardinality(OpenPages(F, len)) <= Pages
      BY <2>1, <2>2, FS_Subset
    <2>4. Cardinality(OpenPages(F, len)) \in Nat
      BY OpenFinite, FS_CardinalityType
    <2> QED
      BY <1>1, <2>3, <2>4, SlabAssumption DEF FreeIs
  <1> QED
    BY <1>2, <1>3, <1>4 DEF SlabTypeOK, Types, Fields, Bits

LEMMA SlabInvShows ==
  ASSUME SlabInv
  PROVE  SlabIsSound
  <1>1. PICK F \in SUBSET PageNos, T \in SUBSET PageNos, C \in SUBSET PageNos, len \in [PageNos -> Nat] :
          Shaped(Memory, live, pfree, unfreed, used, total, F, T, C, len)
    BY DEF SlabInv, InShape
  <1>2. /\ Laid(Memory, F, T, C, NULL, len) /\ LiveIs(live, Memory, T, C, len)
        /\ FreeIs(pfree, F, len) /\ UsedIs(used, live) /\ TotalIs(total, Memory, C)
    BY <1>1 DEF Shaped
  <1>3. SlabTypeOK
    BY <1>1, ShapeShowsTypes
  <1>4. ListsAreLinked /\ SlotsOfferRoom
    BY <1>2, ShapeShowsLists
  <1>5. RunsAreMaximal
    BY <1>2, ShapeShowsRuns
  <1>6. BitmapIsReserved
    BY <1>2, ShapeShowsBits
  <1>7. StatsAreTrue
    BY <1>2, ShapeShowsStats
  <1> QED
    BY <1>3, <1>4, <1>5, <1>6, <1>7 DEF SlabIsSound

(* The inductive invariant of the slab allocator (ngx_slab.c): the pages   *)
(* are tiled by runs that are on the free list, handed out or cut into     *)
(* chunks, and the descriptors, lists, bitmaps and counters say so.  The   *)
(* bits for the bitmap of a page must fit one word: the code sets them by  *)
(* one shift (ngx_slab.c:329, 519).                                        *)
THEOREM SlabInvariance ==
  ASSUME BitsFit
  PROVE  SlabSpec => []SlabInv
  <1>1. SlabInit => SlabInv
    BY SlabBegins
  <1>2. SlabInv /\ [SlabNext]_slabVars => SlabInv'
    BY SlabStep
  <1> QED
    BY <1>1, <1>2, PTL DEF SlabSpec

(* What the next call relies on, always: lists that can be walked both     *)
(* ways, runs as long as they can be, slots that offer every page with     *)
(* room, bitmaps and counters that agree with the blocks.                  *)
THEOREM SlabStaysSound ==
  ASSUME BitsFit
  PROVE  SlabSpec => []SlabIsSound
  <1>1. SlabInv => SlabIsSound
    BY SlabInvShows
  <1> QED
    BY <1>1, SlabInvariance, PTL

(* Every call of the slab allocator is one of an allocator or nothing:     *)
(* blocks never overlap and lie in the pool, and what is freed is one      *)
(* block that was handed out.                                              *)
THEOREM SlabImplements ==
  ASSUME BitsFit
  PROVE  SlabSpec => ImplementsAllocator
  <1>1. SlabInit => A!Init
    BY DEF SlabInit, A!Init
  <1>2. SlabInv /\ [SlabNext]_slabVars => [A!Next]_(A!vars)
    BY SlabStep
  <1> QED
    BY <1>1, <1>2, SlabInvariance, PTL DEF SlabSpec, ImplementsAllocator, A!Spec
=============================================================================
