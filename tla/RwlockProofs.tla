---------------------------- MODULE RwlockProofs ----------------------------
(***************************************************************************)
(* Proofs about Rwlock, for any finite set of processes smaller than the   *)
(* largest value of the lock word.                                         *)
(***************************************************************************)
EXTENDS Rwlock, FiniteSetTheorems, TLAPS

(* A writer is alone, and a reader that is about to leave has loaded the   *)
(* word after it was counted.                                              *)
OneWriter ==
  \A p \in Writers : Readers = {} /\ Writers = {p}

(* RlockCas adds one to a value that is not WLOCK. *)
SeenBelowWLOCK ==
  \A p \in Procs : pc[p] = "rcas" => seen[p] < WLOCK

IInv ==
  /\ TypeOK
  /\ OneWriter
  /\ SeenBelowWLOCK
  /\ WordCountsHolders

ReaderLabels == {"reading", "ucas"}
WriterLabels == {"writing", "wstore"}

-----------------------------------------------------------------------------

(* The sets of holders are finite, and the readers fit into the word. *)
LEMMA FiniteHolders ==
  /\ IsFiniteSet(Readers)
  /\ Cardinality(Readers) \in Nat
  /\ Cardinality(Readers) < WLOCK
  <1>1. Readers \subseteq Procs
    BY DEF Readers
  <1>2. IsFiniteSet(Readers) /\ Cardinality(Readers) <= Cardinality(Procs)
    BY <1>1, RwlockAssumption, FS_Subset
  <1>3. Cardinality(Procs) \in Nat /\ Cardinality(Readers) \in Nat
    BY <1>2, RwlockAssumption, FS_CardinalityType
  <1>4. QED
    BY <1>2, <1>3, RwlockAssumption

(* How the sets of holders change when one process moves to label l. *)
LEMMA HoldersAfterGoto ==
  ASSUME NEW p \in Procs, NEW l, pc \in [Procs -> Labels], Goto(p, l)
  PROVE  /\ Readers' = IF l \in ReaderLabels THEN Readers \cup {p} ELSE Readers \ {p}
         /\ Writers' = IF l \in WriterLabels THEN Writers \cup {p} ELSE Writers \ {p}
  <1>1. ASSUME NEW q \in Procs
        PROVE  pc'[q] = IF q = p THEN l ELSE pc[q]
    BY DEF Goto
  <1>2. Readers' = IF l \in ReaderLabels THEN Readers \cup {p} ELSE Readers \ {p}
    BY <1>1 DEF Readers, ReaderLabels
  <1>3. Writers' = IF l \in WriterLabels THEN Writers \cup {p} ELSE Writers \ {p}
    BY <1>1 DEF Writers, WriterLabels
  <1>4. QED
    BY <1>2, <1>3

(* The cardinality of a finite set that gains or loses one element. *)
LEMMA CardinalityStep ==
  ASSUME NEW S, IsFiniteSet(S), NEW x
  PROVE  /\ x \in S => Cardinality(S \ {x}) = Cardinality(S) - 1
         /\ x \notin S => Cardinality(S \cup {x}) = Cardinality(S) + 1
  BY FS_AddElement, FS_RemoveElement

(* What the value of the word tells about the holders. *)
LEMMA WordMeaning ==
  ASSUME IInv
  PROVE  /\ lock = WLOCK <=> Writers # {}
         /\ lock = 0 <=> Readers = {} /\ Writers = {}
         /\ lock # WLOCK => lock = Cardinality(Readers)
  <1>1. IsFiniteSet(Readers) /\ Cardinality(Readers) \in Nat
        /\ Cardinality(Readers) < WLOCK
    BY FiniteHolders
  <1>2. Cardinality(Readers) = 0 <=> Readers = {}
    BY <1>1, FS_EmptySet
  <1>3. QED
    BY <1>1, <1>2, RwlockAssumption DEF IInv, WordCountsHolders

(* A move between labels of the same kind leaves the holders alone.        *)
LEMMA SameHolders ==
  ASSUME NEW p \in Procs, NEW l, pc \in [Procs -> Labels], Goto(p, l),
         l \in ReaderLabels <=> pc[p] \in ReaderLabels,
         l \in WriterLabels <=> pc[p] \in WriterLabels
  PROVE  Readers' = Readers /\ Writers' = Writers
  <1>1. /\ p \in Readers <=> pc[p] \in ReaderLabels
        /\ p \in Writers <=> pc[p] \in WriterLabels
    BY DEF Readers, Writers, ReaderLabels, WriterLabels
  <1>2. Readers' = Readers
    <2>1. CASE l \in ReaderLabels
      BY <1>1, <2>1, HoldersAfterGoto
    <2>2. CASE l \notin ReaderLabels
      BY <1>1, <2>2, HoldersAfterGoto
    <2>3. QED
      BY <2>1, <2>2
  <1>3. Writers' = Writers
    <2>1. CASE l \in WriterLabels
      BY <1>1, <2>1, HoldersAfterGoto
    <2>2. CASE l \notin WriterLabels
      BY <1>1, <2>2, HoldersAfterGoto
    <2>3. QED
      BY <2>1, <2>2
  <1>4. QED
    BY <1>2, <1>3

-----------------------------------------------------------------------------

(* Every step preserves the types, and the loaded value stays below WLOCK. *)
LEMMA TypeStep ==
  ASSUME IInv, Next
  PROVE  TypeOK' /\ SeenBelowWLOCK'
  <1> USE RwlockAssumption DEF IInv, TypeOK, SeenBelowWLOCK, Labels, Goto, Load
  <1>1. ASSUME NEW p \in Procs, CallWlock(p) \/ CallRlock(p)
        PROVE  TypeOK' /\ SeenBelowWLOCK'
    BY <1>1 DEF CallWlock, CallRlock
  <1>2. ASSUME NEW p \in Procs, Locking(p)
        PROVE  TypeOK' /\ SeenBelowWLOCK'
    BY <1>2 DEF Locking, Wlock, RlockLoad, RlockCas
  <1>3. ASSUME NEW p \in Procs, UnlockLoad(p) \/ UnlockStore(p)
        PROVE  TypeOK' /\ SeenBelowWLOCK'
    BY <1>3 DEF UnlockLoad, UnlockStore
  <1>4. ASSUME NEW p \in Procs, UnlockCas(p)
        PROVE  TypeOK' /\ SeenBelowWLOCK'
    <2>1. CASE lock = seen[p]
      <3>1. lock # 0
        <4>1. p \in Readers
          BY <1>4 DEF UnlockCas, Readers
        <4>2. QED
          BY <4>1, WordMeaning
      <3>2. QED
        BY <1>4, <2>1, <3>1 DEF UnlockCas
    <2>2. CASE lock # seen[p]
      BY <1>4, <2>2 DEF UnlockCas
    <2>3. QED
      BY <2>1, <2>2
  <1>5. QED
    BY <1>1, <1>2, <1>3, <1>4 DEF Next, Unlocking

(* Every step keeps the word in agreement with the holders. *)
LEMMA WordStep ==
  ASSUME IInv, Next
  PROVE  OneWriter' /\ WordCountsHolders'
  <1> USE DEF ReaderLabels, WriterLabels
  <1>0. /\ pc \in [Procs -> Labels] /\ WLOCK \in Nat
        /\ IsFiniteSet(Readers) /\ Cardinality(Readers) \in Nat
        /\ Cardinality(Readers) < WLOCK
    BY FiniteHolders, RwlockAssumption DEF IInv, TypeOK
  <1>1. ASSUME Readers' = Readers, Writers' = Writers, lock' = lock
        PROVE  OneWriter' /\ WordCountsHolders'
    BY <1>1 DEF IInv, OneWriter, WordCountsHolders
  <1>2. ASSUME NEW p \in Procs, CallWlock(p) \/ CallRlock(p) \/ RlockLoad(p)
        PROVE  OneWriter' /\ WordCountsHolders'
    BY <1>0, <1>1, <1>2, SameHolders DEF CallWlock, CallRlock, RlockLoad
  <1>3. ASSUME NEW p \in Procs, Wlock(p)
        PROVE  OneWriter' /\ WordCountsHolders'
    <2>1. Readers = {} /\ Writers = {}
      BY <1>3, WordMeaning DEF Wlock
    <2>2. Readers' = {} /\ Writers' = {p}
      BY <1>0, <1>3, <2>1, HoldersAfterGoto DEF Wlock
    <2>3. QED
      BY <1>3, <2>2 DEF Wlock, OneWriter, WordCountsHolders
  <1>4. ASSUME NEW p \in Procs, RlockCas(p), lock = seen[p]
        PROVE  OneWriter' /\ WordCountsHolders'
    <2>1. lock # WLOCK
      BY <1>0, <1>4 DEF RlockCas, IInv, SeenBelowWLOCK, TypeOK
    <2>2. Writers = {} /\ lock = Cardinality(Readers)
      BY <2>1, WordMeaning
    <2>3. p \notin Readers
      BY <1>4 DEF RlockCas, Readers
    <2>4. Readers' = Readers \cup {p} /\ Writers' = {}
      BY <1>0, <1>4, <2>2, HoldersAfterGoto DEF RlockCas
    <2>5. Cardinality(Readers') = Cardinality(Readers) + 1
      BY <1>0, <2>3, <2>4, CardinalityStep
    <2>6. QED
      BY <1>4, <2>2, <2>4, <2>5 DEF RlockCas, OneWriter, WordCountsHolders
  <1>5. ASSUME NEW p \in Procs, RlockCas(p), lock # seen[p]
        PROVE  OneWriter' /\ WordCountsHolders'
    BY <1>0, <1>1, <1>5, SameHolders DEF RlockCas
  <1>6. ASSUME NEW p \in Procs, UnlockLoad(p)
        PROVE  OneWriter' /\ WordCountsHolders'
    <2>1. CASE pc[p] = "writing"
      <3>1. p \in Writers
        BY <2>1 DEF Writers
      <3>2. lock = WLOCK
        BY <3>1, WordMeaning
      <3>3. QED
        BY <1>0, <1>1, <1>6, <2>1, <3>2, SameHolders DEF UnlockLoad
    <2>2. CASE pc[p] = "reading"
      <3>1. p \in Readers
        BY <2>2 DEF Readers
      <3>2. lock # WLOCK
        BY <3>1, WordMeaning DEF IInv, OneWriter
      <3>3. QED
        BY <1>0, <1>1, <1>6, <2>2, <3>2, SameHolders DEF UnlockLoad
    <2>3. QED
      BY <1>6, <2>1, <2>2 DEF UnlockLoad
  <1>7. ASSUME NEW p \in Procs, UnlockStore(p)
        PROVE  OneWriter' /\ WordCountsHolders'
    <2>1. p \in Writers
      BY <1>7 DEF UnlockStore, Writers
    <2>2. Readers = {} /\ Writers = {p}
      BY <2>1 DEF IInv, OneWriter
    <2>3. Readers' = {} /\ Writers' = {}
      BY <1>0, <1>7, <2>2, HoldersAfterGoto DEF UnlockStore
    <2>4. QED
      BY <1>7, <2>3, FS_EmptySet DEF UnlockStore, OneWriter, WordCountsHolders
  <1>8. ASSUME NEW p \in Procs, UnlockCas(p), lock = seen[p]
        PROVE  OneWriter' /\ WordCountsHolders'
    <2>1. p \in Readers
      BY <1>8 DEF UnlockCas, Readers
    <2>2. Writers = {} /\ lock = Cardinality(Readers)
      BY <2>1, WordMeaning DEF IInv, OneWriter
    <2>3. Readers' = Readers \ {p} /\ Writers' = {}
      BY <1>0, <1>8, <2>2, HoldersAfterGoto DEF UnlockCas
    <2>4. Cardinality(Readers') = Cardinality(Readers) - 1
      BY <1>0, <2>1, <2>3, CardinalityStep
    <2>5. QED
      BY <1>8, <2>2, <2>3, <2>4 DEF UnlockCas, OneWriter, WordCountsHolders
  <1>9. ASSUME NEW p \in Procs, UnlockCas(p), lock # seen[p]
        PROVE  OneWriter' /\ WordCountsHolders'
    BY <1>1, <1>9 DEF UnlockCas, Readers, Writers
  <1>10. QED
    BY <1>2, <1>3, <1>4, <1>5, <1>6, <1>7, <1>8, <1>9
       DEF Next, Locking, Unlocking

-----------------------------------------------------------------------------

(* The initial state satisfies the inductive invariant. *)
LEMMA InitIInv == Init => IInv
  <1> SUFFICES ASSUME Init PROVE IInv
    OBVIOUS
  <1>1. Readers = {} /\ Writers = {}
    BY DEF Init, Readers, Writers
  <1>2. TypeOK /\ SeenBelowWLOCK
    BY RwlockAssumption DEF Init, TypeOK, SeenBelowWLOCK, Labels
  <1>3. OneWriter /\ WordCountsHolders
    BY <1>1, FS_EmptySet DEF Init, OneWriter, WordCountsHolders
  <1>4. QED
    BY <1>2, <1>3 DEF IInv

(* The inductive invariant of the rwlock holds in every reachable state. *)
THEOREM Invariance == Spec => []IInv
  <1>1. IInv /\ [Next]_vars => IInv'
    <2>1. IInv /\ Next => IInv'
      BY TypeStep, WordStep DEF IInv
    <2>2. IInv /\ UNCHANGED vars => IInv'
      BY DEF IInv, vars, TypeOK, OneWriter, SeenBelowWLOCK, WordCountsHolders,
             Readers, Writers
    <2>3. QED
      BY <2>1, <2>2
  <1>2. QED
    BY InitIInv, <1>1, PTL DEF Spec

(* The word never overflows into the value that means a writer, and never  *)
(* underflows into it.                                                     *)
THEOREM TypeCorrect == Spec => []TypeOK
  BY Invariance, PTL DEF IInv

(* The word tells ngx_rwlock_unlock what its caller holds, for any number  *)
(* of processes that fits into the word.                                   *)
THEOREM WordIsTrue == Spec => []WordCountsHolders
  BY Invariance, PTL DEF IInv

-----------------------------------------------------------------------------

(* Every step is a step of the abstract lock, or changes nothing of it. *)
LEMMA StepRefines ==
  ASSUME IInv, [Next]_vars
  PROVE  [AbstractRW!RWNext]_AbstractRW!rwvars
  <1> USE DEF ReaderLabels, WriterLabels
  <1> DEFINE Stutter == Readers' = Readers /\ Writers' = Writers
  <1>0. pc \in [Procs -> Labels]
    BY DEF IInv, TypeOK
  <1>1. ASSUME NEW p \in Procs, CallWlock(p) \/ CallRlock(p) \/ RlockLoad(p)
        PROVE  Stutter
    BY <1>0, <1>1, SameHolders DEF CallWlock, CallRlock, RlockLoad
  <1>2. ASSUME NEW p \in Procs, Wlock(p)
        PROVE  AbstractRW!BeginWrite(p)
    <2>1. Readers = {} /\ Writers = {}
      BY <1>2, WordMeaning DEF Wlock
    <2>2. Readers' = {} /\ Writers' = {p}
      BY <1>0, <1>2, <2>1, HoldersAfterGoto DEF Wlock
    <2>3. QED
      BY <2>1, <2>2 DEF AbstractRW!BeginWrite
  <1>3. ASSUME NEW p \in Procs, RlockCas(p)
        PROVE  AbstractRW!BeginRead(p) \/ Stutter
    <2>1. CASE lock = seen[p]
      <3>1. lock # WLOCK
        BY <1>3, <2>1, RwlockAssumption DEF RlockCas, IInv, SeenBelowWLOCK, TypeOK
      <3>2. Writers = {}
        BY <3>1, WordMeaning
      <3>3. p \notin Readers
        BY <1>3 DEF RlockCas, Readers
      <3>4. Readers' = Readers \cup {p} /\ Writers' = {}
        BY <1>0, <1>3, <2>1, <3>2, HoldersAfterGoto DEF RlockCas
      <3>5. QED
        BY <3>2, <3>3, <3>4 DEF AbstractRW!BeginRead
    <2>2. CASE lock # seen[p]
      BY <1>0, <1>3, <2>2, SameHolders DEF RlockCas
    <2>3. QED
      BY <2>1, <2>2
  <1>4. ASSUME NEW p \in Procs, UnlockLoad(p)
        PROVE  Stutter
    <2>1. CASE pc[p] = "writing"
      <3>1. p \in Writers
        BY <2>1 DEF Writers
      <3>2. lock = WLOCK
        BY <3>1, WordMeaning
      <3>3. QED
        BY <1>0, <1>4, <2>1, <3>2, SameHolders DEF UnlockLoad
    <2>2. CASE pc[p] = "reading"
      <3>1. p \in Readers
        BY <2>2 DEF Readers
      <3>2. lock # WLOCK
        BY <3>1, WordMeaning DEF IInv, OneWriter
      <3>3. QED
        BY <1>0, <1>4, <2>2, <3>2, SameHolders DEF UnlockLoad
    <2>3. QED
      BY <1>4, <2>1, <2>2 DEF UnlockLoad
  <1>5. ASSUME NEW p \in Procs, UnlockStore(p)
        PROVE  AbstractRW!EndWrite(p)
    <2>1. p \in Writers
      BY <1>5 DEF UnlockStore, Writers
    <2>2. Readers = {} /\ Writers = {p}
      BY <2>1 DEF IInv, OneWriter
    <2>3. Readers' = {} /\ Writers' = {}
      BY <1>0, <1>5, <2>2, HoldersAfterGoto DEF UnlockStore
    <2>4. QED
      BY <2>2, <2>3 DEF AbstractRW!EndWrite
  <1>6. ASSUME NEW p \in Procs, UnlockCas(p)
        PROVE  AbstractRW!EndRead(p) \/ Stutter
    <2>1. p \in Readers
      BY <1>6 DEF UnlockCas, Readers
    <2>2. Writers = {}
      BY <2>1 DEF IInv, OneWriter
    <2>3. CASE lock = seen[p]
      <3>1. Readers' = Readers \ {p} /\ Writers' = Writers
        BY <1>0, <1>6, <2>2, <2>3, HoldersAfterGoto DEF UnlockCas
      <3>2. QED
        BY <2>1, <3>1 DEF AbstractRW!EndRead
    <2>4. CASE lock # seen[p]
      BY <1>6, <2>4 DEF UnlockCas, Readers, Writers
    <2>5. QED
      BY <2>3, <2>4
  <1>7. CASE UNCHANGED vars
    BY <1>7 DEF vars, Readers, Writers, AbstractRW!rwvars
  <1>8. CASE Next
    <2>1. AbstractRW!RWNext \/ Stutter
      BY <1>8, <1>1, <1>2, <1>3, <1>4, <1>5, <1>6
         DEF Next, Locking, Unlocking, AbstractRW!RWNext
    <2>2. QED
      BY <2>1 DEF AbstractRW!rwvars
  <1>9. QED
    BY <1>7, <1>8

(* The rwlock of ngx_rwlock.c lets readers share and excludes writers from *)
(* everyone, as ReadersWriters states it.                                  *)
THEOREM Refinement == Spec => Implements
  <1>1. Init => AbstractRW!RWInit
    BY DEF Init, Readers, Writers, AbstractRW!RWInit
  <1>2. QED
    BY <1>1, Invariance, StepRefines, PTL
       DEF Spec, Implements, AbstractRW!RWSpec
=============================================================================
