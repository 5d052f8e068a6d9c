------------------------- MODULE AcceptMutexProofs -------------------------
(***************************************************************************)
(* Proofs about AcceptMutex, for any number of workers and sockets and for *)
(* any number of failures, kills and clients.                              *)
(***************************************************************************)
EXTENDS AcceptMutex, TLAPS

(* The parts of the type invariant that the proofs need, with the bounds.  *)
Types ==
  /\ useMutex \in BOOLEAN
  /\ pc \in [Workers -> Labels]
  /\ mode \in [Workers -> Modes]
  /\ held \in [Workers -> BOOLEAN]
  /\ active \in [Workers -> SUBSET Sockets]
  /\ todo \in [Workers -> SUBSET Sockets]
  /\ retry \in [Workers -> SUBSET Sockets]
  /\ budget \in [{"clients", "errors", "ctl", "crashes"} -> Nat]

(* The flag ngx_accept_mutex_held and the timers of the listening sockets  *)
(* belong to the two ways of sharing sockets.                              *)
OnlyWithMutex ==
  \A w \in Workers :
    /\ held[w] => useMutex
    /\ mode[w] # "plain" => useMutex
    /\ useMutex => retry[w] = {}
    /\ pc[w] = "wait" /\ mode[w] = "brief" => ~held[w]

CtlBound == budget.ctl <= MaxCtlErrors

IInv ==
  /\ Types
  /\ HeldOnlyToAccept
  /\ OnlyWithMutex
  /\ CtlBound
  /\ FlagTellsListening

-----------------------------------------------------------------------------

(* What Spend does to the bound on failed registrations. *)
LEMMA SpendCtl ==
  ASSUME NEW b \in {"clients", "errors", "ctl", "crashes"}, Types, CtlBound, Spend(b)
  PROVE  /\ budget' \in [{"clients", "errors", "ctl", "crashes"} -> Nat]
         /\ CtlBound'
         /\ b # "ctl" => budget'.ctl = budget.ctl
         /\ b = "ctl" => budget'.ctl # MaxCtlErrors
  BY AcceptAssumption DEF Spend, Types, CtlBound

(* A step that leaves alone all that IInv is about but the bounds. *)
LEMMA QuietStep ==
  ASSUME IInv, UNCHANGED << useMutex, mutex, pc, mode, held, active, retry >>,
         todo' \in [Workers -> SUBSET Sockets],
         \/ UNCHANGED budget
         \/ \E b \in {"clients", "errors", "crashes"} : Spend(b)
  PROVE  IInv'
  <1>1. /\ budget' \in [{"clients", "errors", "ctl", "crashes"} -> Nat]
        /\ CtlBound'
        /\ budget'.ctl = budget.ctl
    <2>1. CASE UNCHANGED budget
      BY <2>1 DEF IInv, Types, CtlBound
    <2>2. ASSUME NEW b \in {"clients", "errors", "crashes"}, Spend(b)
          PROVE  /\ budget' \in [{"clients", "errors", "ctl", "crashes"} -> Nat]
                 /\ CtlBound'
                 /\ budget'.ctl = budget.ctl
      BY <2>2, SpendCtl DEF IInv
    <2>3. QED
      BY <2>1, <2>2
  <1>2. QED
    BY <1>1 DEF IInv, Types, HeldOnlyToAccept, OnlyWithMutex,
                FlagTellsListening, Listens

(* The head of the iteration. *)
LEMMA BeginStep ==
  ASSUME IInv, NEW w \in Workers, Begin(w)
  PROVE  IInv'
  <1> USE AcceptAssumption DEF IInv, Types, HeldOnlyToAccept, OnlyWithMutex,
      CtlBound, FlagTellsListening, Listens, Shared, Goto, Wait, Labels, Modes
  <1>1. CASE BeginWithoutMutex(w)
    BY <1>1 DEF BeginWithoutMutex
  <1>2. CASE BeginDisabled(w)
    BY <1>2 DEF BeginDisabled
  <1>3. CASE BeginLocked(w)
    BY <1>3 DEF BeginLocked, Tries, Enable
  <1>4. CASE BeginUnlocked(w)
    BY <1>4 DEF BeginUnlocked, Tries, DisableShared
  <1>5. QED
    BY <1>1, <1>2, <1>3, <1>4 DEF Begin

(* A failure to add or delete an event ends what FlagTellsListening says;  *)
(* the rest of the invariant does not depend on it.                        *)
LEMMA FailedCtlStep ==
  ASSUME IInv, NEW w \in Workers,
         UNCHANGED << useMutex, mutex, pc, mode, held >>,
         todo' \in [Workers -> SUBSET Sockets], Spend("ctl"), active' \in [Workers -> SUBSET Sockets],
         retry' \in [Workers -> SUBSET Sockets],
         \A v \in Workers : retry'[v] \subseteq retry[v]
  PROVE  IInv'
  <1>1. /\ budget' \in [{"clients", "errors", "ctl", "crashes"} -> Nat]
        /\ CtlBound'
        /\ budget'.ctl # MaxCtlErrors
    BY SpendCtl DEF IInv
  <1>2. Types' /\ HeldOnlyToAccept'
    BY <1>1 DEF IInv, Types, HeldOnlyToAccept
  <1>3. OnlyWithMutex'
    BY DEF IInv, OnlyWithMutex
  <1>4. QED
    BY <1>1, <1>2, <1>3 DEF IInv, FlagTellsListening

(* The steps that end in such a failure. *)
LEMMA FailingSteps ==
  ASSUME IInv, NEW w \in Workers,
         \/ BeginEnableFails(w)
         \/ BeginDisableFails(w)
         \/ \E s \in todo[w] : AcceptDisableFails(w, s)
         \/ \E s \in retry[w] : RetryFails(w, s)
  PROVE  IInv'
  <1> USE AcceptAssumption
  <1>1. \A v \in Workers : Listens(v) \subseteq Sockets
    BY DEF Listens, Shared
  <1>2. ASSUME EnableFails(w)
        PROVE  Spend("ctl") /\ active' \in [Workers -> SUBSET Sockets]
    BY <1>1, <1>2 DEF EnableFails, IInv, Types
  <1>3. ASSUME NEW ss, DisableFails(w, ss)
        PROVE  Spend("ctl") /\ active' \in [Workers -> SUBSET Sockets]
    BY <1>3 DEF DisableFails, IInv, Types
  <1>4. CASE BeginEnableFails(w)
    BY <1>2, <1>4, FailedCtlStep DEF BeginEnableFails, IInv, Types
  <1>5. CASE BeginDisableFails(w)
    BY <1>3, <1>5, FailedCtlStep DEF BeginDisableFails, IInv, Types
  <1>6. ASSUME NEW s \in todo[w], AcceptDisableFails(w, s)
        PROVE  IInv'
    <2>1. todo' \in [Workers -> SUBSET Sockets]
      BY <1>6 DEF AcceptDisableFails, Return, IInv, Types
    <2>2. QED
      BY <1>3, <1>6, <2>1, FailedCtlStep DEF AcceptDisableFails, IInv, Types
  <1>7. ASSUME NEW s \in retry[w], RetryFails(w, s)
        PROVE  IInv'
    <2>1. /\ retry' \in [Workers -> SUBSET Sockets]
          /\ \A v \in Workers : retry'[v] \subseteq retry[v]
      BY <1>7 DEF RetryFails, IInv, Types
    <2>2. todo' \in [Workers -> SUBSET Sockets]
      BY <1>7 DEF RetryFails, IInv, Types
    <2>3. QED
      BY <1>2, <1>7, <2>1, <2>2, FailedCtlStep DEF RetryFails
  <1>8. QED
    BY <1>4, <1>5, <1>6, <1>7

(* accept() and what follows it. *)
LEMMA AcceptSteps ==
  ASSUME IInv, NEW w \in Workers, NEW s \in todo[w],
         \/ Accept(w, s) \/ AcceptAborted(w, s) \/ AcceptFails(w, s)
         \/ AcceptExhausted(w, s) \/ AcceptAbandoned(w, s)
  PROVE  IInv'
  <1>0. s \in Sockets
    BY DEF IInv, Types
  <1>1. CASE Accept(w, s) \/ AcceptAborted(w, s) \/ AcceptAbandoned(w, s)
    <2>1. UNCHANGED << useMutex, mutex, pc, mode, held, active, retry,
                       budget >>
      BY <1>1 DEF Accept, AcceptAgain, AcceptOne, AcceptFull, AcceptAborted,
                  AcceptAbandoned
    <2>2. Return(w, s) \/ UNCHANGED todo
      BY <1>1 DEF Accept, AcceptAgain, AcceptOne, AcceptFull, AcceptAborted,
                  AcceptAbandoned, Continue
    <2>3. todo' \in [Workers -> SUBSET Sockets]
      BY <2>2 DEF Return, IInv, Types
    <2>4. QED
      BY <2>1, <2>3, QuietStep
  <1>2. CASE AcceptFails(w, s)
    <2>1. todo' \in [Workers -> SUBSET Sockets]
      BY <1>2 DEF AcceptFails, Return, IInv, Types
    <2>2. QED
      BY <1>2, <2>1, QuietStep DEF AcceptFails
  <1>3. CASE AcceptExhausted(w, s)
    <2>1. /\ budget' \in [{"clients", "errors", "ctl", "crashes"} -> Nat]
          /\ CtlBound'
          /\ budget'.ctl = budget.ctl
      BY <1>3, SpendCtl DEF AcceptExhausted, IInv
    <2>2. Types'
      <3>1. held' = held \/ held' = [held EXCEPT ![w] = FALSE]
        BY <1>3 DEF AcceptExhausted
      <3>2. retry' = retry \/ retry' = [retry EXCEPT ![w] = @ \cup {s}]
        BY <1>3 DEF AcceptExhausted
      <3>3. /\ active' = [active EXCEPT ![w] = {}]
            /\ todo' = [todo EXCEPT ![w] = @ \ {s}]
            /\ pc' = pc /\ mode' = mode /\ useMutex' = useMutex
        BY <1>3 DEF AcceptExhausted, DisableAll, Return
      <3>4. held' \in [Workers -> BOOLEAN]
        BY <3>1 DEF IInv, Types
      <3>5. retry' \in [Workers -> SUBSET Sockets]
        BY <1>0, <3>2 DEF IInv, Types
      <3>6. /\ active' \in [Workers -> SUBSET Sockets]
            /\ todo' \in [Workers -> SUBSET Sockets]
        BY <3>3 DEF IInv, Types
      <3>7. QED
        BY <2>1, <3>3, <3>4, <3>5, <3>6 DEF IInv, Types
    <2>3. HeldOnlyToAccept'
      BY <1>3, AcceptAssumption
         DEF AcceptExhausted, IInv, Types, HeldOnlyToAccept, Labels, Accepting
    <2>4. OnlyWithMutex'
      <3>1. held' = held \/ held' = [held EXCEPT ![w] = FALSE]
        BY <1>3 DEF AcceptExhausted
      <3>2. \A v \in Workers : held'[v] => held[v]
        BY <3>1 DEF IInv, Types
      <3>3. useMutex => retry' = retry
        BY <1>3 DEF AcceptExhausted
      <3>4. UNCHANGED << useMutex, pc, mode >>
        BY <1>3 DEF AcceptExhausted
      <3>5. QED
        BY <3>2, <3>3, <3>4 DEF IInv, OnlyWithMutex
    <2>5. FlagTellsListening'
      BY <1>3, <2>1 DEF AcceptExhausted, DisableAll, IInv, Types, OnlyWithMutex,
                        FlagTellsListening, Listens
    <2>6. QED
      BY <2>1, <2>2, <2>3, <2>4, <2>5 DEF IInv
  <1>4. QED
    BY <1>1, <1>2, <1>3

(* The wait, the end of the accept events, and the rest of the iteration.  *)
LEMMA LoopSteps ==
  ASSUME IInv, NEW w \in Workers,
         WaitEnds(w) \/ EndAccept(w) \/ CloseConnection(w) \/ Work(w)
  PROVE  IInv'
  <1> USE AcceptAssumption
  <1>1. CASE WaitEnds(w)
    BY <1>1 DEF WaitEnds, IInv, Types, HeldOnlyToAccept, OnlyWithMutex, CtlBound,
                FlagTellsListening, Listens, Goto, Labels
  <1>2. CASE EndAccept(w)
    BY <1>2 DEF EndAccept, local, IInv, Types, HeldOnlyToAccept, OnlyWithMutex,
                CtlBound, FlagTellsListening, Listens, Goto, Labels
  <1>3. CASE CloseConnection(w)
    BY <1>3, QuietStep DEF CloseConnection, IInv, Types
  <1>4. CASE EndIteration(w)
    BY <1>4 DEF EndIteration, local, IInv, Types, HeldOnlyToAccept, OnlyWithMutex,
                CtlBound, FlagTellsListening, Listens, Goto, Labels
  <1>5. ASSUME NEW s \in retry[w], Retry(w, s)
        PROVE  IInv'
    <2>1. s \in Sockets /\ ~useMutex /\ Listens(w) \subseteq Sockets
      BY DEF IInv, Types, OnlyWithMutex, Listens, Shared
    <2>2. Types' /\ CtlBound'
      BY <1>5, <2>1 DEF Retry, Enable, Goto, IInv, Types, CtlBound, Labels
    <2>3. HeldOnlyToAccept' /\ OnlyWithMutex'
      BY <1>5, <2>1 DEF Retry, Goto, IInv, Types, HeldOnlyToAccept, OnlyWithMutex
    <2>4. FlagTellsListening'
      BY <1>5, <2>1 DEF Retry, Enable, Goto, IInv, Types, OnlyWithMutex,
                        FlagTellsListening, Listens
    <2>5. QED
      BY <2>2, <2>3, <2>4 DEF IInv
  <1>6. QED
    BY <1>1, <1>2, <1>3, <1>4, <1>5 DEF Work

(* A kill, and the start of another worker. *)
LEMMA CrashSteps ==
  ASSUME IInv, NEW w \in Workers, Crash(w) \/ Respawn(w)
  PROVE  IInv'
  <1>1. CASE Crash(w)
    <2>1. /\ budget' \in [{"clients", "errors", "ctl", "crashes"} -> Nat]
          /\ CtlBound'
          /\ budget'.ctl = budget.ctl
      BY <1>1, SpendCtl DEF Crash, IInv
    <2>2. QED
      BY <1>1, <2>1
         DEF Crash, local, IInv, Types, HeldOnlyToAccept, OnlyWithMutex,
             FlagTellsListening, Listens, Goto, Labels
  <1>2. CASE Respawn(w)
    <2>1. FirstActive(w) \subseteq Sockets
      BY AcceptAssumption DEF FirstActive, Listens, Shared
    <2>2. Types' /\ CtlBound'
      BY <1>2, <2>1 DEF Respawn, Goto, IInv, Types, CtlBound, Labels, Modes
    <2>3. HeldOnlyToAccept' /\ OnlyWithMutex'
      BY <1>2, AcceptAssumption
         DEF Respawn, Goto, IInv, Types, HeldOnlyToAccept, OnlyWithMutex
    <2>4. FlagTellsListening'
      BY <1>2 DEF Respawn, Goto, IInv, Types, FlagTellsListening, FirstActive,
                  Listens
    <2>5. QED
      BY <2>2, <2>3, <2>4 DEF IInv
  <1>3. QED
    BY <1>1, <1>2

-----------------------------------------------------------------------------

(* The initial state satisfies the inductive invariant. *)
LEMMA InitIInv == Init => IInv
  BY AcceptAssumption
     DEF Init, IInv, Types, HeldOnlyToAccept, OnlyWithMutex, CtlBound,
         FlagTellsListening, FirstActive, Listens, Shared, Labels, Modes

(* The inductive invariant holds in every reachable state. *)
THEOREM Invariance == Spec => []IInv
  <1>1. IInv /\ [Next]_vars => IInv'
    <2> SUFFICES ASSUME IInv, [Next]_vars PROVE IInv'
      OBVIOUS
    <2>1. ASSUME NEW s \in Sockets, Arrive(s)
          PROVE  IInv'
      BY <2>1, QuietStep DEF Arrive, local, IInv, Types
    <2>2. CASE UNCHANGED vars
      BY <2>2, QuietStep DEF vars, IInv, Types
    <2>3. CASE Next
      BY <2>1, <2>3, BeginStep, FailingSteps, AcceptSteps, LoopSteps, CrashSteps
         DEF Next
    <2>4. QED
      BY <2>2, <2>3
  <1>2. QED
    BY InitIInv, <1>1, PTL DEF Spec

(* A worker never does anything but wait for clients and accept them while *)
(* it holds the accept mutex, whatever fails and whoever is killed.        *)
THEOREM MutexIsHeldOnlyToAccept == Spec => []HeldOnlyToAccept
  BY Invariance, PTL DEF IInv

(* Until the event module fails to add or delete an event, a worker with   *)
(* the flag set listens on all its sockets, one without it on none of the  *)
(* shared ones.                                                            *)
THEOREM FlagIsTrue == Spec => []FlagTellsListening
  BY Invariance, PTL DEF IInv
=============================================================================
