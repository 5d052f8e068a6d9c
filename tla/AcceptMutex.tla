---------------------------- MODULE AcceptMutex ----------------------------
(***************************************************************************)
(* The loop of the worker processes around the listening sockets:          *)
(* ngx_process_events_and_timers of src/event/ngx_event.c with             *)
(* ngx_trylock_accept_mutex and ngx_event_accept of                        *)
(* src/event/ngx_event_accept.c, over an event module with level-triggered *)
(* listening sockets (epoll).  Several workers share listening sockets; a  *)
(* worker takes the accept mutex at the head of an iteration and gives it  *)
(* back after it has accepted.  A worker may be killed; the master then    *)
(* frees the mutex for it and starts another.                              *)
(*                                                                         *)
(* One step is what a worker does between two system calls that other      *)
(* processes can observe: the compare-and-set of the mutex, the wait for   *)
(* events, one accept().                                                   *)
(***************************************************************************)
EXTENDS Integers, FiniteSets

CONSTANTS
  Workers,
  Free,           (* the value of the mutex when nobody holds it *)
  Sockets,        (* the listening sockets *)
  Reuseport,      (* those that belong to one worker only *)
  Owner,          (* that worker *)
  MultiAccept,    (* multi_accept of the configuration *)
  ConnectionN,    (* ngx_cycle->connection_n *)
  Spare,          (* free connections of a worker that serves no client *)
  MaxClients,     (* bound on the clients that connect *)
  MaxErrors,      (* bound on errors of accept() but NGX_ECONNABORTED *)
  MaxCtlErrors,   (* bound on failures to add or delete an event *)
  MaxCrashes      (* bound on workers killed *)

ASSUME AcceptAssumption ==
  /\ Free \notin Workers
  /\ Reuseport \subseteq Sockets
  /\ Owner \in [Reuseport -> Workers]
  /\ MultiAccept \in BOOLEAN
  /\ ConnectionN \in Nat /\ Spare \in 1 .. ConnectionN
  /\ {MaxClients, MaxErrors, MaxCtlErrors, MaxCrashes} \subseteq Nat

VARIABLES
  useMutex,   (* ngx_use_accept_mutex, as the configuration says *)
  mutex,      (* ngx_accept_mutex: its holder, or Free *)
  pc,         (* where each worker is in its loop *)
  mode,       (* how this iteration polls: see Modes *)
  held,       (* ngx_accept_mutex_held *)
  disabled,   (* ngx_accept_disabled *)
  active,     (* the sockets registered with the event module *)
  todo,       (* the sockets whose accept handler is still to run *)
  retry,      (* the sockets with the timer that enables them again *)
  free,       (* ngx_cycle->free_connection_n *)
  pending,    (* the clients in the queue of each socket, in the kernel *)
  budget      (* what is left of the bounds *)

vars == << useMutex, mutex, pc, mode, held, disabled, active, todo, retry,
           free, pending, budget >>

local == << mode, held, disabled, active, todo, retry, free >>

Labels == { "loop", "wait", "accept", "work", "dead" }

(* "post": accept events are queued and run under the mutex; "brief": the  *)
(* mutex was taken by another worker, the wait ends after                  *)
(* ngx_accept_mutex_delay; "plain": neither.                               *)
Modes == { "post", "brief", "plain" }

Shared == Sockets \ Reuseport

(* The listening sockets that have a connection in this worker.            *)
Listens(w) == Shared \cup { s \in Reuseport : Owner[s] = w }

Spend(b) == /\ budget[b] > 0
            /\ budget' = [budget EXCEPT ![b] = @ - 1]

Goto(w, l) == pc' = [pc EXCEPT ![w] = l]

(* ngx_event_process_init *)
FirstActive(w) == IF useMutex THEN Listens(w) \ Shared ELSE Listens(w)

Init ==
  /\ useMutex \in BOOLEAN
  /\ mutex = Free
  /\ pc = [w \in Workers |-> "loop"]
  /\ mode = [w \in Workers |-> "plain"]
  /\ held = [w \in Workers |-> FALSE]
  /\ disabled = [w \in Workers |-> 0]
  /\ active = [w \in Workers |-> FirstActive(w)]
  /\ todo = [w \in Workers |-> {}]
  /\ retry = [w \in Workers |-> {}]
  /\ free = [w \in Workers |-> Spare]
  /\ pending = [s \in Sockets |-> 0]
  /\ budget = [clients |-> MaxClients, errors |-> MaxErrors,
               ctl |-> MaxCtlErrors, crashes |-> MaxCrashes]

Arrive(s) ==
  /\ Spend("clients")
  /\ pending' = [pending EXCEPT ![s] = @ + 1]
  /\ UNCHANGED << mutex, pc, local, useMutex >>

-----------------------------------------------------------------------------
(* ngx_process_events_and_timers up to ngx_process_events *)

(* ngx_disable_accept_events; on an error the loop over the sockets stops  *)
(* and some of them stay registered.                                       *)
DisableAll(w) == active' = [active EXCEPT ![w] = {}]
DisableShared(w) == active' = [active EXCEPT ![w] = @ \ Shared]
DisableFails(w, sockets) ==
  \E s \in SUBSET (active[w] \cap sockets) :
    /\ s # {}
    /\ Spend("ctl")
    /\ active' = [active EXCEPT ![w] = (@ \ sockets) \cup s]

(* ngx_enable_accept_events *)
Enable(w) == active' = [active EXCEPT ![w] = Listens(w)]
EnableFails(w) ==
  \E s \in SUBSET (Listens(w) \ active[w]) :
    /\ s # {}
    /\ Spend("ctl")
    /\ active' = [active EXCEPT ![w] = Listens(w) \ s]

Wait(w, m) ==
  /\ Goto(w, "wait")
  /\ mode' = [mode EXCEPT ![w] = m]

BeginWithoutMutex(w) ==
  /\ pc[w] = "loop" /\ ~useMutex
  /\ Wait(w, "plain")
  /\ UNCHANGED << mutex, held, disabled, active, todo, retry, free, pending,
                  budget, useMutex >>

(* The worker is short of connections and does not try for the mutex.      *)
BeginDisabled(w) ==
  /\ pc[w] = "loop" /\ useMutex
  /\ disabled[w] > 0
  /\ disabled' = [disabled EXCEPT ![w] = @ - 1]
  /\ Wait(w, "plain")
  /\ UNCHANGED << mutex, held, active, todo, retry, free, pending, budget,
                  useMutex >>

Tries(w) == pc[w] = "loop" /\ useMutex /\ disabled[w] <= 0

(* ngx_trylock_accept_mutex gets the mutex; a worker that still has        *)
(* ngx_accept_mutex_held from an earlier iteration is registered already.  *)
BeginLocked(w) ==
  /\ Tries(w)
  /\ mutex = Free
  /\ mutex' = w
  /\ held' = [held EXCEPT ![w] = TRUE]
  /\ IF held[w] THEN UNCHANGED active ELSE Enable(w)
  /\ Wait(w, "post")
  /\ UNCHANGED << disabled, todo, retry, free, pending, budget, useMutex >>

(* The mutex is given back and the iteration ends before the wait.         *)
BeginEnableFails(w) ==
  /\ Tries(w)
  /\ mutex = Free
  /\ ~held[w]
  /\ EnableFails(w)
  /\ UNCHANGED << mutex, pc, mode, held, disabled, todo, retry, free, pending,
                  useMutex >>

BeginForgetsHeld(w) ==
  /\ Tries(w)
  /\ mutex # Free
  /\ IF held[w] THEN DisableShared(w) ELSE UNCHANGED active
  /\ Wait(w, "brief")
  /\ UNCHANGED << mutex, held, disabled, todo, retry, free, pending, budget,
                  useMutex >>

(* Another worker has the mutex: stop listening on the shared sockets.     *)
BeginUnlocked(w) ==
  /\ Tries(w)
  /\ mutex # Free
  /\ held' = [held EXCEPT ![w] = FALSE]
  /\ IF held[w] THEN DisableShared(w) ELSE UNCHANGED active
  /\ Wait(w, "brief")
  /\ UNCHANGED << mutex, disabled, todo, retry, free, pending, budget,
                  useMutex >>

BeginDisableFails(w) ==
  /\ Tries(w)
  /\ mutex # Free
  /\ held[w]
  /\ DisableFails(w, Shared)
  /\ UNCHANGED << mutex, pc, mode, held, disabled, todo, retry, free, pending,
                  useMutex >>

(* ngx_process_events returns with the ready listening sockets, or because *)
(* of a timer or of an event on a connection.  Connections in use have     *)
(* timers; with none, and without a limit, the wait has no end.            *)
WaitEnds(w) ==
  LET ready == { s \in active[w] : pending[s] > 0 }
  IN /\ pc[w] = "wait"
     /\ ready # {} \/ mode[w] = "brief" \/ free[w] < Spare \/ retry[w] # {}
     /\ todo' = [todo EXCEPT ![w] = ready]
     /\ Goto(w, "accept")
     /\ UNCHANGED << mutex, mode, held, disabled, active, retry, free, pending,
                     budget, useMutex >>

-----------------------------------------------------------------------------
(* ngx_event_accept *)

Accepting(w, s) == pc[w] = "accept" /\ s \in todo[w]

Return(w, s) == todo' = [todo EXCEPT ![w] = @ \ {s}]

(* The loop of ngx_event_accept goes on only with multi_accept.            *)
Continue(w, s) == IF MultiAccept THEN UNCHANGED todo ELSE Return(w, s)

(* accept() takes a client out of the queue of the socket.                 *)
Take(s) == /\ pending[s] > 0
           /\ pending' = [pending EXCEPT ![s] = @ - 1]

Shortage(w) == (ConnectionN \div 8) - free[w]

AcceptAgain(w, s) ==   (* NGX_EAGAIN *)
  /\ Accepting(w, s)
  /\ pending[s] = 0
  /\ Return(w, s)
  /\ UNCHANGED << mutex, pc, mode, held, disabled, active, retry, free,
                  pending, budget, useMutex >>

AcceptAborted(w, s) ==   (* NGX_ECONNABORTED: the client has left *)
  /\ Accepting(w, s)
  /\ Take(s)
  /\ Continue(w, s)
  /\ UNCHANGED << mutex, pc, mode, held, disabled, active, retry, free, budget,
                  useMutex >>

AcceptFails(w, s) ==   (* any other error: it is logged *)
  /\ Accepting(w, s)
  /\ Spend("errors")
  /\ Return(w, s)
  /\ UNCHANGED << mutex, pc, mode, held, disabled, active, retry, free,
                  pending, useMutex >>

(* NGX_EMFILE, NGX_ENFILE: stop listening, give the mutex back if it is    *)
(* held, and leave the next try to the loop or to a timer.                 *)
AcceptExhausted(w, s) ==
  /\ Accepting(w, s)
  /\ Spend("errors")
  /\ DisableAll(w)
  /\ Return(w, s)
  /\ IF useMutex
     THEN /\ mutex' = IF held[w] /\ mutex = w THEN Free ELSE mutex
          /\ held' = [held EXCEPT ![w] = FALSE]
          /\ disabled' = [disabled EXCEPT ![w] = 1]
          /\ UNCHANGED retry
     ELSE /\ retry' = [retry EXCEPT ![w] = @ \cup {s}]
          /\ UNCHANGED << mutex, held, disabled >>
  /\ UNCHANGED << pc, mode, free, pending, useMutex >>

(* The same, and an event cannot be deleted: ngx_event_accept returns.     *)
AcceptDisableFails(w, s) ==
  /\ Accepting(w, s)
  /\ DisableFails(w, Sockets)
  /\ Return(w, s)
  /\ UNCHANGED << mutex, pc, mode, held, disabled, retry, free, pending,
                  useMutex >>

(* ngx_get_connection and the handler of the listening socket succeed.     *)
AcceptOne(w, s) ==
  /\ Accepting(w, s)
  /\ Take(s)
  /\ free[w] > 0
  /\ disabled' = [disabled EXCEPT ![w] = Shortage(w)]
  /\ free' = [free EXCEPT ![w] = @ - 1]
  /\ Continue(w, s)
  /\ UNCHANGED << mutex, pc, mode, held, active, retry, budget, useMutex >>

(* ngx_get_connection finds no free connection.  It closes a reusable one, *)
(* whose place the client takes, or the new socket is closed.              *)
AcceptFull(w, s) ==
  /\ Accepting(w, s)
  /\ Take(s)
  /\ free[w] = 0
  /\ disabled' = [disabled EXCEPT ![w] = Shortage(w)]
  /\ Continue(w, s) \/ Return(w, s)
  /\ UNCHANGED << mutex, pc, mode, held, active, retry, free, budget,
                  useMutex >>

(* A later step of the handler fails: ngx_close_accepted_connection.       *)
AcceptAbandoned(w, s) ==
  /\ Accepting(w, s)
  /\ Take(s)
  /\ disabled' = [disabled EXCEPT ![w] = Shortage(w)]
  /\ free' = [free EXCEPT ![w] = IF @ = 0 THEN 1 ELSE @]
  /\ Return(w, s)
  /\ UNCHANGED << mutex, pc, mode, held, active, retry, budget, useMutex >>

-----------------------------------------------------------------------------
(* ngx_process_events_and_timers after the accept events *)

EndAcceptKeepsMutex(w) ==
  /\ pc[w] = "accept"
  /\ todo[w] = {}
  /\ Goto(w, "work")
  /\ UNCHANGED << mutex, local, pending, budget, useMutex >>

(* ngx_shmtx_unlock, which does nothing if another worker is the holder.   *)
EndAccept(w) ==
  /\ pc[w] = "accept"
  /\ todo[w] = {}
  /\ mutex' = IF held[w] /\ mutex = w THEN Free ELSE mutex
  /\ Goto(w, "work")
  /\ UNCHANGED << local, pending, budget, useMutex >>

(* An event or timer of a connection ends it: run by the event module, or  *)
(* later from the posted queue if accept events were queued.               *)
CloseConnection(w) ==
  /\ pc[w] = "work" \/ (pc[w] = "accept" /\ mode[w] # "post")
  /\ free[w] < Spare
  /\ free' = [free EXCEPT ![w] = @ + 1]
  /\ UNCHANGED << mutex, pc, mode, held, disabled, active, todo, retry,
                  pending, budget, useMutex >>

(* The timer of a listening socket calls ngx_event_accept with ev->timedout *)
Retry(w, s) ==
  /\ pc[w] = "work"
  /\ s \in retry[w]
  /\ retry' = [retry EXCEPT ![w] = @ \ {s}]
  /\ Enable(w)
  /\ todo' = [todo EXCEPT ![w] = {s}]
  /\ Goto(w, "accept")
  /\ UNCHANGED << mutex, mode, held, disabled, free, pending, budget,
                  useMutex >>

RetryFails(w, s) ==
  /\ pc[w] = "work"
  /\ s \in retry[w]
  /\ retry' = [retry EXCEPT ![w] = @ \ {s}]
  /\ EnableFails(w)
  /\ UNCHANGED << mutex, pc, mode, held, disabled, todo, free, pending,
                  useMutex >>

(* ngx_event_process_posted is through. *)
EndIteration(w) ==
  /\ pc[w] = "work"
  /\ Goto(w, "loop")
  /\ UNCHANGED << mutex, local, pending, budget, useMutex >>

Crash(w) ==
  /\ pc[w] # "dead"
  /\ Spend("crashes")
  /\ Goto(w, "dead")
  /\ UNCHANGED << mutex, local, pending, useMutex >>

RespawnKeepsMutex(w) ==
  /\ pc[w] = "dead"
  /\ Goto(w, "loop")
  /\ mode' = [mode EXCEPT ![w] = "plain"]
  /\ held' = [held EXCEPT ![w] = FALSE]
  /\ disabled' = [disabled EXCEPT ![w] = 0]
  /\ active' = [active EXCEPT ![w] = FirstActive(w)]
  /\ todo' = [todo EXCEPT ![w] = {}]
  /\ retry' = [retry EXCEPT ![w] = {}]
  /\ free' = [free EXCEPT ![w] = Spare]
  /\ UNCHANGED << mutex, pending, budget, useMutex >>

(* The master frees the mutex of the dead worker and starts a new one.     *)
Respawn(w) ==
  /\ pc[w] = "dead"
  /\ mutex' = IF mutex = w THEN Free ELSE mutex
  /\ Goto(w, "loop")
  /\ mode' = [mode EXCEPT ![w] = "plain"]
  /\ held' = [held EXCEPT ![w] = FALSE]
  /\ disabled' = [disabled EXCEPT ![w] = 0]
  /\ active' = [active EXCEPT ![w] = FirstActive(w)]
  /\ todo' = [todo EXCEPT ![w] = {}]
  /\ retry' = [retry EXCEPT ![w] = {}]
  /\ free' = [free EXCEPT ![w] = Spare]
  /\ UNCHANGED << pending, budget, useMutex >>

Begin(w) ==
  \/ BeginWithoutMutex(w) \/ BeginDisabled(w)
  \/ BeginLocked(w) \/ BeginUnlocked(w)

Accept(w, s) ==
  AcceptAgain(w, s) \/ AcceptOne(w, s) \/ AcceptFull(w, s)

Work(w) == EndIteration(w) \/ \E s \in retry[w] : Retry(w, s)

Next ==
  \/ \E s \in Sockets : Arrive(s)
  \/ \E w \in Workers :
       \/ Begin(w)
       \/ BeginEnableFails(w)
       \/ BeginDisableFails(w)
       \/ WaitEnds(w)
       \/ \E s \in todo[w] :
            \/ Accept(w, s)
            \/ AcceptAborted(w, s)
            \/ AcceptFails(w, s)
            \/ AcceptExhausted(w, s)
            \/ AcceptDisableFails(w, s)
            \/ AcceptAbandoned(w, s)
       \/ EndAccept(w)
       \/ CloseConnection(w)
       \/ Work(w)
       \/ \E s \in retry[w] : RetryFails(w, s)
       \/ Crash(w)
       \/ Respawn(w)

(* Workers run, poll returns when it has something, timers fire before the *)
(* loop goes on for ever, and the master replaces the dead.                *)
Fairness ==
  \A w \in Workers :
    /\ WF_vars(Begin(w))
    /\ WF_vars(WaitEnds(w))
    /\ \A s \in Sockets : WF_vars(Accept(w, s))
    /\ WF_vars(EndAccept(w))
    /\ WF_vars(EndIteration(w))
    /\ \A s \in Sockets : SF_vars(Retry(w, s))
    /\ WF_vars(Respawn(w))

Spec == Init /\ [][Next]_vars

FairSpec == Spec /\ Fairness

-----------------------------------------------------------------------------

TypeOK ==
  /\ useMutex \in BOOLEAN
  /\ mutex \in Workers \cup {Free}
  /\ pc \in [Workers -> Labels]
  /\ mode \in [Workers -> Modes]
  /\ held \in [Workers -> BOOLEAN]
  /\ disabled \in [Workers -> Int]
  /\ active \in [Workers -> SUBSET Sockets]
  /\ todo \in [Workers -> SUBSET Sockets]
  /\ retry \in [Workers -> SUBSET Sockets]
  /\ free \in [Workers -> 0 .. Spare]
  /\ pending \in [Sockets -> Nat]

(* The accept mutex is held only to wait for clients and to accept them:   *)
(* never while a worker runs other handlers, ends its iteration or is back *)
(* at its head.  A slow handler, or any path that forgets to unlock, would *)
(* keep every other worker from accepting.                                 *)
HeldOnlyToAccept ==
  \A w \in Workers :
    mutex = w => \/ pc[w] = "dead"
                 \/ pc[w] \in {"wait", "accept"} /\ mode[w] = "post" /\ held[w]

(* As long as every event could be added and deleted, the flag             *)
(* ngx_accept_mutex_held tells whether the worker is registered.  The      *)
(* shortcut of ngx_trylock_accept_mutex relies on it                       *)
(* (ngx_event_accept.c:654), and "if the lock is not obtained, do not      *)
(* listen" (ngx_event.c:339).                                              *)
FlagTellsListening ==
  budget.ctl = MaxCtlErrors =>
    \A w \in Workers : pc[w] # "dead" =>
      /\ held[w] => active[w] = Listens(w)
      /\ useMutex /\ ~held[w] => active[w] \cap Shared = {}

(* No client waits for ever: the queue of every socket is emptied again,   *)
(* by whichever worker comes to hold the mutex, also after the holder has  *)
(* been killed and the master has freed the mutex for it.  Nothing is      *)
(* promised after an event could not be added or deleted, and with the     *)
(* mutex in use after descriptors ran out (ngx_event_accept.c:127).        *)
ClientsAreServed ==
  \A s \in Sockets :
    (pending[s] > 0) ~> \/ pending[s] = 0
                        \/ budget.ctl < MaxCtlErrors
                        \/ useMutex /\ budget.errors < MaxErrors

(* The same whatever has failed: "it cannot refuse connections for ever"   *)
(* (the comment at ngx_event.c:334).                                       *)
NeverRefusesForEver ==
  \A s \in Sockets : (pending[s] > 0) ~> (pending[s] = 0)
=============================================================================
