------------------------------ MODULE MCWorker ------------------------------
(* What a worker turns around: its timers, the event method with two       *)
(* clients beside the listening socket, the cached time with a thread and  *)
(* a signal, or the reading of a configuration, of up to three characters  *)
(* of all kinds, or five of the main ones; they share no state.             *)
EXTENDS Timers, EventMethods, CachedTime, ConfFile
CONSTANTS e1, e2, e3, ls, c1, c2
VARIABLES part

Three == {e1, e2, e3}
FromOne == 1 .. MaxTimeout
MCClients == {c1, c2}

AllKinds == {"n", " ", "LF", ";", "{", "}", "#", "\\", "q", "$"}
MainKinds == {"n", " ", ";", "\\", "q"}
Long == {
  << "n", "n", "{", "n", " ", "s", "\\", "n", "s", ";", "}", "LF" >>,
  << "n", "n", " ", "{", "#", "n", "}", "LF", "n", " ", "q", ";", "\\", "q", "q", ";", " ", "}" >>,
  << "n", " ", "$", "{", "n", "}", " ", "n", ";", "n", "n", "{", "}" >>,
  << "n", " ", "s", "n", "s", ")", "n", ";", "n", "n", "{", "}", "}" >> }
MCFiles == UNION {[1 .. k -> AllKinds] : k \in 0 .. 3} \cup UNION {[1 .. k -> MainKinds] : k \in 4 .. 5} \cup Long
MCCommands == {[name |-> << "n" >>, block |-> FALSE, counts |-> 1 .. 3],
               [name |-> << "n", "n" >>, block |-> TRUE, counts |-> {1}]}

workerVars == << part, vars, waiter, times, conf >>
AFile == Reader(<< >>, 1)

(* One of the parts moves, the others stay as they began. *)
WorkerInit ==
  /\ part \in {"timers", "methods", "time", "configuration"}
  /\ Init
  /\ WaiterInit /\ (part # "methods" => waiter.method = CHOOSE m \in Methods : TRUE)
  /\ TimesInit
  /\ IF part = "configuration" THEN ConfInit ELSE conf = [small |-> AFile, whole |-> AFile]
WorkerNext ==
  \/ part = "timers" /\ Next /\ UNCHANGED << part, waiter, times, conf >>
  \/ part = "methods" /\ MethodNext /\ UNCHANGED << part, vars, times, conf >>
  \/ part = "time" /\ TimesNext /\ UNCHANGED << part, vars, waiter, conf >>
  \/ part = "configuration" /\ ConfNext /\ UNCHANGED << part, vars, waiter, times >>
WorkerSpec ==
  WorkerInit /\ [][WorkerNext]_workerVars /\ WF_vars(HandlerReturns) /\ WF_vars(Expire \/ NoneLeft)
=============================================================================
