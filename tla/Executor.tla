------------------------------ MODULE Executor ------------------------------
(***************************************************************************)
(* What a thread pool promises to the event loop, without locks, threads,  *)
(* wake-ups or linked lists: a task that was posted waits in the order of  *)
(* posting, is run once, by one thread, and is then handed back to the     *)
(* loop in the order in which the tasks finished.                          *)
(***************************************************************************)
EXTENDS Naturals, Sequences

CONSTANT Tasks

VARIABLES
  pending,    (* tasks posted and not yet taken by a thread, oldest first *)
  running,    (* tasks in the hands of a thread *)
  finished    (* tasks whose completion the loop has yet to see *)

vars == << pending, running, finished >>

Busy == {pending[i] : i \in DOMAIN pending} \cup running
          \cup {finished[i] : i \in DOMAIN finished}

Init == pending = << >> /\ running = {} /\ finished = << >>

Post(t) ==
  /\ t \notin Busy
  /\ pending' = Append(pending, t)
  /\ UNCHANGED << running, finished >>

Start ==
  /\ pending # << >>
  /\ pending' = Tail(pending)
  /\ running' = running \cup {Head(pending)}
  /\ UNCHANGED finished

Finish(t) ==
  /\ t \in running
  /\ running' = running \ {t}
  /\ finished' = Append(finished, t)
  /\ UNCHANGED pending

Complete ==
  /\ finished # << >>
  /\ finished' = Tail(finished)
  /\ UNCHANGED << pending, running >>

Next == Start \/ Complete \/ \E t \in Tasks : Post(t) \/ Finish(t)

Spec == Init /\ [][Next]_vars
=============================================================================
