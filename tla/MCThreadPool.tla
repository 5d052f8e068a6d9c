---------------------------- MODULE MCThreadPool ----------------------------
(* Threads and tasks for TLC. *)
EXTENDS ThreadPool

CONSTANTS p1, p2, t1, t2

TwoThreads == {p1, p2}
TwoTasks == {t1, t2}
=============================================================================
