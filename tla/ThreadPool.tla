----------------------------- MODULE ThreadPool -----------------------------
(***************************************************************************)
(* A thread pool of one worker process.  The loop of the worker posts      *)
(* tasks under the mutex of the pool and wakes a thread through its        *)
(* condition variable; a thread takes the first task, runs it, appends it  *)
(* to the list of done tasks under a spinlock and notifies the loop        *)
(* through the event method; the loop detaches the whole list under the    *)
(* spinlock and runs the completion handlers, which may post again.        *)
(*                                                                         *)
(* Both lists are the pointers of the code: a head, the address of the     *)
(* last link, and one field next in the task, used by both lists in turn.  *)
(* A last of NULL stands for the address of the head.                      *)
(*                                                                         *)
(* The calls of pthread whose failure the code handles may fail, at most   *)
(* MaxFaults times.  Task numbers (the bound MaxTasks) do not wrap here.   *)
(***************************************************************************)
EXTENDS Integers, Sequences, FiniteSets

CONSTANTS
  Threads, Tasks,
  Exit,        (* the one task of ngx_thread_pool_destroy, on its stack *)
  Worker,      (* the thread of the event loop *)
  NULL,
  MaxQueue,    (* max_queue= of the thread_pool directive *)
  MaxTasks,    (* bound on the tasks that are numbered *)
  MaxFaults    (* bound on the calls that fail *)

All == Tasks \cup {Exit}

ASSUME ThreadPoolAssumption ==
  /\ IsFiniteSet(Threads) /\ Threads # {} /\ IsFiniteSet(Tasks)
  /\ Exit \notin Tasks /\ NULL \notin All \cup Threads \cup {Worker}
  /\ Worker \notin Threads
  /\ MaxQueue \in Nat /\ MaxTasks \in Nat /\ MaxFaults \in Nat

VARIABLES
  next,        (* task->next *)
  queue,       (* tp->queue *)
  done,        (* ngx_thread_pool_done *)
  active,      (* the tasks with task->event.active *)
  waiting,     (* tp->waiting *)
  taskId,      (* ngx_thread_pool_task_id *)
  mtx,         (* who holds tp->mtx *)
  doneLock,    (* who holds ngx_thread_pool_done_lock *)
  notified,    (* a notification the event method has yet to report *)
  pc, cur,     (* of each thread: where it is, and its task *)
  wpc,         (* where the worker is *)
  arg,         (* the task that the worker is posting *)
  back,        (* where the worker is to go on after posting *)
  taken,       (* task in ngx_thread_pool_handler: those still to complete *)
  exits,       (* the threads ngx_thread_pool_destroy has ended *)
  exitLock,    (* its flag lock *)
  faults       (* the calls that have failed *)

lists == << next, queue, done >>
locks == << mtx, doneLock >>
worker == << wpc, arg, back, taken, exits >>
vars == << lists, active, waiting, taskId, locks, notified, pc, cur, worker,
           exitLock, faults >>

EmptyList == [first |-> NULL, last |-> NULL]

Init ==
  /\ next = [t \in All |-> NULL]
  /\ queue = EmptyList /\ done = EmptyList
  /\ active = {} /\ waiting = 0 /\ taskId = 0
  /\ mtx = NULL /\ doneLock = NULL /\ notified = FALSE
  /\ pc = [p \in Threads |-> "lock"] /\ cur = [p \in Threads |-> NULL]
  /\ wpc = "loop" /\ arg = NULL /\ back = "loop" /\ taken = NULL
  /\ exits = 0 /\ exitLock = FALSE /\ faults = 0

MayFail == faults < MaxFaults
Fail == MayFail /\ faults' = faults + 1

(* The field next and the head after "*last = t". *)
LinkNext(list, t) ==
  IF list.last = NULL THEN next ELSE [next EXCEPT ![list.last] = t]
LinkFirst(list, t) == IF list.last = NULL THEN t ELSE list.first

Go(p, l) == pc' = [pc EXCEPT ![p] = l]

-----------------------------------------------------------------------------
(* ngx_thread_task_post, called by the worker only. *)

(* The call, from the loop, from a completion handler or from              *)
(* ngx_thread_pool_destroy: an active task is refused at once, and so is   *)
(* any when the mutex cannot be locked.                                    *)
Post(t, from) ==
  /\ wpc = from
  /\ IF t \in active
       THEN UNCHANGED << wpc, arg, back, mtx, faults >>
       ELSE \/ /\ mtx = NULL /\ mtx' = Worker
               /\ wpc' = "limit" /\ arg' = t /\ back' = from
               /\ UNCHANGED faults
            \/ Fail /\ UNCHANGED << wpc, arg, back, mtx >>

(* A user of the pool posts a task, from a handler run by the loop or      *)
(* from a completion handler.                                              *)
UserPosts ==
  /\ taskId < MaxTasks
  /\ \E t \in Tasks, from \in {"loop", "callback"} : Post(t, from)
  /\ UNCHANGED << lists, active, waiting, taskId, doneLock, notified, pc,
                  cur, taken, exits, exitLock >>

(* The queue overflows: the call fails, and ngx_thread_pool_destroy is     *)
(* left.                                                                   *)
PostRefused ==
  /\ wpc = "limit" /\ waiting >= MaxQueue
  /\ mtx' = NULL
  /\ wpc' = IF back = "destroy" THEN "abandoned" ELSE back
  /\ arg' = NULL
  /\ UNCHANGED << lists, active, waiting, taskId, doneLock, notified, pc,
                  cur, back, taken, exits, exitLock, faults >>

(* Fault of PostSignal: a thread is signalled only if the queue was empty. *)
PostSignalIfEmpty ==
  /\ wpc = "limit" /\ waiting < MaxQueue
  /\ active' = active \cup {arg} /\ taskId' = taskId + 1
  /\ next' = [next EXCEPT ![arg] = NULL]
  /\ wpc' = "append"
  /\ IF queue.first # NULL \/ \A p \in Threads : pc[p] # "asleep"
       THEN UNCHANGED pc
       ELSE \E p \in Threads : pc[p] = "asleep" /\ Go(p, "woken")
  /\ UNCHANGED << queue, done, waiting, locks, notified, cur, arg, back,
                  taken, exits, exitLock, faults >>

(* The task is marked and numbered, and a sleeping thread is signalled     *)
(* before the task is in the queue.                                        *)
PostSignal ==
  /\ wpc = "limit" /\ waiting < MaxQueue
  /\ active' = active \cup {arg}
  /\ taskId' = taskId + 1
  /\ next' = [next EXCEPT ![arg] = NULL]
  /\ \/ /\ \E p \in Threads : pc[p] = "asleep" /\ Go(p, "woken")
        /\ wpc' = "append" /\ UNCHANGED << mtx, arg, faults >>
     \/ /\ \A p \in Threads : pc[p] # "asleep"
        /\ wpc' = "append" /\ UNCHANGED << pc, mtx, arg, faults >>
     \/ /\ Fail /\ mtx' = NULL /\ arg' = NULL /\ UNCHANGED pc
        /\ wpc' = IF back = "destroy" THEN "abandoned" ELSE back
  /\ UNCHANGED << queue, done, waiting, doneLock, notified, cur, back,
                  taken, exits, exitLock >>

PostAppend ==
  /\ wpc = "append"
  /\ next' = LinkNext(queue, arg)
  /\ queue' = [first |-> LinkFirst(queue, arg), last |-> arg]
  /\ waiting' = waiting + 1
  /\ mtx' = NULL
  /\ wpc' = IF back = "destroy" THEN "await" ELSE back
  /\ arg' = NULL
  /\ UNCHANGED << done, active, taskId, doneLock, notified, pc, cur, back,
                  taken, exits, exitLock, faults >>

-----------------------------------------------------------------------------
(* ngx_thread_pool_cycle. *)

Lock(p) ==
  /\ pc[p] = "lock" /\ mtx = NULL
  /\ mtx' = p /\ waiting' = waiting - 1
  /\ Go(p, "check")
  /\ UNCHANGED << lists, active, taskId, doneLock, notified, cur, worker,
                  exitLock, faults >>

LockFails(p) ==
  /\ pc[p] = "lock" /\ Fail /\ Go(p, "gone")
  /\ UNCHANGED << lists, active, waiting, taskId, locks, notified, cur,
                  worker, exitLock >>

(* ngx_thread_cond_wait: the mutex is given up, and taken again.           *)
Sleep(p) ==
  /\ pc[p] = "check" /\ queue.first = NULL
  /\ mtx' = NULL
  /\ \/ Go(p, "asleep") /\ UNCHANGED faults
     \/ Fail /\ Go(p, "lost")
  /\ UNCHANGED << lists, active, waiting, taskId, doneLock, notified, cur,
                  worker, exitLock >>

(* A condition variable may also wake a thread for no reason. *)
SpuriousWakeup(p) ==
  /\ pc[p] = "asleep" /\ Go(p, "woken")
  /\ UNCHANGED << lists, active, waiting, taskId, locks, notified, cur,
                  worker, exitLock, faults >>

Relock(p) ==
  /\ pc[p] = "woken" /\ mtx = NULL
  /\ mtx' = p /\ Go(p, "check")
  /\ UNCHANGED << lists, active, waiting, taskId, doneLock, notified, cur,
                  worker, exitLock, faults >>

(* Fault of TakeTask: the task stays in the queue. *)
TakeTaskLeaves(p) ==
  /\ pc[p] = "check" /\ queue.first # NULL
  /\ cur' = [cur EXCEPT ![p] = queue.first]
  /\ mtx' = NULL
  /\ Go(p, "run")
  /\ UNCHANGED << lists, active, waiting, taskId, doneLock, notified,
                  worker, exitLock, faults >>

TakeTask(p) ==
  /\ pc[p] = "check" /\ queue.first # NULL
  /\ LET t == queue.first IN
       /\ cur' = [cur EXCEPT ![p] = t]
       /\ queue' = [first |-> next[t],
                    last |-> IF next[t] = NULL THEN NULL ELSE queue.last]
  /\ mtx' = NULL
  /\ Go(p, "run")
  /\ UNCHANGED << next, done, active, waiting, taskId, doneLock, notified,
                  worker, exitLock, faults >>

RunTask(p) ==
  /\ pc[p] = "run" /\ cur[p] \in Tasks
  /\ next' = [next EXCEPT ![cur[p]] = NULL]
  /\ Go(p, "finish")
  /\ UNCHANGED << queue, done, active, waiting, taskId, locks, notified, cur,
                  worker, exitLock, faults >>

(* ngx_thread_pool_exit_handler: it does not return. *)
RunExit(p) ==
  /\ pc[p] = "run" /\ cur[p] = Exit
  /\ exitLock' = FALSE
  /\ Go(p, "gone") /\ cur' = [cur EXCEPT ![p] = NULL]
  /\ UNCHANGED << lists, active, waiting, taskId, locks, notified, worker,
                  faults >>

SpinLock(p) ==
  /\ pc[p] = "finish" /\ doneLock = NULL
  /\ doneLock' = p /\ Go(p, "link")
  /\ UNCHANGED << lists, active, waiting, taskId, mtx, notified, cur,
                  worker, exitLock, faults >>

LinkDone(p) ==
  /\ pc[p] = "link"
  /\ next' = LinkNext(done, cur[p])
  /\ done' = [done EXCEPT !.first = LinkFirst(done, cur[p])]
  /\ Go(p, "last")
  /\ UNCHANGED << queue, active, waiting, taskId, locks, notified, cur,
                  worker, exitLock, faults >>

MoveLast(p) ==
  /\ pc[p] = "last"
  /\ done' = [done EXCEPT !.last = cur[p]]
  /\ doneLock' = NULL
  /\ Go(p, "notify") /\ cur' = [cur EXCEPT ![p] = NULL]
  /\ UNCHANGED << next, queue, active, waiting, taskId, mtx, notified, worker,
                  exitLock, faults >>

(* Fault of Notify: the loop is notified of a list that was empty only     *)
(* by the thread that finds it so after having left the lock.              *)
NotifyIfFirst(p) ==
  /\ pc[p] = "notify"
  /\ notified' = (notified \/ done.first = done.last)
  /\ Go(p, "lock")
  /\ UNCHANGED << lists, active, waiting, taskId, locks, cur, worker,
                  exitLock, faults >>

(* ngx_notify: the write to the eventfd, registered with EPOLLET, makes    *)
(* epoll_wait() report it once more.                                       *)
Notify(p) ==
  /\ pc[p] = "notify"
  /\ notified' = TRUE
  /\ Go(p, "lock")
  /\ UNCHANGED << lists, active, waiting, taskId, locks, cur, worker,
                  exitLock, faults >>

-----------------------------------------------------------------------------
(* ngx_thread_pool_handler, in the event loop. *)

Notified ==
  /\ wpc = "loop" /\ notified
  /\ notified' = FALSE /\ wpc' = "spin"
  /\ UNCHANGED << lists, active, waiting, taskId, locks, pc, cur, arg, back,
                  taken, exits, exitLock, faults >>

WorkerSpinLock ==
  /\ wpc = "spin" /\ doneLock = NULL
  /\ doneLock' = Worker /\ wpc' = "detach"
  /\ UNCHANGED << lists, active, waiting, taskId, mtx, notified, pc, cur, arg,
                  back, taken, exits, exitLock, faults >>

Detach ==
  /\ wpc = "detach"
  /\ taken' = done.first /\ wpc' = "reset"
  /\ UNCHANGED << lists, active, waiting, taskId, locks, notified, pc, cur,
                  arg, back, exits, exitLock, faults >>

ResetDone ==
  /\ wpc = "reset"
  /\ done' = EmptyList
  /\ doneLock' = NULL /\ wpc' = "complete"
  /\ UNCHANGED << next, queue, active, waiting, taskId, mtx, notified, pc,
                  cur, arg, back, taken, exits, exitLock, faults >>

(* One turn of the loop over the detached tasks.  The link is read before  *)
(* the completion handler, which may post the same task again.             *)
Complete ==
  /\ wpc = "complete"
  /\ IF taken = NULL
       THEN wpc' = "loop" /\ UNCHANGED << active, taken >>
       ELSE /\ taken' = next[taken]
            /\ active' = active \ {taken}
            /\ wpc' = "callback"
  /\ UNCHANGED << lists, waiting, taskId, locks, notified, pc, cur, arg, back,
                  exits, exitLock, faults >>

CallbackReturns ==
  /\ wpc = "callback" /\ wpc' = "complete"
  /\ UNCHANGED << lists, active, waiting, taskId, locks, notified, pc, cur,
                  arg, back, taken, exits, exitLock, faults >>

-----------------------------------------------------------------------------
(* ngx_thread_pool_destroy: one exit task for each thread. *)

ExitWorker ==
  /\ wpc = "loop"
  /\ wpc' = "destroy"
  /\ UNCHANGED << lists, active, waiting, taskId, locks, notified, pc, cur,
                  arg, back, taken, exits, exitLock, faults >>

DestroyPosts ==
  /\ wpc = "destroy" /\ exits < Cardinality(Threads)
  /\ exitLock' = TRUE
  /\ \/ /\ mtx = NULL /\ mtx' = Worker
        /\ wpc' = "limit" /\ arg' = Exit /\ back' = "destroy"
        /\ UNCHANGED faults
     \/ Fail /\ wpc' = "abandoned" /\ UNCHANGED << mtx, arg, back >>
  /\ UNCHANGED << lists, active, waiting, taskId, doneLock, notified, pc, cur,
                  taken, exits >>

ThreadEnded ==
  /\ wpc = "await" /\ ~exitLock
  /\ active' = active \ {Exit}
  /\ exits' = exits + 1 /\ wpc' = "destroy"
  /\ UNCHANGED << lists, waiting, taskId, locks, notified, pc, cur, arg, back,
                  taken, exitLock, faults >>

Destroyed ==
  /\ wpc = "destroy" /\ exits = Cardinality(Threads)
  /\ wpc' = "destroyed"
  /\ UNCHANGED << lists, active, waiting, taskId, locks, notified, pc, cur,
                  arg, back, taken, exits, exitLock, faults >>

-----------------------------------------------------------------------------
ThreadStep(p) ==
  \/ Lock(p) \/ LockFails(p) \/ Sleep(p) \/ SpuriousWakeup(p) \/ Relock(p)
  \/ TakeTask(p) \/ RunTask(p) \/ RunExit(p)
  \/ SpinLock(p) \/ LinkDone(p) \/ MoveLast(p) \/ Notify(p)

Posting == UserPosts \/ PostRefused \/ PostSignal \/ PostAppend
Completing ==
  Notified \/ WorkerSpinLock \/ Detach \/ ResetDone \/ Complete
    \/ CallbackReturns
Ending == ExitWorker \/ DestroyPosts \/ ThreadEnded \/ Destroyed

Next == Posting \/ Completing \/ Ending \/ \E p \in Threads : ThreadStep(p)

Spec == Init /\ [][Next]_vars

(* Threads and the loop are scheduled, and one that waits for a lock or,   *)
(* the loop, for its next turn is not passed over for ever.  Nobody is     *)
(* bound to post a task, to end the worker, or to wake for no reason.      *)
FairSpec ==
  /\ Spec
  /\ \A p \in Threads :
       SF_vars(\/ Lock(p) \/ Sleep(p) \/ Relock(p) \/ TakeTask(p)
               \/ RunTask(p) \/ RunExit(p) \/ SpinLock(p) \/ LinkDone(p)
               \/ MoveLast(p) \/ Notify(p))
  /\ SF_vars(PostRefused \/ PostSignal \/ PostAppend \/ Completing)
  /\ SF_vars(DestroyPosts \/ ThreadEnded \/ Destroyed)

-----------------------------------------------------------------------------
(* Types. *)
TypeOK ==
  /\ next \in [All -> All \cup {NULL}]
  /\ {queue, done} \subseteq [first : All \cup {NULL}, last : All \cup {NULL}]
  /\ active \subseteq All
  /\ waiting \in (- Cardinality(Threads)) .. MaxQueue /\ taskId \in Nat /\ exits \in 0 .. Cardinality(Threads)
  /\ mtx \in Threads \cup {Worker, NULL}
  /\ doneLock \in Threads \cup {Worker, NULL}
  /\ notified \in BOOLEAN /\ exitLock \in BOOLEAN
  /\ pc \in [Threads -> {"lock", "check", "asleep", "woken", "run", "finish",
                         "link", "last", "notify", "gone", "lost"}]
  /\ cur \in [Threads -> All \cup {NULL}]
  /\ wpc \in {"loop", "limit", "append", "spin", "detach", "reset", "complete",
              "callback", "destroy", "await", "destroyed", "abandoned"}
  /\ arg \in All \cup {NULL} /\ taken \in All \cup {NULL}
  /\ back \in {"loop", "callback", "destroy"}
  /\ faults \in 0 .. MaxFaults

(* The ways to put some of the tasks in a row. *)
Orders ==
  {s \in UNION {[1 .. k -> All] : k \in 0 .. Cardinality(All)} :
     \A i, j \in DOMAIN s : s[i] = s[j] => i = j}

(* The row of tasks that the links lead through from a head. *)
IsRow(s, first) ==
  /\ first = IF s = << >> THEN NULL ELSE s[1]
  /\ \A i \in DOMAIN s : next[s[i]] = IF i = Len(s) THEN NULL ELSE s[i + 1]

EndsAt(s, last) == last = IF s = << >> THEN NULL ELSE s[Len(s)]

Row(first) == CHOOSE s \in Orders : IsRow(s, first)

Within(s) == {s[i] : i \in DOMAIN s}

(* The tasks in the hands of a thread that has not linked them yet. *)
Held == {cur[p] : p \in {p \in Threads : pc[p] \in {"run", "finish", "link"}}}

(* The threads that have counted themselves out of waiting. *)
Idle == {p \in Threads : pc[p] \in {"check", "asleep", "woken", "lost"}}

(* The lists are lists, and none of their tasks is in two of them or in    *)
(* the hands of a thread: the queue and the done list use the same field   *)
(* of the task for their links (ngx_thread_pool.c:371, 486, 492).  A list  *)
(* whose lock is free ends at its last.                                    *)
ListsAreSound ==
  \E q, d, k \in Orders :
    /\ IsRow(q, queue.first) /\ EndsAt(q, queue.last)
    /\ IsRow(d, done.first) /\ (doneLock = NULL => EndsAt(d, done.last))
    /\ IsRow(k, taken)
    /\ Within(q) \cap (Within(d) \cup Within(k) \cup Held) = {}
    /\ (Within(d) \cup Within(k)) \cap Held = {}
    /\ IF wpc = "reset" THEN k = d ELSE Within(d) \cap Within(k) = {}
    /\ \A p, r \in Threads : cur[p] = cur[r] /\ cur[p] # NULL => p = r

(* A task stays active exactly as long as it is somewhere between its post *)
(* and its completion: none is dropped and none handed back early, except  *)
(* for one marked active by each post whose signal failed                  *)
(* (ngx_thread_pool.c:375).                                                *)
NothingIsLost ==
  \E q, d, k \in Orders :
    /\ IsRow(q, queue.first) /\ IsRow(d, done.first) /\ IsRow(k, taken)
    /\ LET here == Within(q) \cup Within(d) \cup Within(k) \cup Held
                     \cup IF wpc = "append" THEN {arg} ELSE {}
       IN /\ here \cap Tasks \subseteq active
          /\ Cardinality((active \cap Tasks) \ here) <= faults

(* The counter compared with max_queue is the length of the queue less the *)
(* threads that are free to take a task: it is changed by the worker and   *)
(* by every thread (ngx_thread_pool.c:355, 385, 444).                      *)
WaitingIsTrue ==
  \E q \in Orders :
    IsRow(q, queue.first) /\ waiting = Len(q) - Cardinality(Idle)

(* As long as a thread sleeps, a thread has been woken for every task in   *)
(* the queue, although the signal is sent before the task is there         *)
(* (ngx_thread_pool.c:375, 447).                                           *)
NoTaskWaitsForASleeper ==
  mtx = NULL /\ (\E p \in Threads : pc[p] = "asleep")
    => \E q \in Orders :
         /\ IsRow(q, queue.first)
         /\ Len(q) <= Cardinality({p \in Threads : pc[p] = "woken"})

(* No task is stuck: none is lost, and none waits beside a sleeping thread *)
(* that nobody has woken.                                                  *)
TasksAreServed == NothingIsLost /\ NoTaskWaitsForASleeper

(* When the mutex and the condition variable are destroyed no thread is    *)
(* left that could use them, and every task that was accepted has been     *)
(* run (ngx_thread_pool.c:272-295).                                        *)
DestroyedWhenUnused ==
  wpc = "destroyed" =>
    /\ \A p \in Threads : pc[p] = "gone"
    /\ queue.first = NULL /\ mtx = NULL

(* The lists and the count of waiting tasks are true at every step of any  *)
(* thread, no task is stuck, and nothing is destroyed that is in use.      *)
ThreadPoolIsSound ==
  /\ TypeOK /\ ListsAreSound /\ WaitingIsTrue
  /\ TasksAreServed /\ DestroyedWhenUnused

(* Locks, wake-ups and links implement the executor: first in, first run,  *)
(* run once, completed in the order of finishing.  The exit task, which is *)
(* none of the executor's, is the last of the queue when it is there.      *)
Tasked(s) == IF s # << >> /\ s[Len(s)] = Exit THEN SubSeq(s, 1, Len(s) - 1) ELSE s
Pool ==
  INSTANCE Executor WITH
    pending <- Tasked(Row(queue.first)),
    running <- Held \cap Tasks,
    finished <- IF wpc = "reset" THEN Row(taken)
                ELSE Row(taken) \o Row(done.first)
ImplementsExecutor == Pool!Spec

Exiting == wpc \in {"destroy", "await", "destroyed", "abandoned"}
             \/ (wpc \in {"limit", "append"} /\ back = "destroy")

(* Every task is completed in the event loop, unless the worker exits or a *)
(* call of pthread has failed; and the exit of the worker is not held up   *)
(* by its pool, unless a thread has ended after a failed call              *)
(* (ngx_thread_pool.c:280).                                                *)
TasksAndExitEnd ==
  /\ \A t \in Tasks : t \in active ~> t \notin active \/ Exiting \/ faults > 0
  /\ Exiting ~> wpc \in {"destroyed", "abandoned"} \/ faults > 0
=============================================================================
