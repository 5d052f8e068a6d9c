---------------------------- MODULE Connections ----------------------------
(***************************************************************************)
(* The connections of one worker: the pool of ngx_get_connection and       *)
(* ngx_close_connection, the events that the epoll module delivers to      *)
(* them, inline or through the posted queues, and the timers.              *)
(*                                                                         *)
(* One call of epoll_wait() returns several events.  The handler of one of *)
(* them may close any connection and take it again for another socket      *)
(* while the event of its former use is still to come, in the batch, in a  *)
(* posted queue or in the tree of timers.  A connection has a bit, its     *)
(* instance, that is flipped with each use and is stored beside its        *)
(* address in the epoll registration.  The variable use counts the uses    *)
(* without limit; the code has no such count.                              *)
(*                                                                         *)
(* The handlers are the protocol modules: they may do, in any order and    *)
(* any number of times, what the actions under "Handlers" say.  The flags  *)
(* ready and available, which the handlers read, are left out.             *)
(***************************************************************************)
EXTENDS Integers, Sequences, FiniteSets, SequencesExt

CONSTANTS
  Slots,       (* the connections of the pool *)
  Listener,    (* the connection of the listening socket *)
  None,
  MaxUse,      (* bound on the number of uses of a connection: the listener has one *)
  MaxReuse,    (* bound on the uses while an event of an old use is due *)
  Posting      (* bound: the events that handlers post and set timers for *)

Events == Slots \X {"read", "write"}

ASSUME ConnectionsAssumption ==
  /\ IsFiniteSet(Slots)
  /\ Listener \in Slots
  /\ None \notin Events
  /\ MaxUse \in Nat \ {0} /\ MaxReuse \in Nat
  /\ Posting \subseteq Events

VARIABLES
  freeList,     (* ngx_cycle->free_connections, the head first *)
  open,         (* connections with c->fd # -1 *)
  use,          (* history: how often each connection was taken *)
  instance,     (* rev->instance and wev->instance *)
  active,       (* events with ev->active: registered with epoll *)
  postedFlag,   (* events with ev->posted *)
  timerSet,     (* events with ev->timer_set *)
  acceptQueue,  (* ngx_posted_accept_events *)
  postQueue,    (* ngx_posted_events *)
  timers,       (* the events in ngx_event_timer_rbtree *)
  reusable,     (* ngx_cycle->reusable_connections_queue, the head first *)
  stage,        (* where ngx_process_events_and_timers is *)
  post,         (* NGX_POST_EVENTS in the flags of this iteration *)
  batch,        (* event_list: what epoll_wait returned, less what is done *)
  writeDue,     (* the event of event_list whose write part is still due *)
  serving           (* the event whose handler runs, with the use it is for *)

pool == << freeList, open, use, instance, reusable >>
queues == << postedFlag, acceptQueue, postQueue >>
loop == << stage, post, batch, writeDue >>
connVars == << pool, active, queues, timerSet, timers, loop, serving >>

Of(c) == {c} \X {"read", "write"}

NoBatch == [c \in {} |-> None]

Run(ev, u) == serving' = [event |-> ev, use |-> u]

Without(f, c) == [d \in DOMAIN f \ {c} |-> f[d]]

ConnInit ==
  /\ \E s \in SetToSeqs(Slots \ {Listener}) : freeList = s
  /\ open = {Listener}
  /\ use = [c \in Slots |-> IF c = Listener THEN 1 ELSE 0]
  /\ instance = [c \in Slots |-> IF c = Listener THEN 1 ELSE 0]
  /\ active = {<< Listener, "read" >>}
  /\ postedFlag = {} /\ timerSet = {} /\ timers = {}
  /\ acceptQueue = << >> /\ postQueue = << >> /\ reusable = << >>
  /\ stage = "wait" /\ post = FALSE
  /\ batch = NoBatch /\ writeDue = None /\ serving = None

-----------------------------------------------------------------------------
(* ngx_epoll_process_events *)

(* What the kernel may report: some of the events asked for, or an error   *)
(* or hangup, which the code takes for both.                               *)
Reports(c) ==
  LET asked == { k \in {"read", "write"} : << c, k >> \in active }
  IN IF asked = {} THEN {} ELSE (SUBSET asked \ {{}}) \cup {{"read", "write"}}

(* epoll_wait() returns; the events are handled in any order. *)
EpollWait ==
  /\ stage = "wait"
  /\ \E some \in SUBSET { c \in open : Reports(c) # {} } :
     \E revents \in [some -> SUBSET {"read", "write"}] :
       /\ \A c \in some : revents[c] \in Reports(c)
       /\ batch' = [c \in some |-> [revents |-> revents[c],
                                    instance |-> instance[c], use |-> use[c]]]
  /\ post' \in BOOLEAN
  /\ stage' = "events"
  /\ UNCHANGED << pool, active, queues, timerSet, timers, writeDue, serving >>

(* The test for a stale event. *)
Fresh(c, e) == c \in open /\ instance[c] = e.instance

(* ngx_post_event, to a queue *)
PostTo(ev, queue) ==
  IF ev \in postedFlag THEN queue ELSE Append(queue, ev)

Idle(st) == stage = st /\ serving = None

(* The read part of an event. *)
EventRead(c) ==
  LET e == batch[c]
      ev == << c, "read" >>
  IN /\ Idle("events") /\ writeDue = None
     /\ batch' = Without(batch, c)
     /\ Fresh(c, e)
     /\ writeDue' = << c, e >>
     /\ IF ~("read" \in e.revents /\ ev \in active)
        THEN UNCHANGED << queues, serving >>
        ELSE IF post
        THEN /\ postedFlag' = postedFlag \cup {ev}
             /\ IF c = Listener
                THEN /\ acceptQueue' = PostTo(ev, acceptQueue)
                     /\ UNCHANGED postQueue
                ELSE /\ postQueue' = PostTo(ev, postQueue)
                     /\ UNCHANGED acceptQueue
             /\ UNCHANGED serving
        ELSE /\ Run(ev, e.use)
             /\ UNCHANGED queues
     /\ UNCHANGED << pool, active, timerSet, timers, stage, post >>

EventStale(c) ==
  /\ Idle("events") /\ writeDue = None
  /\ ~Fresh(c, batch[c])
  /\ batch' = Without(batch, c)
  /\ UNCHANGED << pool, active, queues, timerSet, timers, stage, post, writeDue, serving >>

(* The write part, after the read handler: checked for staleness again.    *)
EventWrite ==
  LET c == writeDue[1]
      e == writeDue[2]
      ev == << c, "write" >>
  IN /\ Idle("events") /\ writeDue # None
     /\ writeDue' = None
     /\ IF "write" \in e.revents /\ ev \in active /\ Fresh(c, e)
        THEN IF post
             THEN /\ postedFlag' = postedFlag \cup {ev}
                  /\ postQueue' = PostTo(ev, postQueue)
                  /\ UNCHANGED << acceptQueue, serving >>
             ELSE /\ Run(ev, e.use)
                  /\ UNCHANGED queues
        ELSE UNCHANGED << queues, serving >>
     /\ UNCHANGED << pool, active, timerSet, timers, stage, post, batch >>

(* The loop over the events ends, then the posted accept events, then the  *)
(* timers, then the other posted events.                                   *)
NextStage ==
  /\ serving = None
  /\ \/ stage = "events" /\ batch = NoBatch /\ writeDue = None /\ stage' = "accept"
     \/ stage = "accept" /\ acceptQueue = << >> /\ stage' = "timers"
     \/ stage = "timers" /\ stage' = "posted"
     \/ stage = "posted" /\ postQueue = << >> /\ stage' = "wait"
  /\ UNCHANGED << pool, active, queues, timerSet, timers, post, batch, writeDue, serving >>

(* ngx_event_process_posted: the head of the queue is removed and run.     *)
PostedAccept ==
  /\ Idle("accept") /\ acceptQueue # << >>
  /\ LET ev == Head(acceptQueue)
     IN /\ postedFlag' = postedFlag \ {ev}
        /\ Run(ev, use[ev[1]])
  /\ acceptQueue' = Tail(acceptQueue)
  /\ UNCHANGED << pool, active, postQueue, timerSet, timers, loop >>

PostedEvent ==
  /\ Idle("posted") /\ postQueue # << >>
  /\ LET ev == Head(postQueue)
     IN /\ postedFlag' = postedFlag \ {ev}
        /\ Run(ev, use[ev[1]])
  /\ postQueue' = Tail(postQueue)
  /\ UNCHANGED << pool, active, acceptQueue, timerSet, timers, loop >>

(* ngx_event_expire_timers: a timer that is due is removed and its handler *)
(* runs with ev->timedout.                                                 *)
Expire(ev) ==
  /\ Idle("timers")
  /\ ev \in timers
  /\ timers' = timers \ {ev}
  /\ timerSet' = timerSet \ {ev}
  /\ Run(ev, use[ev[1]])
  /\ UNCHANGED << pool, active, queues, loop >>

-----------------------------------------------------------------------------
(* Handlers *)

Running == serving # None

(* ngx_queue_remove of an element that may be linked. *)
Removed(queue, x) ==
  IF \E i \in DOMAIN queue : queue[i] = x
    THEN RemoveAt(queue, CHOOSE i \in DOMAIN queue : queue[i] = x)
    ELSE queue

Unposted(queue, c) == Removed(Removed(queue, << c, "read" >>), << c, "write" >>)

(* Fault of Clear: posted events are kept. *)
ClearKeepsPosted(c) ==
  /\ active' = active \ Of(c)
  /\ UNCHANGED queues
  /\ timerSet' = timerSet \ Of(c)
  /\ timers' = timers \ Of(c)
  /\ reusable' = Removed(reusable, c)

(* What ngx_close_connection undoes before it frees the connection: the    *)
(* timers, the registration, the posted events, the place among the        *)
(* reusable connections.                                                   *)
Clear(c) ==
  /\ active' = active \ Of(c)
  /\ postedFlag' = postedFlag \ Of(c)
  /\ acceptQueue' = Unposted(acceptQueue, c)
  /\ postQueue' = Unposted(postQueue, c)
  /\ timerSet' = timerSet \ Of(c)
  /\ timers' = timers \ Of(c)
  /\ reusable' = Removed(reusable, c)

(* ngx_close_connection; "connection already closed" changes nothing.      *)
Close(c) ==
  /\ Running
  /\ c \in open
  /\ open' = open \ {c}
  /\ freeList' = << c >> \o freeList
  /\ Clear(c)
  /\ UNCHANGED << use, instance, loop, serving >>

(* Bounds: see MaxUse and MaxReuse. *)
MayTake(c) ==
  /\ use[c] < MaxUse
  /\ c \in DOMAIN batch => use[c] < batch[c].use + MaxReuse
  /\ writeDue # None /\ writeDue[1] = c => use[c] < writeDue[2].use + MaxReuse

(* Fault of Take: the bit is not flipped. *)
TakeSameInstance(c) ==
  /\ MayTake(c)
  /\ use' = [use EXCEPT ![c] = @ + 1]
  /\ UNCHANGED instance

(* ngx_get_connection prepares the connection for its next use. *)
Take(c) ==
  /\ MayTake(c)
  /\ use' = [use EXCEPT ![c] = @ + 1]
  /\ instance' = [instance EXCEPT ![c] = 1 - @]

(* ngx_get_connection: the events are zeroed, that is their flags are.     *)
GetFree ==
  /\ Running
  /\ freeList # << >>
  /\ LET c == Head(freeList)
     IN /\ Take(c)
        /\ freeList' = Tail(freeList)
        /\ open' = open \cup {c}
        /\ active' = active \ Of(c)
        /\ postedFlag' = postedFlag \ Of(c)
        /\ timerSet' = timerSet \ Of(c)
  /\ UNCHANGED << reusable, acceptQueue, postQueue, timers, loop, serving >>

(* No connection is free: ngx_drain_connections has the handler of the     *)
(* connection that has been reusable for longest close it.                 *)
GetDrained ==
  /\ Running
  /\ freeList = << >>
  /\ reusable # << >>
  /\ Take(Last(reusable))
  /\ Clear(Last(reusable))
  /\ UNCHANGED << freeList, open, loop, serving >>

(* ngx_add_event, ngx_add_conn, ngx_del_event *)
Register(evs) ==
  /\ Running
  /\ \A ev \in evs : ev[1] \in open
  /\ active' = active \cup evs
  /\ UNCHANGED << pool, queues, timerSet, timers, loop, serving >>

Unregister(ev) ==
  /\ Running
  /\ ev \in active
  /\ active' = active \ {ev}
  /\ UNCHANGED << pool, queues, timerSet, timers, loop, serving >>

(* ngx_post_event(ev, &ngx_posted_events) *)
Post(ev) ==
  /\ Running
  /\ ev[1] \in open
  /\ postedFlag' = postedFlag \cup {ev}
  /\ postQueue' = PostTo(ev, postQueue)
  /\ UNCHANGED << pool, active, acceptQueue, timerSet, timers, loop, serving >>

(* ngx_add_timer and ngx_del_timer *)
SetTimer(ev) ==
  /\ Running
  /\ ev[1] \in open
  /\ timerSet' = timerSet \cup {ev}
  /\ timers' = timers \cup {ev}
  /\ UNCHANGED << pool, active, queues, loop, serving >>

DelTimer(ev) ==
  /\ Running
  /\ ev \in timerSet
  /\ timerSet' = timerSet \ {ev}
  /\ timers' = timers \ {ev}
  /\ UNCHANGED << pool, active, queues, loop, serving >>

(* ngx_reusable_connection *)
Reusable(c, yes) ==
  /\ Running
  /\ c \in open
  /\ reusable' = (IF yes THEN << c >> ELSE << >>) \o Removed(reusable, c)
  /\ UNCHANGED << freeList, open, use, instance, active, queues, timerSet,
                  timers, loop, serving >>

Return ==
  /\ Running
  /\ serving' = None
  /\ UNCHANGED << pool, active, queues, timerSet, timers, loop >>

Handler ==
  \/ \E c \in Slots \ {Listener} :
       \/ Close(c)
       \/ Register(Of(c))
       \/ Register({<< c, "read" >>})
       \/ Unregister(<< c, "read" >>)
       \/ Reusable(c, TRUE)
       \/ Reusable(c, FALSE)
  \/ \E ev \in Posting : Post(ev) \/ SetTimer(ev) \/ DelTimer(ev)
  \/ GetFree
  \/ GetDrained
  \/ Return

Deliver ==
  \/ EpollWait
  \/ \E c \in DOMAIN batch : EventRead(c) \/ EventStale(c)
  \/ EventWrite
  \/ NextStage
  \/ PostedAccept
  \/ PostedEvent
  \/ \E ev \in timers : Expire(ev)

ConnNext == Handler \/ Deliver

ConnSpec == ConnInit /\ [][ConnNext]_connVars

-----------------------------------------------------------------------------

ConnTypeOK ==
  /\ freeList \in Seq(Slots)
  /\ open \subseteq Slots
  /\ use \in [Slots -> 0 .. MaxUse]
  /\ instance \in [Slots -> {0, 1}]
  /\ active \subseteq Events
  /\ postedFlag \subseteq Events /\ timerSet \subseteq Events
  /\ timers \subseteq Events
  /\ acceptQueue \in Seq(Events) /\ postQueue \in Seq(Events)
  /\ reusable \in Seq(Slots)
  /\ stage \in {"wait", "events", "accept", "timers", "posted"}

(* The pool loses no connection and hands none out twice: each is open, or *)
(* exactly once in the free list.                                          *)
PoolIsPartition ==
  /\ ToSet(freeList) = Slots \ open
  /\ Len(freeList) = Cardinality(Slots \ open)

(* A closed connection has left every list: nothing can call a handler of  *)
(* it, or of its next use, on behalf of the one that is gone.              *)
ClosedIsQuiet ==
  \A c \in Slots \ open :
    /\ Of(c) \cap (active \cup timers \cup ToSet(postQueue)) = {}
    /\ c \notin ToSet(reusable)

(* The flags in the events agree with the lists the events are linked      *)
(* into, and no event or connection is linked twice: the queues are        *)
(* intrusive, a second insertion or a missing removal would corrupt them.  *)
LinkedOnce ==
  /\ postedFlag = ToSet(acceptQueue) \cup ToSet(postQueue)
  /\ IsInjective(acceptQueue \o postQueue)
  /\ timerSet = timers
  /\ IsInjective(reusable)

(* The lists of the pool and of the events, whatever handlers did to them. *)
ConnectionsAreSound == ConnTypeOK /\ PoolIsPartition /\ LinkedOnce /\ ClosedIsQuiet

(* An event reaches the handler of the connection it was reported for and  *)
(* not of one that has taken its place in the meantime, and a handler is   *)
(* called for open connections only.                                       *)
DeliveredToItsUse ==
  [][ (serving = None /\ serving' # None) =>
        /\ serving'.event[1] \in open
        /\ serving'.use = use[serving'.event[1]] ]_connVars
=============================================================================
