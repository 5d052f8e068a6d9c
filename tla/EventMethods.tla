---------------------------- MODULE EventMethods ----------------------------
(***************************************************************************)
(* Four ways to wait for events: select, poll, /dev/poll and kqueue        *)
(* (event/modules), below ngx_handle_read_event and ngx_handle_write_event.*)
(*                                                                         *)
(* select and poll are given arrays by the worker at each call.  An event  *)
(* that is deleted leaves a hole that the last entry fills.  /dev/poll and *)
(* kqueue keep the set in the kernel; the worker collects changes that are *)
(* passed on when it waits, or when the list is full.  A descriptor is the *)
(* lowest free number, so it soon stands for another connection.  epoll is *)
(* modelled in Connections, where handlers run in the middle of a batch;   *)
(* here a reported event is posted.                                        *)
(*                                                                         *)
(* Calls of the kernel that fail are left out, except waiting that is      *)
(* interrupted.                                                            *)
(***************************************************************************)
EXTENDS Integers, Sequences, FiniteSets, FiniteSetsExt, SequencesExt

CONSTANTS
  Listening,   (* the connection of a listening socket *)
  Clients,     (* the other connections of the worker *)
  Methods,     (* a subset of {"select", "poll", "devpoll", "kqueue"} *)
  MaxChanges   (* max_changes: the size of change_list *)

ASSUME MethodsAssumption ==
  /\ IsFiniteSet(Clients) /\ Listening \notin Clients
  /\ Methods \subseteq {"select", "poll", "devpoll", "kqueue"}
  /\ MaxChanges \in Nat \ {0}

VARIABLE waiter

Conns == {Listening} \cup Clients
Fds == 0 .. Cardinality(Clients)
Closed == -1
NoIndex == 0
Other(side) == IF side = "read" THEN "write" ELSE "read"
Pair(ev) == << ev[1], Other(ev[2]) >>
Filed(s, fd) == CHOOSE c \in Conns : s.fd[c] = fd
Set(s, ev) == s.index[ev] # NoIndex
FdOf(s, ev) == s.fd[ev[1]]

(* The last entry of an array moves to the place i. *)
Filled(seq, i) == IF i = Len(seq) THEN Front(seq) ELSE Front([seq EXCEPT ![i] = Last(seq)])

-----------------------------------------------------------------------------
(* select: two sets of descriptors, and the events in an array. *)

SelectAdd(s, ev) ==
  IF Set(s, ev) THEN s
  ELSE [s EXCEPT !.master = @ \cup {<< FdOf(s, ev), ev[2] >>},
                 !.max = IF @ # -1 /\ @ < FdOf(s, ev) THEN FdOf(s, ev) ELSE @,
                 !.active = @ \cup {ev}, !.list = Append(@, ev), !.index[ev] = Len(s.list) + 1]

SelectDel(s, ev) ==
  IF ~Set(s, ev) THEN [s EXCEPT !.active = @ \ {ev}]
  ELSE [s EXCEPT !.master = @ \ {<< FdOf(s, ev), ev[2] >>},
                 !.max = IF @ = FdOf(s, ev) THEN -1 ELSE @,
                 !.active = @ \ {ev}, !.list = Filled(@, s.index[ev]),
                 !.index = [@ EXCEPT ![Last(s.list)] = s.index[ev], ![ev] = NoIndex]]

(* The highest descriptor is sought anew when it is not known. *)
SelectMax(s) ==
  IF s.max # -1 THEN s.max ELSE Max({-1} \cup {FdOf(s, s.list[i]) : i \in DOMAIN s.list})

-----------------------------------------------------------------------------
(* poll: an entry for each descriptor, shared by its two events. *)

PollAdd(s, ev) ==
  LET t == [s EXCEPT !.active = @ \cup {ev}]
  IN IF Set(s, ev) THEN t
     ELSE IF Set(s, Pair(ev))
     THEN [t EXCEPT !.list[s.index[Pair(ev)]].sides = @ \cup {ev[2]}, !.index[ev] = s.index[Pair(ev)]]
     ELSE [t EXCEPT !.list = Append(@, [fd |-> FdOf(s, ev), sides |-> {ev[2]}]),
                    !.index[ev] = Len(s.list) + 1]

(* Fault of PollDel: only the index of the read event is kept in step. *)
PollDelMovesRead(s, ev) ==
  LET t == [s EXCEPT !.active = @ \ {ev}, !.index[ev] = NoIndex]
      moved == Filed(s, Last(s.list).fd)
  IN IF ~Set(s, ev) THEN [s EXCEPT !.active = @ \ {ev}]
     ELSE IF Set(s, Pair(ev)) THEN [t EXCEPT !.list[s.index[ev]].sides = @ \ {ev[2]}]
     ELSE [t EXCEPT !.list = Filled(@, s.index[ev]),
                    !.index = [e \in DOMAIN s.index |-> IF e = << moved, "read" >> /\ t.index[e] = Len(s.list)
                                                       THEN s.index[ev] ELSE t.index[e]]]

PollDel(s, ev) ==
  LET t == [s EXCEPT !.active = @ \ {ev}, !.index[ev] = NoIndex]
      moved == Filed(s, Last(s.list).fd)
  IN IF ~Set(s, ev) THEN [s EXCEPT !.active = @ \ {ev}]
     ELSE IF Set(s, Pair(ev)) THEN [t EXCEPT !.list[s.index[ev]].sides = @ \ {ev[2]}]
     ELSE [t EXCEPT !.list = Filled(@, s.index[ev]),
                    !.index = [e \in DOMAIN s.index |-> IF e[1] = moved /\ t.index[e] = Len(s.list)
                                                       THEN s.index[ev] ELSE t.index[e]]]

-----------------------------------------------------------------------------
(* /dev/poll: what is written adds to what is polled for a descriptor,     *)
(* until it is removed.  The driver does not notice that it is closed.     *)

(* The set after the changes of the list, each of which counts until the   *)
(* descriptor is removed by a later one.                                   *)
RemovedFrom(list, fd, first) == \E i \in first .. Len(list) : list[i] = [fd |-> fd, what |-> "remove"]
DevpollKern(s) ==
  LET list == s.list
      adding == {i \in DOMAIN list : list[i].what # "remove" /\ ~RemovedFrom(list, list[i].fd, i + 1)}
  IN {r \in s.kern : ~RemovedFrom(list, r[1], 1)} \cup {<< list[i].fd, list[i].what >> : i \in adding}

DevpollFlush(s) == [s EXCEPT !.kern = DevpollKern(s), !.list = << >>]

DevpollSet(s, fd, what, close) ==
  LET t == IF Len(s.list) >= MaxChanges THEN DevpollFlush(s) ELSE s
      u == [t EXCEPT !.list = Append(@, [fd |-> fd, what |-> what])]
  IN IF close THEN DevpollFlush(u) ELSE u

DevpollAdd(s, ev) == DevpollSet([s EXCEPT !.active = @ \cup {ev}], FdOf(s, ev), ev[2], FALSE)

(* The pair of the event is polled again. *)
DevpollDel(s, ev, close) ==
  LET t == DevpollSet(s, FdOf(s, ev), "remove", close)
  IN IF close THEN [t EXCEPT !.active = @ \ {ev, Pair(ev)}]
     ELSE IF Pair(ev) \in s.active THEN DevpollSet([t EXCEPT !.active = @ \ {ev}], FdOf(s, ev), Other(ev[2]), FALSE)
     ELSE [t EXCEPT !.active = @ \ {ev}]

-----------------------------------------------------------------------------
(* kqueue: a filter for each event, with the pointer to the event and the  *)
(* instance.  The kernel forgets the filters of a descriptor it closes.    *)

(* Of several changes for one filter the last one counts. *)
ChangedFrom(list, fd, side, first) == \E i \in first .. Len(list) : list[i].fd = fd /\ list[i].ev[2] = side
KqueueKern(s) ==
  LET list == s.list
      adding == {i \in DOMAIN list : list[i].op = "add" /\ ~ChangedFrom(list, list[i].fd, list[i].ev[2], i + 1)}
  IN {k \in s.kern : ~ChangedFrom(list, k.fd, k.ev[2], 1)}
       \cup {[fd |-> list[i].fd, ev |-> list[i].ev, instance |-> list[i].instance] : i \in adding}

(* An index stays behind; it counts only where the list has an entry of    *)
(* the same event, so here it is forgotten.                                *)
KqueueFlush(s) ==
  [s EXCEPT !.kern = KqueueKern(s), !.list = << >>,
            !.index = [e \in DOMAIN s.index |-> NoIndex]]

KqueueSet(s, ev, op) ==
  LET t == IF Len(s.list) >= MaxChanges THEN KqueueFlush(s) ELSE s
  IN [t EXCEPT !.list = Append(@, [fd |-> FdOf(s, ev), ev |-> ev, instance |-> s.instance[ev[1]], op |-> op]),
               !.index[ev] = Len(t.list) + 1]

KqueueAdd(s, ev) == KqueueSet([s EXCEPT !.active = @ \cup {ev}, !.disabled = @ \ {ev}], ev, "add")

(* A change that was not passed on yet is taken back, nothing else. *)
KqueueDel(s, ev, how) ==
  LET t == [s EXCEPT !.active = @ \ {ev}, !.disabled = @ \ {ev}]
      i == s.index[ev]
  IN IF i \in DOMAIN s.list /\ s.list[i].ev = ev
     THEN [t EXCEPT !.list = Filled(@, i), !.index[Last(s.list).ev] = IF i < Len(s.list) THEN i ELSE @]
     ELSE IF how = "close" THEN t
     ELSE KqueueSet([t EXCEPT !.disabled = @ \cup {ev}], ev, "disable")

-----------------------------------------------------------------------------
(* ngx_add_event and ngx_del_event with one of the flags, or "keep". *)

Add(s, ev) ==
  CASE s.method = "select" -> SelectAdd(s, ev) [] s.method = "poll" -> PollAdd(s, ev)
    [] s.method = "devpoll" -> DevpollAdd(s, ev) [] s.method = "kqueue" -> KqueueAdd(s, ev)

Del(s, ev, how) ==
  CASE s.method = "select" -> SelectDel(s, ev) [] s.method = "poll" -> PollDel(s, ev)
    [] s.method = "devpoll" -> DevpollDel(s, ev, how = "close") [] s.method = "kqueue" -> KqueueDel(s, ev, how)

Clear(s) == s.method = "kqueue"

(* ngx_handle_read_event, with NGX_CLOSE_EVENT or without *)
HandleRead(s, c, how) ==
  LET rev == << c, "read" >>
  IN IF rev \notin s.active /\ rev \notin s.ready THEN Add(s, rev)
     ELSE IF ~Clear(s) /\ rev \in s.active /\ (rev \in s.ready \/ how = "close") THEN Del(s, rev, how)
     ELSE s

(* ngx_handle_write_event *)
HandleWrite(s, c) ==
  LET wev == << c, "write" >>
  IN IF wev \notin s.active /\ wev \notin s.ready THEN Add(s, wev)
     ELSE IF ~Clear(s) /\ wev \in s.active /\ wev \in s.ready THEN Del(s, wev, "keep")
     ELSE s

(* ngx_get_connection for the lowest free descriptor.  Only kqueue looks at *)
(* the instance.                                                           *)
Taken(s, c) ==
  LET both == {c} \X {"read", "write"}
  IN [s EXCEPT !.fd[c] = Min({fd \in Fds : \A d \in Conns : s.fd[d] # fd}),
               !.instance[c] = Clear(s) /\ ~@, !.active = @ \ both, !.ready = @ \ both,
               !.disabled = @ \ both, !.index = [e \in DOMAIN s.index |-> IF e \in both THEN NoIndex ELSE s.index[e]]]

(* ngx_close_connection: what it tells the method, and the kernel. *)
CloseEvent(s, ev) == IF ev \in s.active \cup s.disabled THEN Del(s, ev, "close") ELSE s
Shut(s, c) ==
  LET t == CloseEvent(CloseEvent(s, << c, "read" >>), << c, "write" >>)
  IN [t EXCEPT !.fd[c] = Closed, !.kern = IF Clear(s) THEN {k \in @ : k.fd # s.fd[c]} ELSE @]

-----------------------------------------------------------------------------
NewWaiter(method) ==
  [method |-> method, fd |-> [c \in Conns |-> IF c = Listening THEN 0 ELSE Closed],
   instance |-> [c \in Conns |-> FALSE], active |-> {}, ready |-> {}, disabled |-> {},
   index |-> [e \in Conns \X {"read", "write"} |-> NoIndex],
   list |-> << >>, master |-> {}, max |-> -1, kern |-> {}]

(* ngx_event_process_init registers the listening socket. *)
WaiterInit == \E m \in Methods : waiter = Add(NewWaiter(m), << Listening, "read" >>)

IsOpen(c) == waiter.fd[c] # Closed

(* Accepted: it can be written, and perhaps read at once. *)
Accepted(c) ==
  /\ ~IsOpen(c)
  /\ \E more \in {{}, {<< c, "read" >>}} :
       waiter' = [Taken(waiter, c) EXCEPT !.ready = @ \cup {<< c, "write" >>} \cup more]

(* ngx_event_connect_peer: connected, or in progress. *)
Connect(c) ==
  /\ ~IsOpen(c)
  /\ LET s == Add(Taken(waiter, c), << c, "read" >>)
     IN waiter' \in {Add(s, << c, "write" >>), [s EXCEPT !.ready = @ \cup {<< c, "write" >>}]}

(* A handler found that there is no more to read, or no room to write. *)
Exhausted(c, side) ==
  /\ IsOpen(c) /\ << c, side >> \in waiter.ready
  /\ waiter' = [waiter EXCEPT !.ready = @ \ {<< c, side >>}]

Rearm(c) ==
  /\ IsOpen(c)
  /\ \/ \E how \in {"keep", "close"} : waiter' = HandleRead(waiter, c, how)
     \/ waiter' = HandleWrite(waiter, c)

CloseConnection(c) == IsOpen(c) /\ waiter' = Shut(waiter, c)

(* ngx_disable_accept_events, ngx_enable_accept_events.  The loop waits    *)
(* between the one and the other.                                          *)
DisableAccept ==
  /\ << Listening, "read" >> \in waiter.active
  /\ waiter' = Del(waiter, << Listening, "read" >>, "disable")
EnableAccept ==
  /\ IsOpen(Listening) /\ << Listening, "read" >> \notin waiter.active
  /\ Clear(waiter) => \A i \in DOMAIN waiter.list : waiter.list[i].op # "disable"
  /\ waiter' = Add(waiter, << Listening, "read" >>)

-----------------------------------------------------------------------------
(* What the call that waits is about: pairs of a descriptor and a side. *)
Passed(s) ==
  CASE s.method = "devpoll" -> DevpollFlush(s) [] s.method = "kqueue" -> KqueueFlush(s)
    [] s.method = "select" -> [s EXCEPT !.max = SelectMax(s)] [] s.method = "poll" -> s

Watched(s) ==
  CASE s.method = "select" -> {r \in s.master : r[1] <= s.max}
    [] s.method = "poll" -> UNION {{s.list[i].fd} \X s.list[i].sides : i \in DOMAIN s.list}
    [] s.method = "devpoll" -> s.kern
    [] s.method = "kqueue" -> {<< k.fd, k.ev[2] >> : k \in s.kern}

(* The reports are found again as events: by the array, by the descriptor, *)
(* or by the pointer and the instance in the report.                       *)
EventsOf(s, reports) ==
  CASE s.method = "select" -> {ev \in Range(s.list) : << FdOf(s, ev), ev[2] >> \in reports}
    [] s.method \in {"poll", "devpoll"} -> {ev \in s.active : << FdOf(s, ev), ev[2] >> \in reports}
    [] s.method = "kqueue" -> {k.ev : k \in {k \in s.kern : << k.fd, k.ev[2] >> \in reports
                                                           /\ k.instance = s.instance[k.ev[1]]}}

(* poll and /dev/poll tell of a broken connection whatever was asked; the  *)
(* others as both sides.  No report: the time is up, or a signal came.     *)
(* Nobody looks at the flag `ready` of the listening socket.               *)
Process ==
  \E s \in {Passed(waiter)}, fds \in {{}} \cup {{fd} : fd \in Fds}, broken \in BOOLEAN :
    LET asked == {r \in Watched(s) : r[1] \in fds}
        seen == IF broken /\ s.method \in {"poll", "devpoll"} THEN {r[1] : r \in asked} \X {"read", "write"} ELSE asked
    IN waiter' = [s EXCEPT !.ready = @ \cup {ev \in EventsOf(s, seen) : ev[1] # Listening}]

MethodNext ==
  \/ Process \/ DisableAccept \/ EnableAccept
  \/ \E c \in Clients : Accepted(c) \/ Connect(c) \/ Rearm(c)
  \/ \E c \in Conns : CloseConnection(c)
  \/ \E c \in Clients, side \in {"read", "write"} : Exhausted(c, side)

MethodSpec == WaiterInit /\ [][MethodNext]_waiter

-----------------------------------------------------------------------------
(* What the kernel will be asked, once the pending changes are passed on,  *)
(* is what the flags `active` of the open connections say: no registered   *)
(* event is lost, none of a closed connection is left, and none is taken   *)
(* for one of the connection that has the number now; in an array, each    *)
(* event points to the one entry it is in.  The flags are all              *)
(* that ngx_handle_read_event looks at (ngx_event.c:433-458); arrays and   *)
(* lists are permuted at ngx_poll_module.c:206, ngx_select_module.c:198    *)
(* and ngx_kqueue_module.c:360.                                            *)
EventsAreWatched ==
  LET s == Passed(waiter)
  IN /\ Watched(s) = {<< FdOf(s, ev), ev[2] >> : ev \in s.active}
     /\ EventsOf(s, Watched(s)) = s.active
     /\ \A ev \in s.active : s.fd[ev[1]] # Closed
     /\ s.method \in {"select", "poll"} => \A ev \in s.active : s.index[ev] \in DOMAIN s.list
     /\ s.method = "select" => Len(s.list) = Cardinality(s.active)
                               /\ \A ev \in s.active : s.list[s.index[ev]] = ev
     /\ s.method = "poll" => Len(s.list) = Cardinality({ev[1] : ev \in s.active})
                             /\ \A ev \in s.active : s.list[s.index[ev]].fd = FdOf(s, ev)
=============================================================================
