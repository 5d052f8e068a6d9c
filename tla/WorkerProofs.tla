---------------------------- MODULE WorkerProofs ----------------------------
(***************************************************************************)
(* Proofs about two parts of a worker: the event methods, for any clients  *)
(* and any length of the change lists, and the reading of a configuration, *)
(* for any files and any sizes of the buffer.                              *)
(***************************************************************************)
EXTENDS EventMethods, ConfFile, FiniteSetTheorems, WellFoundedInduction, TLAPS

-----------------------------------------------------------------------------
(* The event methods: what a waiter keeps, and the invariant. *)

Sides == {"read", "write"}
Events == Conns \X Sides
Polled == [fd : Fds, sides : SUBSET Sides]
DevpollChanges == [fd : Fds, what : Sides \cup {"remove"}]
Filters == [fd : Fds, ev : Events, instance : BOOLEAN]
KqueueChanges == [fd : Fds, ev : Events, instance : BOOLEAN, op : {"add", "disable"}]
Lists == Seq(Events) \cup Seq(Polled) \cup Seq(DevpollChanges) \cup Seq(KqueueChanges)

Waiters ==
  [method : {"select", "poll", "devpoll", "kqueue"}, fd : [Conns -> Fds \cup {Closed}],
   instance : [Conns -> BOOLEAN], active : SUBSET Events, ready : SUBSET Events,
   disabled : SUBSET Events, index : [Events -> Nat], list : Lists,
   master : SUBSET (Fds \X Sides), max : Int, kern : (SUBSET (Fds \X Sides)) \cup (SUBSET Filters)]

Open(s, c) == s.fd[c] # Closed

(* Descriptors are those of one connection each, and events are registered *)
(* for connections that are open.                                          *)
ConnsOK(s) ==
  /\ \A c, d \in Conns : s.fd[c] = s.fd[d] /\ Open(s, c) => c = d
  /\ \A ev \in s.active : Open(s, ev[1])
  /\ s.disabled \subseteq (IF s.method = "kqueue" THEN {<< Listening, "read" >>} ELSE {})

(* What the flags say is registered. *)
Registered(s) == {<< FdOf(s, ev), ev[2] >> : ev \in s.active}

(* The array has the active events, and each knows its place. *)
SelectOK(s) ==
  /\ s.list \in Seq(Events)
  /\ \A i \in DOMAIN s.list : s.list[i] \in s.active /\ s.index[s.list[i]] = i
  /\ \A ev \in Events : IF ev \in s.active THEN s.index[ev] \in DOMAIN s.list /\ s.list[s.index[ev]] = ev
                                           ELSE s.index[ev] = NoIndex
  /\ s.master = Registered(s)
  /\ s.max = -1 \/ \A ev \in s.active : FdOf(s, ev) <= s.max

(* The array has an entry for each descriptor, which its events know. *)
PollOK(s) ==
  /\ s.list \in Seq(Polled)
  /\ \A i \in DOMAIN s.list : \E ev \in s.active : s.index[ev] = i
  /\ \A ev \in Events :
       IF ev \in s.active
       THEN /\ s.index[ev] \in DOMAIN s.list /\ s.list[s.index[ev]].fd = FdOf(s, ev)
            /\ s.list[s.index[ev]].sides = {side \in Sides : << ev[1], side >> \in s.active}
       ELSE s.index[ev] = NoIndex
  /\ \A i, j \in DOMAIN s.list : s.list[i].fd = s.list[j].fd => i = j

(* What the driver will have been told. *)
DevpollOK(s) ==
  /\ s.list \in Seq(DevpollChanges) /\ s.kern \subseteq Fds \X Sides
  /\ DevpollKern(s) = Registered(s)

FilterOf(s, ev) == [fd |-> FdOf(s, ev), ev |-> ev, instance |-> s.instance[ev[1]]]
Pending(s, ev, op) == \E i \in DOMAIN s.list : s.list[i].ev = ev /\ s.list[i].op = op

(* Each change is the only one for its event, of an open connection.  Only *)
(* accepting is disabled.                                                  *)
ChangeOK(s, i) ==
  LET ch == s.list[i] IN
  /\ s.index[ch.ev] = i /\ Open(s, ch.ev[1]) /\ ch.fd = FdOf(s, ch.ev)
  /\ ch.instance = s.instance[ch.ev[1]]
  /\ ch.op = "add" <=> ch.ev \in s.active
  /\ ch.op = "disable" => ch.ev = << Listening, "read" >> /\ ch.ev \in s.disabled

FilterOK(s, k) ==
  /\ Open(s, k.ev[1]) /\ k = FilterOf(s, k.ev)
  /\ k.ev \notin s.active => Pending(s, k.ev, "disable")
  /\ ~Pending(s, k.ev, "add")

(* The filters of the descriptor `left` are about to be forgotten.         *)
KqueueOK(s, left) ==
  /\ s.list \in Seq(KqueueChanges) /\ s.kern \subseteq Filters
  /\ \A i \in DOMAIN s.list : ChangeOK(s, i)
  /\ \A k \in s.kern : k.fd # left => FilterOK(s, k)
  /\ \A ev \in s.active : FilterOf(s, ev) \in s.kern \/ Pending(s, ev, "add")

MethodOK(s) ==
  CASE s.method = "select" -> SelectOK(s) [] s.method = "poll" -> PollOK(s)
    [] s.method = "devpoll" -> DevpollOK(s) [] s.method = "kqueue" -> KqueueOK(s, Closed)

(* A waiter that is sound. *)
Sound(s) == s \in Waiters /\ ConnsOK(s) /\ MethodOK(s)

MethodInv == Sound(waiter)

-----------------------------------------------------------------------------
(* Events and sequences. *)

(* What the constants are. *)
LEMMA MethodBasics ==
  /\ IsFiniteSet(Conns) /\ Listening \in Conns /\ Clients \subseteq Conns /\ Listening \notin Clients
  /\ Fds \subseteq Nat /\ Closed \notin Fds /\ 0 \in Fds /\ Closed = -1
  /\ Cardinality(Clients) \in Nat /\ Cardinality(Conns) = Cardinality(Clients) + 1
  <1>1. IsFiniteSet(Clients) /\ Listening \notin Clients
    BY MethodsAssumption
  <1>2. Cardinality(Clients) \in Nat
    BY <1>1, FS_CardinalityType
  <1>3. IsFiniteSet(Clients \cup {Listening}) /\ Cardinality(Clients \cup {Listening}) = Cardinality(Clients) + 1
    BY <1>1, FS_AddElement
  <1>4. Conns = Clients \cup {Listening}
    BY DEF Conns
  <1> QED
    BY <1>1, <1>2, <1>3, <1>4 DEF Fds, Closed

(* An event is a connection and a side. *)
LEMMA EventIs ==
  /\ \A ev \in Events : /\ ev = << ev[1], ev[2] >> /\ ev[1] \in Conns /\ ev[2] \in Sides
                        /\ Pair(ev) \in Events /\ Pair(ev)[1] = ev[1] /\ Pair(ev)[2] = Other(ev[2])
                        /\ Pair(ev) # ev
  /\ \A c \in Conns, side \in Sides : << c, side >> \in Events /\ << c, side >>[1] = c /\ << c, side >>[2] = side
  /\ \A e, f \in Events : e[1] = f[1] => e = f \/ f = Pair(e)
  /\ \A e, f \in Events : e[1] = f[1] /\ e[2] = f[2] => e = f
  BY DEF Events, Sides, Pair, Other

(* Two events with the same descriptor are those of one connection. *)
LEMMA SameFd ==
  ASSUME NEW s \in Waiters, ConnsOK(s), NEW e \in Events, NEW f \in Events,
         Open(s, e[1]), FdOf(s, e) = FdOf(s, f)
  PROVE  e[1] = f[1] /\ (e[2] = f[2] => e = f)
  BY EventIs DEF ConnsOK, Waiters, FdOf

(* The descriptor of an open connection. *)
LEMMA OpenFd ==
  ASSUME NEW s \in Waiters, NEW ev \in Events, Open(s, ev[1])
  PROVE  FdOf(s, ev) \in Fds /\ FdOf(s, ev) \in Nat /\ FdOf(s, ev) # Closed
  BY EventIs, MethodBasics DEF Open, FdOf, Waiters

(* The last element takes the place i. *)
LEMMA FilledIs ==
  ASSUME NEW S, NEW seq \in Seq(S), NEW i \in DOMAIN seq
  PROVE  /\ Filled(seq, i) \in Seq(S) /\ DOMAIN Filled(seq, i) = 1 .. Len(seq) - 1
         /\ \A j \in 1 .. Len(seq) - 1 : Filled(seq, i)[j] = IF j = i THEN seq[Len(seq)] ELSE seq[j]
         /\ Len(seq) \in DOMAIN seq /\ Last(seq) = seq[Len(seq)] /\ Len(Filled(seq, i)) = Len(seq) - 1
  <1>1. DOMAIN seq = 1 .. Len(seq) /\ Len(seq) \in Nat /\ Len(seq) \in DOMAIN seq
    OBVIOUS
  <1>2. \A t \in Seq(S) : Len(t) = Len(seq) => 
          /\ Front(t) \in Seq(S) /\ DOMAIN Front(t) = 1 .. Len(seq) - 1 /\ Len(Front(t)) = Len(seq) - 1
          /\ \A j \in 1 .. Len(seq) - 1 : Front(t)[j] = t[j]
    BY <1>1 DEF Front
  <1>3. Last(seq) = seq[Len(seq)]
    BY DEF Last
  <1>4. PICK t : t = [seq EXCEPT ![i] = Last(seq)]
    OBVIOUS
  <1>5. t \in Seq(S) /\ Len(t) = Len(seq) /\ \A j \in DOMAIN seq : t[j] = IF j = i THEN seq[Len(seq)] ELSE seq[j]
    BY <1>1, <1>3, <1>4
  <1>6. CASE i = Len(seq)
    <2>1. Filled(seq, i) = Front(seq)
      BY <1>6 DEF Filled
    <2> QED
      BY <1>1, <1>2, <1>3, <1>6, <2>1
  <1>7. CASE i # Len(seq)
    <2>1. Filled(seq, i) = Front(t)
      BY <1>4, <1>7 DEF Filled
    <2>2. /\ Front(t) \in Seq(S) /\ DOMAIN Front(t) = 1 .. Len(seq) - 1 /\ Len(Front(t)) = Len(seq) - 1
          /\ \A j \in 1 .. Len(seq) - 1 : Front(t)[j] = t[j]
      BY <1>2, <1>5
    <2>3. \A j \in 1 .. Len(seq) - 1 : j \in DOMAIN seq
      BY <1>1
    <2>4. \A j \in 1 .. Len(seq) - 1 : Front(t)[j] = IF j = i THEN seq[Len(seq)] ELSE seq[j]
      BY <1>5, <2>2, <2>3
    <2> QED
      BY <1>1, <1>3, <2>1, <2>2, <2>4
  <1> QED
    BY <1>6, <1>7

(* One element more at the end. *)
LEMMA AppendIs ==
  ASSUME NEW S, NEW seq \in Seq(S), NEW x \in S
  PROVE  /\ Append(seq, x) \in Seq(S) /\ DOMAIN Append(seq, x) = 1 .. Len(seq) + 1
         /\ Len(Append(seq, x)) = Len(seq) + 1
         /\ Append(seq, x)[Len(seq) + 1] = x /\ \A j \in DOMAIN seq : Append(seq, x)[j] = seq[j]
         /\ DOMAIN seq = 1 .. Len(seq) /\ Len(seq) \in Nat /\ Len(seq) + 1 \notin DOMAIN seq
  OBVIOUS

(* One event more is registered. *)
LEMMA RegisteredAdd ==
  ASSUME NEW s \in Waiters, NEW t \in Waiters, NEW ev \in Events, t.fd = s.fd, t.active = s.active \cup {ev}
  PROVE  Registered(t) = Registered(s) \cup {<< FdOf(s, ev), ev[2] >>}
  <1>1. \A f \in Events : FdOf(t, f) = FdOf(s, f)
    BY DEF FdOf
  <1>2. s.active \subseteq Events /\ t.active \subseteq Events
    BY DEF Waiters
  <1>3. \A r : r \in Registered(t) <=> \E f \in t.active : r = << FdOf(s, f), f[2] >>
    BY <1>1, <1>2 DEF Registered
  <1>4. \A r : r \in Registered(s) <=> \E f \in s.active : r = << FdOf(s, f), f[2] >>
    BY DEF Registered
  <1> QED
    BY <1>3, <1>4

(* One event less. *)
LEMMA RegisteredDel ==
  ASSUME NEW s \in Waiters, ConnsOK(s), NEW t \in Waiters, NEW ev \in s.active, t.fd = s.fd,
         t.active = s.active \ {ev}
  PROVE  Registered(t) = Registered(s) \ {<< FdOf(s, ev), ev[2] >>}
  <1>1. \A f \in Events : FdOf(t, f) = FdOf(s, f)
    BY DEF FdOf
  <1>2. s.active \subseteq Events /\ t.active \subseteq Events /\ ev \in Events
    BY DEF Waiters
  <1>3. \A r : r \in Registered(t) <=> \E f \in t.active : r = << FdOf(s, f), f[2] >>
    BY <1>1, <1>2 DEF Registered
  <1>4. \A r : r \in Registered(s) <=> \E f \in s.active : r = << FdOf(s, f), f[2] >>
    BY DEF Registered
  <1>5. \A f \in s.active : FdOf(s, f) = FdOf(s, ev) /\ f[2] = ev[2] => f = ev
    BY <1>2, SameFd DEF ConnsOK
  <1> QED
    BY <1>3, <1>4, <1>5

(* The same events. *)
LEMMA RegisteredSame ==
  ASSUME NEW s \in Waiters, NEW t \in Waiters, t.active = s.active, \A ev \in s.active : t.fd[ev[1]] = s.fd[ev[1]]
  PROVE  Registered(t) = Registered(s)
  BY DEF FdOf, Registered

(* What is registered is about open descriptors. *)
LEMMA RegisteredType ==
  ASSUME NEW s \in Waiters, ConnsOK(s)
  PROVE  Registered(s) \subseteq Fds \X Sides
  <1>1. \A ev \in s.active : ev \in Events /\ FdOf(s, ev) \in Fds /\ ev[2] \in Sides
    BY OpenFd, EventIs DEF ConnsOK, Waiters
  <1> QED
    BY <1>1 DEF Registered

-----------------------------------------------------------------------------
(* select. *)

(* What stays when the method adds or deletes an event. *)
Frame(t, s) ==
  t.method = s.method /\ t.fd = s.fd /\ t.instance = s.instance /\ t.ready = s.ready

(* ngx_select_add_event() *)
LEMMA SelectAddOK ==
  ASSUME NEW s \in Waiters, ConnsOK(s), SelectOK(s), NEW ev \in Events, ev \notin s.active, Open(s, ev[1])
  PROVE  LET t == SelectAdd(s, ev)
         IN t \in Waiters /\ SelectOK(t) /\ Frame(t, s) /\ t.active = s.active \cup {ev}
            /\ t.disabled = s.disabled
  <1> DEFINE t == SelectAdd(s, ev)
             n == Len(s.list) + 1
             fd == FdOf(s, ev)
  <1>1. s.index[ev] = NoIndex /\ ~Set(s, ev) /\ s.list \in Seq(Events) /\ n \in Nat
    BY DEF SelectOK, Set
  <1>2. /\ t.master = s.master \cup {<< fd, ev[2] >>}
        /\ t.max = IF s.max # -1 /\ s.max < fd THEN fd ELSE s.max
        /\ t.active = s.active \cup {ev} /\ t.list = Append(s.list, ev)
        /\ t.index = [s.index EXCEPT ![ev] = n]
        /\ t.method = s.method /\ t.fd = s.fd /\ t.instance = s.instance /\ t.ready = s.ready
        /\ t.disabled = s.disabled /\ t.kern = s.kern
        /\ t = [s EXCEPT !.master = t.master, !.max = t.max, !.active = t.active, !.list = t.list, !.index = t.index]
    BY <1>1 DEF SelectAdd, Waiters
  <1> HIDE DEF t
  <1>3. fd \in Fds /\ fd \in Nat /\ ev[2] \in Sides
    BY OpenFd, EventIs
  <1>4. t \in Waiters
    <2>1. t.master \in SUBSET (Fds \X Sides) /\ t.max \in Int /\ t.active \in SUBSET Events
      BY <1>2, <1>3 DEF Waiters
    <2>2. t.index \in [Events -> Nat] /\ t.list \in Lists
      BY <1>1, <1>2, AppendIs DEF Waiters, Lists
    <2> QED
      BY <1>2, <2>1, <2>2 DEF Waiters
  <1>5. /\ t.list \in Seq(Events) /\ DOMAIN t.list = 1 .. n /\ t.list[n] = ev
        /\ \A j \in DOMAIN s.list : t.list[j] = s.list[j] /\ j \in DOMAIN t.list /\ j # n
        /\ \A j \in DOMAIN t.list : j = n \/ j \in DOMAIN s.list
        /\ n \in DOMAIN t.list
    BY <1>1, <1>2, AppendIs
  <1>6. \A f \in Events : t.index[f] = IF f = ev THEN n ELSE s.index[f]
    BY <1>2 DEF Waiters
  <1>7. \A i \in DOMAIN t.list : t.list[i] \in t.active /\ t.index[t.list[i]] = i
    <2>1. \A i \in DOMAIN s.list : s.list[i] \in s.active /\ s.list[i] \in Events /\ s.index[s.list[i]] = i
      BY DEF SelectOK, Waiters
    <2>2. \A i \in DOMAIN s.list : t.list[i] \in t.active /\ t.index[t.list[i]] = i
      <3> TAKE i \in DOMAIN s.list
      <3>1. t.list[i] = s.list[i] /\ s.list[i] # ev
        BY <1>5, <2>1
      <3> QED
        BY <1>2, <1>6, <2>1, <3>1
    <2>3. t.list[n] \in t.active /\ t.index[t.list[n]] = n
      BY <1>2, <1>5, <1>6
    <2> QED
      BY <1>5, <2>2, <2>3
  <1>8. \A f \in Events : IF f \in t.active THEN t.index[f] \in DOMAIN t.list /\ t.list[t.index[f]] = f
                                             ELSE t.index[f] = NoIndex
    <2> TAKE f \in Events
    <2>1. CASE f = ev
      BY <1>2, <1>5, <1>6, <2>1
    <2>2. CASE f # ev /\ f \in s.active
      <3>1. s.index[f] \in DOMAIN s.list /\ s.list[s.index[f]] = f
        BY <2>2 DEF SelectOK
      <3> QED
        BY <1>2, <1>5, <1>6, <2>2, <3>1
    <2>3. CASE f # ev /\ f \notin s.active
      <3>1. s.index[f] = NoIndex
        BY <2>3 DEF SelectOK
      <3> QED
        BY <1>2, <1>6, <2>3, <3>1
    <2> QED
      BY <2>1, <2>2, <2>3
  <1>9. \A f \in Events : FdOf(t, f) = FdOf(s, f)
    BY <1>2 DEF FdOf
  <1>10. t.master = Registered(t)
    <2>1. Registered(t) = Registered(s) \cup {<< fd, ev[2] >>}
      BY <1>2, <1>4, RegisteredAdd, ZenonT(60)
    <2> QED
      BY <1>2, <2>1 DEF SelectOK
  <1>11. t.max = -1 \/ \A f \in t.active : FdOf(t, f) <= t.max
    <2>1. s.max \in Int /\ s.active \subseteq Events /\ (s.max = -1 \/ \A f \in s.active : FdOf(s, f) <= s.max)
      BY DEF SelectOK, Waiters
    <2>2. \A f \in s.active : FdOf(s, f) \in Nat
      BY <2>1, OpenFd DEF ConnsOK
    <2>3. \A a \in Nat : s.max # -1 /\ a <= s.max => a <= t.max
      BY <1>2, <1>3, <2>1
    <2>4. t.max # -1 => s.max # -1 /\ fd <= t.max
      BY <1>2, <1>3, <2>1
    <2> QED
      BY <1>2, <1>9, <2>1, <2>2, <2>3, <2>4
  <1>12. SelectOK(t)
    BY <1>5, <1>7, <1>8, <1>10, <1>11 DEF SelectOK
  <1> QED
    BY <1>2, <1>4, <1>12 DEF Frame, t

(* ngx_select_del_event(): the last event of the array takes the place. *)
LEMMA SelectDelOK ==
  ASSUME NEW s \in Waiters, ConnsOK(s), SelectOK(s), NEW ev \in s.active
  PROVE  LET t == SelectDel(s, ev)
         IN t \in Waiters /\ SelectOK(t) /\ Frame(t, s) /\ t.active = s.active \ {ev}
            /\ t.disabled = s.disabled
  <1> DEFINE t == SelectDel(s, ev)
             n == Len(s.list)
             i == s.index[ev]
             fd == FdOf(s, ev)
             moved == s.list[n]
  <1>1. /\ ev \in Events /\ i \in DOMAIN s.list /\ s.list[i] = ev /\ s.list \in Seq(Events) /\ i # NoIndex
        /\ n \in Nat /\ DOMAIN s.list = 1 .. n /\ n \in DOMAIN s.list
    BY DEF SelectOK, Waiters, NoIndex
  <1>2. Set(s, ev) /\ Last(s.list) = moved /\ moved \in s.active /\ s.index[moved] = n /\ moved \in Events
    BY <1>1 DEF Set, Last, SelectOK
  <1>3. /\ t.master = s.master \ {<< fd, ev[2] >>}
        /\ t.max = IF s.max = fd THEN -1 ELSE s.max
        /\ t.active = s.active \ {ev} /\ t.list = Filled(s.list, i)
        /\ t.index = [s.index EXCEPT ![moved] = i, ![ev] = NoIndex]
        /\ t.method = s.method /\ t.fd = s.fd /\ t.instance = s.instance /\ t.ready = s.ready
        /\ t.disabled = s.disabled /\ t.kern = s.kern
        /\ t = [s EXCEPT !.master = t.master, !.max = t.max, !.active = t.active, !.list = t.list, !.index = t.index]
    BY <1>1, <1>2 DEF SelectDel, Waiters
  <1> HIDE DEF t
  <1>4. /\ t.list \in Seq(Events) /\ DOMAIN t.list = 1 .. n - 1
        /\ \A j \in 1 .. n - 1 : t.list[j] = IF j = i THEN moved ELSE s.list[j]
    <2>1. /\ Filled(s.list, i) \in Seq(Events) /\ DOMAIN Filled(s.list, i) = 1 .. n - 1
          /\ \A j \in 1 .. n - 1 : Filled(s.list, i)[j] = IF j = i THEN moved ELSE s.list[j]
      BY <1>1, FilledIs
    <2> QED
      BY <1>3, <2>1
  <1>5. \A f \in Events : t.index[f] = IF f = ev THEN NoIndex ELSE IF f = moved THEN i ELSE s.index[f]
    BY <1>1, <1>2, <1>3 DEF Waiters
  <1>6. t \in Waiters
    <2>1. t.index \in [Events -> Nat]
      BY <1>1, <1>3 DEF Waiters, NoIndex
    <2>2. t.master \in SUBSET (Fds \X Sides) /\ t.max \in Int /\ t.active \in SUBSET Events /\ t.list \in Lists
      BY <1>3, <1>4 DEF Waiters, Lists
    <2> QED
      BY <1>3, <2>1, <2>2 DEF Waiters
  <1>7. \A j \in DOMAIN t.list : t.list[j] \in t.active /\ t.index[t.list[j]] = j
    <2> SUFFICES ASSUME NEW j \in 1 .. n - 1
                 PROVE  t.list[j] \in t.active /\ t.index[t.list[j]] = j
      BY <1>4
    <2>0. j \in DOMAIN s.list /\ j # n
      BY <1>1
    <2>1. j # n /\ s.list[j] \in s.active /\ s.index[s.list[j]] = j /\ s.list[j] \in Events
      BY <2>0 DEF SelectOK, Waiters
    <2>2. CASE j = i
      BY <1>1, <1>2, <1>3, <1>4, <1>5, <2>1, <2>2
    <2>3. CASE j # i
      <3>1. t.list[j] = s.list[j] /\ s.list[j] # ev /\ s.list[j] # moved
        BY <1>2, <1>4, <2>1, <2>3
      <3> QED
        BY <1>3, <1>5, <2>1, <3>1
    <2> QED
      BY <2>2, <2>3
  <1>8. \A f \in Events : IF f \in t.active THEN t.index[f] \in DOMAIN t.list /\ t.list[t.index[f]] = f
                                             ELSE t.index[f] = NoIndex
    <2> SUFFICES ASSUME NEW f \in Events
                 PROVE  IF f \in t.active THEN t.index[f] \in DOMAIN t.list /\ t.list[t.index[f]] = f
                                          ELSE t.index[f] = NoIndex
      OBVIOUS
    <2>1. f \in s.active => s.index[f] \in DOMAIN s.list /\ s.list[s.index[f]] = f
      BY DEF SelectOK
    <2>2. f \notin s.active => s.index[f] = NoIndex
      BY DEF SelectOK
    <2>3. CASE f = ev \/ f \notin s.active
      BY <1>2, <1>3, <1>5, <2>2, <2>3
    <2>4. CASE f # ev /\ f \in s.active /\ f = moved
      <3>1. i # n
        BY <1>1, <2>4
      <3>2. i \in 1 .. n - 1
        BY <1>1, <3>1
      <3> QED
        BY <1>3, <1>4, <1>5, <2>4, <3>2
    <2>5. CASE f # ev /\ f \in s.active /\ f # moved
      <3>1. s.index[f] # n /\ s.index[f] # i /\ s.index[f] \in 1 .. n
        BY <1>1, <2>1, <2>5
      <3>2. s.index[f] \in 1 .. n - 1
        BY <1>1, <3>1
      <3> QED
        BY <1>3, <1>4, <1>5, <2>1, <2>5, <3>1, <3>2
    <2> QED
      BY <2>3, <2>4, <2>5
  <1>9. \A f \in Events : FdOf(t, f) = FdOf(s, f)
    BY <1>3 DEF FdOf
  <1>10. t.master = Registered(t)
    <2>1. Registered(t) = Registered(s) \ {<< fd, ev[2] >>}
      BY <1>3, <1>6, RegisteredDel, ZenonT(60)
    <2> QED
      BY <1>3, <2>1 DEF SelectOK
  <1>11. t.max = -1 \/ \A f \in t.active : FdOf(t, f) <= t.max
    <2>1. s.active \subseteq Events /\ (s.max = -1 \/ \A f \in s.active : FdOf(s, f) <= s.max)
      BY DEF SelectOK, Waiters
    <2> QED
      BY <1>3, <1>9, <2>1
  <1>12. SelectOK(t)
    BY <1>4, <1>7, <1>8, <1>10, <1>11 DEF SelectOK
  <1> QED
    BY <1>3, <1>6, <1>12 DEF Frame, t

-----------------------------------------------------------------------------
(* poll. *)

(* Active events share an entry exactly when they are of one connection. *)
LEMMA PollShare ==
  ASSUME NEW s \in Waiters, ConnsOK(s), PollOK(s), NEW e \in s.active, NEW f \in s.active
  PROVE  s.index[e] = s.index[f] <=> e[1] = f[1]
  <1>1. e \in Events /\ f \in Events /\ Open(s, e[1])
    BY DEF Waiters, ConnsOK
  <1>2. /\ s.index[e] \in DOMAIN s.list /\ s.list[s.index[e]].fd = FdOf(s, e)
        /\ s.index[f] \in DOMAIN s.list /\ s.list[s.index[f]].fd = FdOf(s, f)
    BY <1>1 DEF PollOK
  <1>3. e[1] = f[1] => FdOf(s, e) = FdOf(s, f)
    BY DEF FdOf
  <1>4. FdOf(s, e) = FdOf(s, f) => s.index[e] = s.index[f]
    BY <1>2 DEF PollOK
  <1>5. FdOf(s, e) = FdOf(s, f) => e[1] = f[1]
    BY <1>1, SameFd
  <1> QED
    BY <1>2, <1>3, <1>4, <1>5

(* ngx_poll_add_event() *)
LEMMA PollAddOK ==
  ASSUME NEW s \in Waiters, ConnsOK(s), PollOK(s), NEW ev \in Events, ev \notin s.active, Open(s, ev[1])
  PROVE  LET t == PollAdd(s, ev)
         IN t \in Waiters /\ PollOK(t) /\ Frame(t, s) /\ t.active = s.active \cup {ev}
            /\ t.disabled = s.disabled
  <1> DEFINE t == PollAdd(s, ev)
             n == Len(s.list) + 1
             fd == FdOf(s, ev)
             p == Pair(ev)
             q == s.index[p]
  <1>1. s.index[ev] = NoIndex /\ ~Set(s, ev) /\ s.list \in Seq(Polled) /\ n \in Nat /\ s.active \subseteq Events
    BY DEF PollOK, Set, Waiters
  <1>2. fd \in Fds /\ ev[2] \in Sides /\ p \in Events /\ p[1] = ev[1] /\ p[2] = Other(ev[2]) /\ p # ev
    BY OpenFd, EventIs
  <1>3. Set(s, p) <=> p \in s.active
    BY <1>1, <1>2 DEF PollOK, Set, NoIndex
  <1>4. CASE p \in s.active
    <2>1. /\ t.list = [s.list EXCEPT ![q].sides = @ \cup {ev[2]}] /\ t.index = [s.index EXCEPT ![ev] = q]
          /\ t.active = s.active \cup {ev} /\ t.method = s.method /\ t.fd = s.fd /\ t.instance = s.instance
          /\ t.ready = s.ready /\ t.disabled = s.disabled
          /\ t = [s EXCEPT !.active = t.active, !.list = t.list, !.index = t.index]
      BY <1>1, <1>3, <1>4 DEF PollAdd, Waiters
    <2> HIDE DEF t
    <2>2. q \in DOMAIN s.list /\ s.list[q].fd = FdOf(s, p) /\ s.list[q].sides = {side \in Sides : << p[1], side >> \in s.active}
      BY <1>2, <1>4 DEF PollOK
    <2>3. q \in Nat /\ FdOf(s, p) = fd
      BY <1>2 DEF FdOf, Waiters
    <2>4. /\ t.list \in Seq(Polled) /\ DOMAIN t.list = DOMAIN s.list
          /\ \A i \in DOMAIN s.list : t.list[i].fd = s.list[i].fd /\ (i # q => t.list[i].sides = s.list[i].sides)
          /\ t.list[q].sides = s.list[q].sides \cup {ev[2]}
      <3>1. PICK r : r = [s.list[q] EXCEPT !.sides = @ \cup {ev[2]}]
        OBVIOUS
      <3>2. s.list[q] \in Polled
        BY <1>1, <2>2
      <3>3. r \in Polled /\ r.fd = s.list[q].fd /\ r.sides = s.list[q].sides \cup {ev[2]}
        BY <1>2, <3>1, <3>2 DEF Polled
      <3>4. t.list = [s.list EXCEPT ![q] = r]
        BY <2>1, <3>1
      <3> QED
        BY <1>1, <2>2, <3>3, <3>4
    <2>5. \A f \in Events : t.index[f] = IF f = ev THEN q ELSE s.index[f]
      BY <2>1 DEF Waiters
    <2>6. t \in Waiters
      <3>1. t.index \in [Events -> Nat] /\ t.active \in SUBSET Events
        BY <2>1, <2>3 DEF Waiters
      <3>2. t.list \in Lists
        BY <2>4 DEF Lists
      <3> QED
        BY <2>1, <3>1, <3>2 DEF Waiters
    <2>20. \A g \in s.active : s.index[g] = q <=> g[1] = ev[1]
      BY <1>2, <1>4, PollShare
    <2>7. \A i \in DOMAIN t.list : \E f \in t.active : t.index[f] = i
      <3> TAKE i \in DOMAIN t.list
      <3>1. PICK f \in s.active : s.index[f] = i
        BY <2>4 DEF PollOK
      <3> QED
        BY <1>1, <2>1, <2>5, <3>1
    <2>8. \A f \in Events :
            IF f \in t.active
            THEN /\ t.index[f] \in DOMAIN t.list /\ t.list[t.index[f]].fd = FdOf(t, f)
                 /\ t.list[t.index[f]].sides = {side \in Sides : << f[1], side >> \in t.active}
            ELSE t.index[f] = NoIndex
      <3> TAKE f \in Events
      <3>1. CASE f \notin t.active
        BY <2>1, <2>5, <3>1, ZenonT(60) DEF PollOK
      <3>2. CASE f[1] = ev[1] /\ f \in t.active
        <4>1. t.index[f] = q
          BY <1>1, <2>1, <2>5, <2>20, <3>2
        <4>2. FdOf(t, f) = fd
          BY <2>1, <3>2 DEF FdOf
        <4>3. {side \in Sides : << f[1], side >> \in t.active} = {side \in Sides : << ev[1], side >> \in s.active} \cup {ev[2]}
          <5>1. \A side \in Sides : << ev[1], side >> = ev <=> side = ev[2]
            BY <1>2, EventIs
          <5>2. \A side \in Sides : << f[1], side >> \in t.active <=> << ev[1], side >> \in s.active \/ side = ev[2]
            BY <2>1, <3>2, <5>1
          <5> QED
            BY <1>2, <5>2
        <4> QED
          BY <1>2, <2>2, <2>3, <2>4, <3>2, <4>1, <4>2, <4>3
      <3>3. CASE f[1] # ev[1] /\ f \in t.active
        <4>1. f \in s.active /\ f # ev /\ t.index[f] = s.index[f] /\ s.index[f] # q
          BY <2>1, <2>5, <2>20, <3>3
        <4>2. s.index[f] \in DOMAIN s.list /\ s.list[s.index[f]].fd = FdOf(s, f)
              /\ s.list[s.index[f]].sides = {side \in Sides : << f[1], side >> \in s.active}
          BY <4>1 DEF PollOK
        <4>3. FdOf(t, f) = FdOf(s, f)
          BY <2>1 DEF FdOf
        <4>4. \A side \in Sides : << f[1], side >> \in t.active <=> << f[1], side >> \in s.active
          <5> TAKE side \in Sides
          <5>1. << f[1], side >>[1] = f[1]
            OBVIOUS
          <5>2. << f[1], side >> # ev
            BY <3>3, <5>1
          <5>3. t.active = s.active \cup {ev}
            BY <2>1
          <5> QED
            BY <5>2, <5>3
        <4> QED
          BY <2>4, <3>3, <4>1, <4>2, <4>3, <4>4
      <3> QED
        BY <3>1, <3>2, <3>3
    <2>9. \A i, j \in DOMAIN t.list : t.list[i].fd = t.list[j].fd => i = j
      BY <2>4 DEF PollOK
    <2>10. PollOK(t)
      BY <2>4, <2>7, <2>8, <2>9 DEF PollOK
    <2> QED
      BY <2>1, <2>6, <2>10 DEF Frame, t
  <1>5. CASE p \notin s.active
    <2> DEFINE new == [fd |-> fd, sides |-> {ev[2]}]
    <2>1. /\ t.list = Append(s.list, new) /\ t.index = [s.index EXCEPT ![ev] = n]
          /\ t.active = s.active \cup {ev} /\ t.method = s.method /\ t.fd = s.fd /\ t.instance = s.instance
          /\ t.ready = s.ready /\ t.disabled = s.disabled
          /\ t = [s EXCEPT !.active = t.active, !.list = t.list, !.index = t.index]
      BY <1>1, <1>3, <1>5 DEF PollAdd, Waiters
    <2> HIDE DEF t
    <2>2. new \in Polled /\ new.fd = fd /\ new.sides = {ev[2]}
      BY <1>2 DEF Polled
    <2> HIDE DEF new
    <2>3. /\ t.list \in Seq(Polled) /\ DOMAIN t.list = 1 .. n /\ t.list[n] = new
          /\ \A j \in DOMAIN s.list : t.list[j] = s.list[j] /\ j \in DOMAIN t.list /\ j # n
          /\ \A j \in DOMAIN t.list : j = n \/ j \in DOMAIN s.list
          /\ n \in DOMAIN t.list
      BY <1>1, <2>1, <2>2, AppendIs
    <2>4. \A f \in Events : t.index[f] = IF f = ev THEN n ELSE s.index[f]
      BY <2>1 DEF Waiters
    <2>5. t \in Waiters
      <3>1. t.index \in [Events -> Nat] /\ t.list \in Lists /\ t.active \in SUBSET Events
        BY <1>1, <2>1, <2>3 DEF Waiters, Lists
      <3> QED
        BY <2>1, <3>1 DEF Waiters
    <2>6. \A i \in DOMAIN s.list : \E f \in s.active : s.index[f] = i /\ s.list[i].fd = FdOf(s, f) /\ f[1] # ev[1]
      <3> TAKE i \in DOMAIN s.list
      <3>1. PICK f \in s.active : s.index[f] = i
        BY DEF PollOK
      <3>2. f \in Events /\ s.list[i].fd = FdOf(s, f)
        BY <1>1, <3>1 DEF PollOK
      <3>3. f # ev /\ f # p
        BY <1>5
      <3> QED
        BY <1>5, <3>1, <3>2, <3>3, EventIs
    <2>7. \A i \in DOMAIN t.list : \E f \in t.active : t.index[f] = i
      <3>1. \A i \in DOMAIN s.list : \E f \in t.active : t.index[f] = i
        BY <1>1, <2>1, <2>4, <2>6
      <3>2. \E f \in t.active : t.index[f] = n
        BY <2>1, <2>4
      <3> QED
        BY <2>3, <3>1, <3>2
    <2>8. \A f \in Events :
            IF f \in t.active
            THEN /\ t.index[f] \in DOMAIN t.list /\ t.list[t.index[f]].fd = FdOf(t, f)
                 /\ t.list[t.index[f]].sides = {side \in Sides : << f[1], side >> \in t.active}
            ELSE t.index[f] = NoIndex
      <3> TAKE f \in Events
      <3>0. FdOf(t, f) = FdOf(s, f)
        BY <2>1 DEF FdOf
      <3>1. CASE f \notin t.active
        BY <2>1, <2>4, <3>1 DEF PollOK
      <3>2. CASE f = ev
        <4>1. \A side \in Sides : << ev[1], side >> \in t.active <=> side = ev[2]
          <5> TAKE side \in Sides
          <5>1. << ev[1], side >> \in Events /\ << ev[1], side >>[1] = ev[1] /\ << ev[1], side >>[2] = side
            BY EventIs
          <5>2. << ev[1], side >> = ev \/ << ev[1], side >> = p
            BY <5>1, EventIs
          <5>3. << ev[1], side >> = p => side # ev[2]
            BY <1>2, <5>1, EventIs
          <5> QED
            BY <1>2, <1>5, <2>1, <5>1, <5>2, <5>3
        <4>2. {side \in Sides : << ev[1], side >> \in t.active} = {ev[2]}
          BY <1>2, <4>1
        <4> QED
          BY <2>1, <2>2, <2>3, <2>4, <3>0, <3>2, <4>2
      <3>3. CASE f # ev /\ f \in t.active
        <4>1. f \in s.active /\ t.index[f] = s.index[f] /\ f[1] # ev[1]
          BY <1>5, <2>1, <2>4, <3>3, EventIs
        <4>2. s.index[f] \in DOMAIN s.list /\ s.list[s.index[f]].fd = FdOf(s, f)
              /\ s.list[s.index[f]].sides = {side \in Sides : << f[1], side >> \in s.active}
          BY <4>1 DEF PollOK
        <4>4. \A side \in Sides : << f[1], side >> \in t.active <=> << f[1], side >> \in s.active
          BY <2>1, <4>1, EventIs
        <4> QED
          BY <2>3, <3>0, <3>3, <4>1, <4>2, <4>4
      <3> QED
        BY <3>1, <3>2, <3>3
    <2>9. \A i, j \in DOMAIN t.list : t.list[i].fd = t.list[j].fd => i = j
      <3>1. \A i \in DOMAIN s.list : t.list[i].fd # fd
        <4> TAKE i \in DOMAIN s.list
        <4>1. PICK f \in s.active : s.index[f] = i /\ s.list[i].fd = FdOf(s, f) /\ f[1] # ev[1]
          BY <2>6
        <4>2. FdOf(s, f) # fd
          BY <1>1, <4>1, SameFd
        <4> QED
          BY <2>3, <4>1, <4>2
      <3>2. \A i, j \in DOMAIN s.list : t.list[i].fd = t.list[j].fd => i = j
        BY <2>3 DEF PollOK
      <3> QED
        BY <2>2, <2>3, <3>1, <3>2
    <2>10. PollOK(t)
      BY <2>3, <2>7, <2>8, <2>9 DEF PollOK
    <2> QED
      BY <2>1, <2>5, <2>10 DEF Frame, t
  <1> QED
    BY <1>4, <1>5

(* ngx_poll_del_event(): the last entry takes the place of one that has no *)
(* event left.                                                             *)
LEMMA PollDelOK ==
  ASSUME NEW s \in Waiters, ConnsOK(s), PollOK(s), NEW ev \in s.active
  PROVE  LET t == PollDel(s, ev)
         IN t \in Waiters /\ PollOK(t) /\ Frame(t, s) /\ t.active = s.active \ {ev}
            /\ t.disabled = s.disabled
  <1> DEFINE t == PollDel(s, ev)
             n == Len(s.list)
             i == s.index[ev]
             p == Pair(ev)
             fd == FdOf(s, ev)
  <1>1. /\ ev \in Events /\ s.list \in Seq(Polled) /\ n \in Nat /\ DOMAIN s.list = 1 .. n /\ s.active \subseteq Events
        /\ Open(s, ev[1]) /\ \A f \in s.active : Open(s, f[1])
    BY DEF PollOK, Waiters, ConnsOK
  <1>2. /\ i \in DOMAIN s.list /\ s.list[i].fd = fd /\ i \in Nat /\ i # NoIndex /\ n \in DOMAIN s.list
        /\ s.list[i].sides = {side \in Sides : << ev[1], side >> \in s.active}
    <2>1. /\ i \in DOMAIN s.list /\ s.list[i].fd = fd
          /\ s.list[i].sides = {side \in Sides : << ev[1], side >> \in s.active}
      BY <1>1 DEF PollOK
    <2>2. \A k \in 1 .. n : k \in Nat /\ k # 0 /\ n \in 1 .. n
      BY <1>1
    <2> QED
      BY <1>1, <2>1, <2>2 DEF NoIndex
  <1>3. p \in Events /\ p[1] = ev[1] /\ p[2] = Other(ev[2]) /\ p # ev /\ ev[2] \in Sides
    BY <1>1, EventIs
  <1>4. Set(s, ev) /\ (Set(s, p) <=> p \in s.active)
    <2>1. p \in s.active => s.index[p] \in 1 .. n
      BY <1>1, <1>3 DEF PollOK
    <2>2. p \notin s.active => s.index[p] = NoIndex
      BY <1>3 DEF PollOK
    <2>3. \A k \in 1 .. n : k # 0
      BY <1>1
    <2> QED
      BY <1>2, <2>1, <2>2, <2>3 DEF Set, NoIndex
  <1>5. \A g \in s.active : s.index[g] = i <=> g[1] = ev[1]
    BY PollShare
  <1>6. CASE p \in s.active
    <2>1. /\ t.list = [s.list EXCEPT ![i].sides = @ \ {ev[2]}] /\ t.index = [s.index EXCEPT ![ev] = NoIndex]
          /\ t.active = s.active \ {ev} /\ t.method = s.method /\ t.fd = s.fd /\ t.instance = s.instance
          /\ t.ready = s.ready /\ t.disabled = s.disabled
          /\ t = [s EXCEPT !.active = t.active, !.list = t.list, !.index = t.index]
      BY <1>4, <1>6 DEF PollDel, Waiters
    <2> HIDE DEF t
    <2>2. /\ t.list \in Seq(Polled) /\ DOMAIN t.list = DOMAIN s.list
          /\ \A j \in DOMAIN s.list : t.list[j].fd = s.list[j].fd /\ (j # i => t.list[j].sides = s.list[j].sides)
          /\ t.list[i].sides = s.list[i].sides \ {ev[2]}
      <3>1. PICK r : r = [s.list[i] EXCEPT !.sides = @ \ {ev[2]}]
        OBVIOUS
      <3>2. s.list[i] \in Polled
        BY <1>1, <1>2
      <3>3. r \in Polled /\ r.fd = s.list[i].fd /\ r.sides = s.list[i].sides \ {ev[2]}
        BY <3>1, <3>2 DEF Polled
      <3>4. t.list = [s.list EXCEPT ![i] = r]
        BY <2>1, <3>1
      <3> QED
        BY <1>1, <1>2, <3>3, <3>4
    <2>3. \A f \in Events : t.index[f] = IF f = ev THEN NoIndex ELSE s.index[f]
      BY <2>1 DEF Waiters
    <2>4. t \in Waiters
      <3>1. t.index \in [Events -> Nat] /\ t.list \in Lists /\ t.active \in SUBSET Events
        <4>1. t.index \in [Events -> Nat]
          BY <2>1 DEF Waiters, NoIndex
        <4>2. t.list \in Lists
          BY <2>2, ZenonT(20) DEF Lists
        <4>3. t.active \in SUBSET Events
          BY <2>1 DEF Waiters
        <4> QED
          BY <4>1, <4>2, <4>3
      <3> QED
        BY <2>1, <3>1 DEF Waiters
    <2>5. \A j \in DOMAIN t.list : \E f \in t.active : t.index[f] = j
      <3> TAKE j \in DOMAIN t.list
      <3>1. PICK f \in s.active : s.index[f] = j
        BY <2>2 DEF PollOK
      <3>2. CASE f # ev
        BY <1>1, <2>1, <2>3, <3>1, <3>2
      <3>3. CASE f = ev
        <4>1. s.index[p] = j
          BY <1>3, <1>5, <1>6, <3>1, <3>3
        <4> QED
          BY <1>3, <1>6, <2>1, <2>3, <4>1
      <3> QED
        BY <3>2, <3>3
    <2>6. \A f \in Events :
            IF f \in t.active
            THEN /\ t.index[f] \in DOMAIN t.list /\ t.list[t.index[f]].fd = FdOf(t, f)
                 /\ t.list[t.index[f]].sides = {side \in Sides : << f[1], side >> \in t.active}
            ELSE t.index[f] = NoIndex
      <3> TAKE f \in Events
      <3>1. CASE f \notin t.active
        <4>1. f = ev \/ f \notin s.active
          <5>1. t.active = s.active \ {ev}
            BY <2>1
          <5> QED
            BY <3>1, <5>1
        <4>2. f \notin s.active => s.index[f] = NoIndex
          BY DEF PollOK
        <4>3. t.index[f] = IF f = ev THEN NoIndex ELSE s.index[f]
          BY <2>3
        <4> QED
          BY <3>1, <4>1, <4>2, <4>3
      <3>2. CASE f \in t.active
        <4>1. f \in s.active /\ f # ev /\ t.index[f] = s.index[f] /\ FdOf(t, f) = FdOf(s, f)
          BY <2>1, <2>3, <3>2 DEF FdOf
        <4>2. s.index[f] \in DOMAIN s.list /\ s.list[s.index[f]].fd = FdOf(s, f)
              /\ s.list[s.index[f]].sides = {side \in Sides : << f[1], side >> \in s.active}
          BY <4>1 DEF PollOK
        <4>3. CASE f[1] = ev[1]
          <5>1. \A side \in Sides : << f[1], side >> = ev <=> side = ev[2]
            BY <1>1, <4>3, EventIs
          <5>2. \A side \in Sides : << f[1], side >> \in t.active <=> << f[1], side >> \in s.active /\ side # ev[2]
            BY <2>1, <5>1
          <5>3. s.index[f] = i
            BY <1>5, <4>1, <4>3
          <5> QED
            BY <2>2, <3>2, <4>1, <4>2, <5>2, <5>3
        <4>4. CASE f[1] # ev[1]
          <5>1. \A side \in Sides : << f[1], side >> \in t.active <=> << f[1], side >> \in s.active
            <6> TAKE side \in Sides
            <6>1. << f[1], side >>[1] = f[1]
              OBVIOUS
            <6>2. << f[1], side >> # ev
              BY <4>4, <6>1
            <6>3. t.active = s.active \ {ev}
              BY <2>1
            <6> QED
              BY <6>2, <6>3
          <5>2. s.index[f] # i
            BY <1>5, <4>1, <4>4
          <5> QED
            BY <2>2, <3>2, <4>1, <4>2, <5>1, <5>2
        <4> QED
          BY <4>3, <4>4
      <3> QED
        BY <3>1, <3>2
    <2>7. \A j, k \in DOMAIN t.list : t.list[j].fd = t.list[k].fd => j = k
      BY <2>2 DEF PollOK
    <2>8. PollOK(t)
      BY <2>2, <2>5, <2>6, <2>7 DEF PollOK
    <2> QED
      BY <2>1, <2>4, <2>8 DEF Frame, t
  <1>7. CASE p \notin s.active
    <2>1. PICK last \in s.active : s.index[last] = n
      BY <1>2 DEF PollOK
    <2>2. last \in Events /\ s.list[n].fd = FdOf(s, last) /\ Open(s, last[1]) /\ last[1] \in Conns
      BY <1>1, <2>1, EventIs DEF PollOK
    <2>3. Last(s.list) = s.list[n]
      BY DEF Last
    <2>4. Filed(s, Last(s.list).fd) = last[1]
      <3>1. \A c \in Conns : s.fd[c] = s.list[n].fd <=> c = last[1]
        BY <2>2 DEF ConnsOK, FdOf
      <3>2. last[1] = CHOOSE c \in Conns : s.fd[c] = s.list[n].fd
        BY <2>2, <3>1
      <3> QED
        BY <2>3, <3>2 DEF Filed
    <2>5. \A g \in Events : s.index[g] = n => g \in s.active /\ g[1] = last[1]
      <3> TAKE g \in Events
      <3>1. n # NoIndex
        BY <1>1, <1>2 DEF NoIndex
      <3>2. s.index[g] = n => g \in s.active
        BY <3>1 DEF PollOK
      <3> QED
        BY <2>1, <3>2, PollShare
    <2> DEFINE u == [s EXCEPT !.active = s.active \ {ev}, !.index[ev] = NoIndex]
    <2>6. u.index = [s.index EXCEPT ![ev] = NoIndex] /\ DOMAIN s.index = Events
      BY DEF Waiters
    <2>7. t = [u EXCEPT !.list = Filled(s.list, i),
                        !.index = [e \in Events |-> IF e[1] = last[1] /\ u.index[e] = n THEN i ELSE u.index[e]]]
      BY <1>4, <1>7, <2>4, <2>6 DEF PollDel, Waiters
    <2>8. /\ t.list = Filled(s.list, i)
          /\ t.index = [e \in Events |-> IF e[1] = last[1] /\ u.index[e] = n THEN i ELSE u.index[e]]
          /\ t.active = s.active \ {ev} /\ t.method = s.method /\ t.fd = s.fd /\ t.instance = s.instance
          /\ t.ready = s.ready /\ t.disabled = s.disabled
          /\ t = [s EXCEPT !.active = t.active, !.list = t.list, !.index = t.index]
      BY <2>7 DEF Waiters
    <2>9. \A f \in Events : t.index[f] = IF f = ev THEN NoIndex ELSE IF s.index[f] = n THEN i ELSE s.index[f]
      <3> TAKE f \in Events
      <3>1. n # NoIndex
        BY <1>1, <1>2 DEF NoIndex
      <3>2. u.index[f] = IF f = ev THEN NoIndex ELSE s.index[f]
        BY <2>6
      <3> HIDE DEF u
      <3> QED
        <4>1. PICK x : x = u.index[f]
          OBVIOUS
        <4>2. t.index[f] = IF f[1] = last[1] /\ x = n THEN i ELSE x
          BY <2>8, <4>1
        <4> QED
          BY <2>5, <3>1, <3>2, <4>1, <4>2
    <2> HIDE DEF t, u
    <2>10. /\ t.list \in Seq(Polled) /\ DOMAIN t.list = 1 .. n - 1
           /\ \A j \in 1 .. n - 1 : t.list[j] = IF j = i THEN s.list[n] ELSE s.list[j]
      <3>1. /\ Filled(s.list, i) \in Seq(Polled) /\ DOMAIN Filled(s.list, i) = 1 .. n - 1
            /\ \A j \in 1 .. n - 1 : Filled(s.list, i)[j] = IF j = i THEN s.list[n] ELSE s.list[j]
        BY <1>1, <1>2, FilledIs, ZenonT(60)
      <3> QED
        BY <2>8, <3>1
    <2>11. t \in Waiters
      <3>1. \A f \in Events : t.index[f] \in Nat
        BY <1>2, <2>9 DEF Waiters, NoIndex
      <3>2. t.index \in [Events -> Nat]
        BY <2>8, <3>1
      <3>3. t.list \in Lists /\ t.active \in SUBSET Events
        BY <1>1, <2>8, <2>10 DEF Lists
      <3> QED
        BY <2>8, <3>2, <3>3 DEF Waiters
    <2>12. \A g \in s.active : g # ev => s.index[g] # i /\ g[1] # ev[1]
      <3> TAKE g \in s.active
      <3>1. g[1] = ev[1] => g = ev \/ g = p
        BY <1>1, EventIs
      <3> QED
        BY <1>5, <1>7, <3>1
    <2>13. \A k \in 1 .. n : k # n => k \in 1 .. n - 1
      BY <1>1
    <2>14. \A k \in 1 .. n - 1 : k \in 1 .. n /\ k # n
      BY <1>1
    <2>15. \A j \in DOMAIN t.list : \E f \in t.active : t.index[f] = j
      <3> TAKE j \in DOMAIN t.list
      <3>1. j \in DOMAIN s.list /\ j # n
        BY <1>1, <2>10, <2>14
      <3>2. CASE j = i
        <4>1. last # ev
          BY <2>1, <3>1, <3>2
        <4> QED
          BY <2>1, <2>2, <2>8, <2>9, <3>2, <4>1
      <3>3. CASE j # i
        <4>1. PICK f \in s.active : s.index[f] = j
          BY <3>1 DEF PollOK
        <4> QED
          BY <1>1, <2>8, <2>9, <3>1, <3>3, <4>1
      <3> QED
        BY <3>2, <3>3
    <2>16. \A f \in Events :
            IF f \in t.active
            THEN /\ t.index[f] \in DOMAIN t.list /\ t.list[t.index[f]].fd = FdOf(t, f)
                 /\ t.list[t.index[f]].sides = {side \in Sides : << f[1], side >> \in t.active}
            ELSE t.index[f] = NoIndex
      <3> TAKE f \in Events
      <3>1. CASE f = ev
        BY <2>8, <2>9, <3>1
      <3>2. CASE f # ev /\ f \notin s.active
        <4>1. s.index[f] = NoIndex /\ n # NoIndex
          BY <1>1, <1>2, <3>2 DEF PollOK, NoIndex
        <4> QED
          BY <2>8, <2>9, <3>2, <4>1
      <3>3. CASE f # ev /\ f \in s.active
        <4>1. /\ s.index[f] \in DOMAIN s.list /\ s.list[s.index[f]].fd = FdOf(s, f)
              /\ s.list[s.index[f]].sides = {side \in Sides : << f[1], side >> \in s.active}
          BY <3>3 DEF PollOK
        <4>2. FdOf(t, f) = FdOf(s, f) /\ f \in t.active /\ s.index[f] # i /\ f[1] # ev[1]
          BY <2>8, <2>12, <3>3 DEF FdOf
        <4>3. \A side \in Sides : << f[1], side >> \in t.active <=> << f[1], side >> \in s.active
          <5>1. \A side \in Sides : << f[1], side >> # ev
            BY <4>2, EventIs
          <5> QED
            BY <2>8, <5>1
        <4>4. CASE s.index[f] = n
          <5>1. i \in 1 .. n - 1 /\ t.index[f] = i
            BY <1>1, <1>2, <2>9, <2>13, <3>3, <4>2, <4>4
          <5>2. t.list[i] = s.list[n]
            BY <2>10, <5>1
          <5> QED
            BY <2>10, <4>1, <4>2, <4>3, <4>4, <5>1, <5>2
        <4>5. CASE s.index[f] # n
          <5>1. s.index[f] \in 1 .. n - 1 /\ t.index[f] = s.index[f]
            BY <1>1, <2>9, <2>13, <3>3, <4>1, <4>5
          <5>2. t.list[s.index[f]] = s.list[s.index[f]]
            BY <2>10, <4>2, <5>1
          <5> QED
            BY <2>10, <4>1, <4>2, <4>3, <5>1, <5>2
        <4> QED
          BY <4>4, <4>5
      <3> QED
        BY <3>1, <3>2, <3>3
    <2>17. \A j, k \in DOMAIN t.list : t.list[j].fd = t.list[k].fd => j = k
      <3> TAKE j, k \in DOMAIN t.list
      <3>1. \A a, b \in DOMAIN s.list : s.list[a].fd = s.list[b].fd => a = b
        BY DEF PollOK
      <3>2. j \in DOMAIN s.list /\ k \in DOMAIN s.list /\ j # n /\ k # n
        BY <1>1, <2>10, <2>14
      <3>3. t.list[j] = (IF j = i THEN s.list[n] ELSE s.list[j]) /\ t.list[k] = IF k = i THEN s.list[n] ELSE s.list[k]
        BY <2>10
      <3> QED
        BY <1>2, <3>1, <3>2, <3>3
    <2>18. PollOK(t)
      BY <2>10, <2>15, <2>16, <2>17 DEF PollOK
    <2> QED
      BY <2>8, <2>11, <2>18 DEF Frame, t
  <1> QED
    BY <1>6, <1>7

-----------------------------------------------------------------------------
(* /dev/poll. *)

DevpollTyped(s) == s.list \in Seq(DevpollChanges) /\ s.kern \subseteq Fds \X Sides

(* What is in the set of the driver, told of one pair. *)
LEMMA DevpollHas ==
  ASSUME NEW s, NEW r
  PROVE  r \in DevpollKern(s) <=>
           \/ r \in s.kern /\ ~RemovedFrom(s.list, r[1], 1)
           \/ \E i \in DOMAIN s.list : /\ s.list[i].what # "remove" /\ ~RemovedFrom(s.list, s.list[i].fd, i + 1)
                                       /\ r = << s.list[i].fd, s.list[i].what >>
  BY DEF DevpollKern

(* A removal more at the end of the list. *)
LEMMA RemovedAppend ==
  ASSUME NEW list \in Seq(DevpollChanges), NEW ch \in DevpollChanges, NEW fd \in Fds
  PROVE  /\ \A first \in 1 .. Len(list) + 1 :
              RemovedFrom(Append(list, ch), fd, first)
                <=> RemovedFrom(list, fd, first) \/ (ch.fd = fd /\ ch.what = "remove")
         /\ ~RemovedFrom(Append(list, ch), fd, Len(list) + 2)
  <1>1. /\ Len(list) \in Nat /\ Len(Append(list, ch)) = Len(list) + 1 /\ Append(list, ch)[Len(list) + 1] = ch
        /\ \A j \in DOMAIN list : Append(list, ch)[j] = list[j]
        /\ DOMAIN list = 1 .. Len(list)
    BY AppendIs
  <1>2. ch = [fd |-> fd, what |-> "remove"] <=> ch.fd = fd /\ ch.what = "remove"
    BY DEF DevpollChanges
  <1>3. \A n \in Nat : \A first \in 1 .. n + 1 : /\ \A i \in first .. n + 1 : i = n + 1 \/ (i \in first .. n /\ i \in 1 .. n)
                                                 /\ \A i \in first .. n : i \in first .. n + 1 /\ i \in 1 .. n
                                                 /\ n + 1 \in first .. n + 1
    OBVIOUS
  <1>4. \A n \in Nat : n + 2 .. n + 1 = {}
    OBVIOUS
  <1>5. PICK n \in Nat : n = Len(list)
    BY <1>1
  <1>6. ASSUME NEW first \in 1 .. n + 1
        PROVE  RemovedFrom(Append(list, ch), fd, first)
                 <=> RemovedFrom(list, fd, first) \/ (ch.fd = fd /\ ch.what = "remove")
    <2>1. RemovedFrom(list, fd, first) <=> \E i \in first .. n : list[i] = [fd |-> fd, what |-> "remove"]
      BY <1>5 DEF RemovedFrom
    <2>2. RemovedFrom(Append(list, ch), fd, first)
            <=> \E i \in first .. n + 1 : Append(list, ch)[i] = [fd |-> fd, what |-> "remove"]
      BY <1>1, <1>5 DEF RemovedFrom
    <2>3. \A i \in first .. n : Append(list, ch)[i] = list[i]
      BY <1>1, <1>3, <1>5
    <2>4. Append(list, ch)[n + 1] = ch
      BY <1>1, <1>5
    <2> QED
      BY <1>2, <1>3, <2>1, <2>2, <2>3, <2>4
  <1>7. ~RemovedFrom(Append(list, ch), fd, n + 2)
    BY <1>1, <1>4, <1>5 DEF RemovedFrom
  <1> QED
    BY <1>5, <1>6, <1>7

(* What the driver is told last. *)
LEMMA DevpollAppend ==
  ASSUME NEW s, DevpollTyped(s), NEW t, NEW ch \in DevpollChanges, t.kern = s.kern, t.list = Append(s.list, ch)
  PROVE  DevpollTyped(t)
         /\ DevpollKern(t) = IF ch.what = "remove" THEN {r \in DevpollKern(s) : r[1] # ch.fd}
                             ELSE DevpollKern(s) \cup {<< ch.fd, ch.what >>}
  <1> DEFINE n == Len(s.list)
  <1>1. s.list \in Seq(DevpollChanges) /\ s.kern \subseteq Fds \X Sides
    BY DEF DevpollTyped
  <1>2. /\ t.list \in Seq(DevpollChanges) /\ DOMAIN t.list = 1 .. n + 1 /\ DOMAIN s.list = 1 .. n /\ n \in Nat
        /\ t.list[n + 1] = ch /\ \A j \in DOMAIN s.list : t.list[j] = s.list[j]
    BY <1>1, AppendIs
  <1>3. \A fd \in Fds, first \in 1 .. n + 1 :
          RemovedFrom(t.list, fd, first) <=> RemovedFrom(s.list, fd, first) \/ (ch.fd = fd /\ ch.what = "remove")
    BY <1>1, RemovedAppend
  <1>4. \A fd \in Fds : ~RemovedFrom(t.list, fd, n + 2)
    BY <1>1, RemovedAppend
  <1>5. /\ ch.fd \in Fds /\ \A i \in DOMAIN s.list : s.list[i].fd \in Fds
        /\ \A r \in s.kern : r[1] \in Fds
    <2>1. \A i \in DOMAIN s.list : s.list[i] \in DevpollChanges
      BY <1>1
    <2>2. \A c \in DevpollChanges : c.fd \in Fds
      BY DEF DevpollChanges
    <2>3. \A r \in s.kern : r[1] \in Fds
      BY <1>1
    <2> QED
      BY <2>1, <2>2, <2>3
  <1>6. /\ 1 \in 1 .. n + 1 /\ \A i \in DOMAIN s.list : i + 1 \in 1 .. n + 1 /\ i \in DOMAIN t.list /\ i \in Nat
        /\ \A i \in DOMAIN t.list : i = n + 1 \/ i \in DOMAIN s.list
        /\ n + 1 \in DOMAIN t.list /\ (n + 1) + 1 = n + 2
    BY <1>2
  <1> DEFINE Old(r) == \E i \in DOMAIN s.list : /\ s.list[i].what # "remove" /\ ~RemovedFrom(s.list, s.list[i].fd, i + 1)
                                                /\ r = << s.list[i].fd, s.list[i].what >>
             New(r) == \E i \in DOMAIN t.list : /\ t.list[i].what # "remove" /\ ~RemovedFrom(t.list, t.list[i].fd, i + 1)
                                                /\ r = << t.list[i].fd, t.list[i].what >>
  <1>7. \A r : r \in DevpollKern(s) <=> (r \in s.kern /\ ~RemovedFrom(s.list, r[1], 1)) \/ Old(r)
    BY DevpollHas
  <1>8. \A r : r \in DevpollKern(t) <=> (r \in s.kern /\ ~RemovedFrom(t.list, r[1], 1)) \/ New(r)
    BY DevpollHas
  <1>9. \A r \in s.kern : RemovedFrom(t.list, r[1], 1) <=> RemovedFrom(s.list, r[1], 1) \/ (ch.fd = r[1] /\ ch.what = "remove")
    BY <1>3, <1>5, <1>6
  <1>10. \A i \in DOMAIN s.list : RemovedFrom(t.list, s.list[i].fd, i + 1)
                                    <=> RemovedFrom(s.list, s.list[i].fd, i + 1) \/ (ch.fd = s.list[i].fd /\ ch.what = "remove")
    BY <1>3, <1>5, <1>6
  <1>11. \A r : New(r) <=> \/ ch.what # "remove" /\ r = << ch.fd, ch.what >>
                           \/ Old(r) /\ ~(ch.what = "remove" /\ r[1] = ch.fd)
    <2> TAKE r
    <2>1. New(r) <=> \/ \E i \in DOMAIN s.list : /\ t.list[i].what # "remove" /\ ~RemovedFrom(t.list, t.list[i].fd, i + 1)
                                                 /\ r = << t.list[i].fd, t.list[i].what >>
                     \/ /\ t.list[n + 1].what # "remove" /\ ~RemovedFrom(t.list, t.list[n + 1].fd, (n + 1) + 1)
                        /\ r = << t.list[n + 1].fd, t.list[n + 1].what >>
      BY <1>6
    <2>2. ~RemovedFrom(t.list, t.list[n + 1].fd, (n + 1) + 1)
      BY <1>2, <1>4, <1>5, <1>6
    <2>3. \A i \in DOMAIN s.list : (/\ t.list[i].what # "remove" /\ ~RemovedFrom(t.list, t.list[i].fd, i + 1)
                                    /\ r = << t.list[i].fd, t.list[i].what >>)
            <=> (/\ s.list[i].what # "remove" /\ ~RemovedFrom(s.list, s.list[i].fd, i + 1)
                 /\ r = << s.list[i].fd, s.list[i].what >> /\ ~(ch.what = "remove" /\ r[1] = ch.fd))
      BY <1>2, <1>10
    <2> QED
      BY <1>2, <2>1, <2>2, <2>3
  <1> HIDE DEF Old, New
  <1>12. CASE ch.what = "remove"
    <2>1. \A r : r \in DevpollKern(t) <=> r \in DevpollKern(s) /\ r[1] # ch.fd
      BY <1>7, <1>8, <1>9, <1>11, <1>12
    <2> QED
      BY <1>1, <1>2, <1>12, <2>1 DEF DevpollTyped
  <1>13. CASE ch.what # "remove"
    <2>1. \A r : r \in DevpollKern(t) <=> r \in DevpollKern(s) \/ r = << ch.fd, ch.what >>
      BY <1>7, <1>8, <1>9, <1>11, <1>13
    <2> QED
      BY <1>1, <1>2, <1>13, <2>1 DEF DevpollTyped
  <1> QED
    BY <1>12, <1>13

(* The set has descriptors and sides. *)
LEMMA DevpollKernType ==
  ASSUME NEW s, DevpollTyped(s)
  PROVE  DevpollKern(s) \subseteq Fds \X Sides
  <1>1. \A i \in DOMAIN s.list : s.list[i].fd \in Fds /\ (s.list[i].what # "remove" => s.list[i].what \in Sides)
    <2>1. \A i \in DOMAIN s.list : s.list[i] \in DevpollChanges
      BY DEF DevpollTyped
    <2>2. \A c \in DevpollChanges : c.fd \in Fds /\ (c.what # "remove" => c.what \in Sides)
      BY DEF DevpollChanges
    <2> QED
      BY <2>1, <2>2
  <1>2. s.kern \subseteq Fds \X Sides
    BY DEF DevpollTyped
  <1> SUFFICES ASSUME NEW r \in DevpollKern(s) PROVE r \in Fds \X Sides
    OBVIOUS
  <1> QED
    BY <1>1, <1>2, DevpollHas

(* Passing on the list leaves nothing to be done. *)
LEMMA DevpollFlushed ==
  ASSUME NEW s \in Waiters, DevpollTyped(s)
  PROVE  LET t == DevpollFlush(s)
         IN /\ t \in Waiters /\ DevpollTyped(t) /\ Frame(t, s) /\ t.active = s.active /\ t.disabled = s.disabled
            /\ t.kern = DevpollKern(s) /\ DevpollKern(t) = DevpollKern(s) /\ t.list = << >> /\ t.index = s.index
  <1> DEFINE t == DevpollFlush(s)
  <1>1. /\ t.kern = DevpollKern(s) /\ t.list = << >> /\ t.active = s.active /\ t.disabled = s.disabled /\ Frame(t, s)
        /\ t.index = s.index /\ t = [s EXCEPT !.kern = t.kern, !.list = t.list]
    BY DEF DevpollFlush, Waiters, Frame
  <1> HIDE DEF t
  <1>2. DevpollKern(s) \subseteq Fds \X Sides
    BY DevpollKernType
  <1>3. t.list \in Seq(DevpollChanges) /\ t.list \in Lists
    BY <1>1 DEF Lists
  <1>4. t \in Waiters
    BY <1>1, <1>2, <1>3 DEF Waiters
  <1>5. DOMAIN t.list = {} /\ \A fd : ~RemovedFrom(t.list, fd, 1)
    BY <1>1 DEF RemovedFrom
  <1>6. \A r : r \in DevpollKern(t) <=> r \in t.kern
    BY <1>5, DevpollHas
  <1> QED
    BY <1>1, <1>2, <1>3, <1>4, <1>6 DEF DevpollTyped, t

(* ngx_devpoll_set_event() *)
LEMMA DevpollSetIs ==
  ASSUME NEW s \in Waiters, DevpollTyped(s), NEW fd \in Fds, NEW what \in Sides \cup {"remove"}
  PROVE  LET t == DevpollSet(s, fd, what, FALSE)
         IN /\ t \in Waiters /\ DevpollTyped(t) /\ Frame(t, s) /\ t.active = s.active /\ t.disabled = s.disabled
            /\ t.index = s.index
            /\ DevpollKern(t) = IF what = "remove" THEN {r \in DevpollKern(s) : r[1] # fd}
                                ELSE DevpollKern(s) \cup {<< fd, what >>}
  <1> DEFINE Same(t) == Frame(t, s) /\ t.active = s.active /\ t.disabled = s.disabled /\ t.index = s.index
             ch == [fd |-> fd, what |-> what]
  <1>1. PICK t : t = IF Len(s.list) >= MaxChanges THEN DevpollFlush(s) ELSE s
    OBVIOUS
  <1>2. t \in Waiters /\ DevpollTyped(t) /\ Same(t) /\ DevpollKern(t) = DevpollKern(s)
    <2>1. CASE t = s
      BY <2>1 DEF Frame
    <2>2. CASE t = DevpollFlush(s)
      BY <2>2, DevpollFlushed
    <2> QED
      BY <1>1, <2>1, <2>2
  <1>3. PICK u : u = [t EXCEPT !.list = Append(@, ch)]
    OBVIOUS
  <1>4. ch \in DevpollChanges /\ ch.fd = fd /\ ch.what = what
    BY DEF DevpollChanges
  <1>5. u.list = Append(t.list, ch) /\ u.kern = t.kern /\ Same(u) /\ u = [t EXCEPT !.list = u.list]
    BY <1>2, <1>3 DEF Waiters, Frame
  <1>6. DevpollTyped(u) /\ DevpollKern(u) = IF what = "remove" THEN {r \in DevpollKern(s) : r[1] # fd}
                                            ELSE DevpollKern(s) \cup {<< fd, what >>}
    <2> HIDE DEF ch
    <2>1. DevpollTyped(t) /\ ch \in DevpollChanges /\ u.kern = t.kern /\ u.list = Append(t.list, ch)
      BY <1>2, <1>4, <1>5
    <2>2. DevpollTyped(u) /\ DevpollKern(u) = IF ch.what = "remove" THEN {r \in DevpollKern(t) : r[1] # ch.fd}
                                               ELSE DevpollKern(t) \cup {<< ch.fd, ch.what >>}
      BY <2>1, DevpollAppend
    <2> QED
      BY <1>2, <1>4, <2>2
  <1>7. u \in Waiters
    <2>1. u.list \in Lists
      BY <1>6 DEF DevpollTyped, Lists
    <2> QED
      BY <1>2, <1>5, <2>1 DEF Waiters
  <1>8. DevpollSet(s, fd, what, FALSE) = u
    BY <1>1, <1>3 DEF DevpollSet
  <1> QED
    BY <1>5, <1>6, <1>7, <1>8

(* A descriptor that is going to be closed is removed at once. *)
LEMMA DevpollSetClose ==
  ASSUME NEW s, NEW fd, NEW close \in BOOLEAN
  PROVE  DevpollSet(s, fd, "remove", close)
           = IF close THEN DevpollFlush(DevpollSet(s, fd, "remove", FALSE)) ELSE DevpollSet(s, fd, "remove", FALSE)
  BY DEF DevpollSet

(* The same without a close, told apart: an event that is added, and the   *)
(* removal.                                                                *)
DevpollPut(s, fd, what) == DevpollSet(s, fd, what, FALSE)

LEMMA DevpollSetSide ==
  ASSUME NEW s \in Waiters, DevpollTyped(s), NEW fd \in Fds, NEW what \in Sides,
         NEW t, t = DevpollPut(s, fd, what)
  PROVE  /\ t \in Waiters /\ DevpollTyped(t) /\ Frame(t, s) /\ t.active = s.active /\ t.disabled = s.disabled
         /\ DevpollKern(t) = DevpollKern(s) \cup {<< fd, what >>}
  <1>1. what \in Sides \cup {"remove"} /\ what # "remove"
    BY DEF Sides
  <1>2. LET x == DevpollSet(s, fd, what, FALSE)
        IN /\ x \in Waiters /\ DevpollTyped(x) /\ Frame(x, s) /\ x.active = s.active /\ x.disabled = s.disabled
           /\ x.index = s.index
           /\ DevpollKern(x) = IF what = "remove" THEN {r \in DevpollKern(s) : r[1] # fd}
                               ELSE DevpollKern(s) \cup {<< fd, what >>}
    BY <1>1, DevpollSetIs
  <1> QED
    BY <1>1, <1>2 DEF DevpollPut

LEMMA DevpollSetGone ==
  ASSUME NEW s \in Waiters, DevpollTyped(s), NEW fd \in Fds,
         NEW t, t = DevpollPut(s, fd, "remove")
  PROVE  /\ t \in Waiters /\ DevpollTyped(t) /\ Frame(t, s) /\ t.active = s.active /\ t.disabled = s.disabled
         /\ DevpollKern(t) = {r \in DevpollKern(s) : r[1] # fd}
  <1>1. "remove" \in Sides \cup {"remove"}
    OBVIOUS
  <1>2. LET x == DevpollSet(s, fd, "remove", FALSE)
        IN /\ x \in Waiters /\ DevpollTyped(x) /\ Frame(x, s) /\ x.active = s.active /\ x.disabled = s.disabled
           /\ x.index = s.index
           /\ DevpollKern(x) = IF "remove" = "remove" THEN {r \in DevpollKern(s) : r[1] # fd}
                               ELSE DevpollKern(s) \cup {<< fd, "remove" >>}
    BY <1>1, DevpollSetIs
  <1> QED
    BY <1>2 DEF DevpollPut

(* ngx_devpoll_add_event() *)
LEMMA DevpollAddOK ==
  ASSUME NEW s \in Waiters, ConnsOK(s), DevpollOK(s), NEW ev \in Events, ev \notin s.active, Open(s, ev[1])
  PROVE  LET t == DevpollAdd(s, ev)
         IN t \in Waiters /\ DevpollOK(t) /\ Frame(t, s) /\ t.active = s.active \cup {ev}
            /\ t.disabled = s.disabled
  <1>1. PICK u : u = [s EXCEPT !.active = @ \cup {ev}]
    OBVIOUS
  <1>2. u \in Waiters /\ Frame(u, s) /\ u.active = s.active \cup {ev} /\ u.disabled = s.disabled
        /\ u.kern = s.kern /\ u.list = s.list
    BY <1>1 DEF Waiters, Frame
  <1>3. DevpollTyped(u) /\ DevpollKern(u) = DevpollKern(s)
    BY <1>2 DEF DevpollTyped, DevpollKern, DevpollOK
  <1>4. FdOf(s, ev) \in Fds /\ ev[2] \in Sides /\ ev[2] # "remove"
    BY OpenFd, EventIs DEF Sides
  <1>5. PICK t : t = DevpollSet(u, FdOf(s, ev), ev[2], FALSE)
    OBVIOUS
  <1>6. /\ t \in Waiters /\ DevpollTyped(t) /\ Frame(t, u) /\ t.active = u.active /\ t.disabled = u.disabled
        /\ DevpollKern(t) = DevpollKern(u) \cup {<< FdOf(s, ev), ev[2] >>}
    <2>1. PICK x, fd : x = ev[2] /\ fd = FdOf(s, ev)
      OBVIOUS
    <2>2. fd \in Fds /\ x \in Sides /\ t = DevpollPut(u, fd, x)
      BY <1>4, <1>5, <2>1 DEF DevpollPut
    <2>3. u \in Waiters /\ DevpollTyped(u)
      BY <1>2, <1>3
    <2>4. /\ t \in Waiters /\ DevpollTyped(t) /\ Frame(t, u) /\ t.active = u.active /\ t.disabled = u.disabled
          /\ DevpollKern(t) = DevpollKern(u) \cup {<< fd, x >>}
      BY <2>2, <2>3, DevpollSetSide
    <2> QED
      BY <2>1, <2>4
  <1>7. t = DevpollAdd(s, ev)
    BY <1>1, <1>5 DEF DevpollAdd
  <1>8. Frame(t, s) /\ t.active = s.active \cup {ev} /\ t.disabled = s.disabled /\ t.fd = s.fd
    BY <1>2, <1>6 DEF Frame
  <1>9. Registered(t) = Registered(s) \cup {<< FdOf(s, ev), ev[2] >>}
    BY <1>6, <1>8, RegisteredAdd
  <1>10. DevpollOK(t)
    BY <1>3, <1>6, <1>9 DEF DevpollOK, DevpollTyped
  <1> QED
    BY <1>6, <1>7, <1>8, <1>10

(* What is registered for the descriptor of an event. *)
LEMMA RegisteredOf ==
  ASSUME NEW s \in Waiters, ConnsOK(s), NEW ev \in Events, Open(s, ev[1]), NEW r \in Registered(s), r[1] = FdOf(s, ev)
  PROVE  \/ ev \in s.active /\ r = << FdOf(s, ev), ev[2] >>
         \/ Pair(ev) \in s.active /\ r = << FdOf(s, ev), Other(ev[2]) >>
  <1>1. PICK f \in s.active : r = << FdOf(s, f), f[2] >>
    BY DEF Registered
  <1>2. f \in Events /\ FdOf(s, ev) = FdOf(s, f)
    BY <1>1 DEF Waiters
  <1>3. ev[1] = f[1]
    BY <1>2, SameFd
  <1>4. f = ev \/ f = Pair(ev)
    BY <1>2, <1>3, EventIs
  <1>5. Pair(ev)[2] = Other(ev[2])
    BY EventIs
  <1> QED
    BY <1>1, <1>2, <1>4, <1>5

(* ngx_devpoll_del_event(): a descriptor that is going to be closed is     *)
(* removed with both events.                                               *)
LEMMA DevpollDelOK ==
  ASSUME NEW s \in Waiters, ConnsOK(s), DevpollOK(s), NEW ev \in s.active, NEW close \in BOOLEAN
  PROVE  LET t == DevpollDel(s, ev, close)
         IN t \in Waiters /\ DevpollOK(t) /\ Frame(t, s) /\ t.disabled = s.disabled
            /\ t.active = IF close THEN s.active \ {ev, Pair(ev)} ELSE s.active \ {ev}
  <1> DEFINE fd == FdOf(s, ev)
             other == Other(ev[2])
             p == Pair(ev)
  <1>1. ev \in Events /\ Open(s, ev[1]) /\ s.active \subseteq Events
    BY DEF ConnsOK, Waiters
  <1>2. fd \in Fds /\ ev[2] \in Sides /\ other \in Sides /\ other # ev[2] /\ other # "remove" /\ p[2] = other
        /\ p \in Events /\ p[1] = ev[1]
    BY <1>1, OpenFd, EventIs DEF Sides, Other
  <1>3. DevpollTyped(s) /\ DevpollKern(s) = Registered(s)
    BY DEF DevpollOK, DevpollTyped
  <1>4. PICK t : t = DevpollSet(s, fd, "remove", close)
    OBVIOUS
  <1>5. /\ t \in Waiters /\ DevpollTyped(t) /\ Frame(t, s) /\ t.active = s.active /\ t.disabled = s.disabled
        /\ DevpollKern(t) = {r \in Registered(s) : r[1] # fd}
    <2>1. PICK u : u = DevpollSet(s, fd, "remove", FALSE)
      OBVIOUS
    <2>2. u = DevpollPut(s, fd, "remove")
      BY <2>1 DEF DevpollPut
    <2>3. /\ u \in Waiters /\ DevpollTyped(u) /\ Frame(u, s) /\ u.active = s.active /\ u.disabled = s.disabled
          /\ DevpollKern(u) = {r \in DevpollKern(s) : r[1] # fd}
      <3> HIDE DEF fd
      <3> QED
        BY <1>2, <1>3, <2>2, DevpollSetGone
    <2>4. t = IF close THEN DevpollFlush(u) ELSE u
      BY <1>4, <2>1, DevpollSetClose
    <2>5. CASE close
      <3>1. /\ t \in Waiters /\ DevpollTyped(t) /\ Frame(t, u) /\ t.active = u.active /\ t.disabled = u.disabled
            /\ DevpollKern(t) = DevpollKern(u)
        BY <2>3, <2>4, <2>5, DevpollFlushed
      <3> QED
        BY <1>3, <2>3, <3>1 DEF Frame
    <2>6. CASE ~close
      BY <1>3, <2>3, <2>4, <2>6
    <2> QED
      BY <2>5, <2>6
  <1>6. \A r \in Registered(s) : r[1] = fd => \/ r = << fd, ev[2] >>
                                              \/ p \in s.active /\ r = << fd, other >>
    BY <1>1, RegisteredOf
  <1>7. << fd, ev[2] >> \in Registered(s) /\ (p \in s.active => << fd, other >> \in Registered(s))
    BY <1>2 DEF Registered, FdOf
  <1>8. CASE close
    <2>1. PICK u : u = [t EXCEPT !.active = @ \ {ev, Pair(ev)}]
      OBVIOUS
    <2>2. /\ u \in Waiters /\ u.active = s.active \ {ev, p} /\ u.list = t.list /\ u.kern = t.kern /\ Frame(u, s)
          /\ u.disabled = s.disabled /\ u.fd = s.fd
      BY <1>5, <2>1 DEF Waiters, Frame
    <2>3. DevpollTyped(u) /\ DevpollKern(u) = DevpollKern(t)
      BY <1>5, <2>2 DEF DevpollTyped, DevpollKern
    <2>4. \A f \in s.active : FdOf(u, f) = FdOf(s, f) /\ (FdOf(s, f) = fd <=> f = ev \/ f = p)
      <3> TAKE f \in s.active
      <3>1. FdOf(u, f) = FdOf(s, f) /\ f \in Events
        BY <1>1, <2>2 DEF FdOf
      <3>2. FdOf(s, f) = fd => f = ev \/ f = p
        BY <1>1, <3>1, SameFd, EventIs
      <3>3. FdOf(s, p) = fd
        BY <1>2 DEF FdOf
      <3> QED
        BY <3>1, <3>2, <3>3
    <2>5. \A r : r \in Registered(u) <=> r \in Registered(s) /\ r[1] # fd
      <3>1. \A r : r \in Registered(u) <=> \E f \in s.active : f # ev /\ f # p /\ r = << FdOf(s, f), f[2] >>
        BY <2>2, <2>4 DEF Registered
      <3>2. \A r : r \in Registered(s) <=> \E f \in s.active : r = << FdOf(s, f), f[2] >>
        BY DEF Registered
      <3> QED
        BY <2>4, <3>1, <3>2
    <2>6. DevpollKern(u) = Registered(u)
      BY <1>5, <2>3, <2>5
    <2>7. u = DevpollDel(s, ev, close)
      BY <1>4, <1>8, <2>1 DEF DevpollDel
    <2> QED
      BY <1>8, <2>2, <2>3, <2>6, <2>7 DEF DevpollOK, DevpollTyped
  <1>9. CASE ~close
    <2>1. PICK u : u = [t EXCEPT !.active = @ \ {ev}]
      OBVIOUS
    <2>2. /\ u \in Waiters /\ u.active = s.active \ {ev} /\ u.list = t.list /\ u.kern = t.kern /\ Frame(u, s)
          /\ u.disabled = s.disabled /\ u.fd = s.fd
      BY <1>5, <2>1 DEF Waiters, Frame
    <2>3. DevpollTyped(u) /\ DevpollKern(u) = {r \in Registered(s) : r[1] # fd}
      BY <1>5, <2>2 DEF DevpollTyped, DevpollKern
    <2>4. CASE p \in s.active
      <3>1. PICK v : v = DevpollSet(u, fd, other, FALSE)
        OBVIOUS
      <3>2. /\ v \in Waiters /\ DevpollTyped(v) /\ Frame(v, u) /\ v.active = u.active /\ v.disabled = u.disabled
            /\ DevpollKern(v) = DevpollKern(u) \cup {<< fd, other >>}
        <4>1. u \in Waiters /\ DevpollTyped(u) /\ fd \in Fds /\ other \in Sides
          BY <1>2, <2>2, <2>3
        <4>2. v = DevpollPut(u, fd, other)
          BY <3>1 DEF DevpollPut
        <4> HIDE DEF fd, other
        <4> QED
          BY <4>1, <4>2, DevpollSetSide
      <3>3. Frame(v, s) /\ v.active = s.active \ {ev} /\ v.disabled = s.disabled /\ v.fd = s.fd
        BY <2>2, <3>2 DEF Frame
      <3>4. Registered(v) = Registered(s) \ {<< fd, ev[2] >>}
        BY <3>2, <3>3, RegisteredDel
      <3>5. \A r : r \in DevpollKern(v) <=> r \in Registered(s) /\ r # << fd, ev[2] >>
        BY <1>2, <1>6, <1>7, <2>3, <2>4, <3>2
      <3>6. DevpollKern(v) = Registered(v)
        BY <3>4, <3>5
      <3>7. v = DevpollDel(s, ev, close)
        BY <1>4, <1>9, <2>1, <2>4, <3>1 DEF DevpollDel
      <3> QED
        BY <1>9, <3>2, <3>3, <3>6, <3>7 DEF DevpollOK, DevpollTyped
    <2>5. CASE p \notin s.active
      <3>1. Registered(u) = Registered(s) \ {<< fd, ev[2] >>}
        BY <2>2, RegisteredDel
      <3>2. \A r : r \in DevpollKern(u) <=> r \in Registered(s) /\ r # << fd, ev[2] >>
        BY <1>6, <2>3, <2>5
      <3>3. DevpollKern(u) = Registered(u)
        BY <3>1, <3>2
      <3>4. u = DevpollDel(s, ev, close)
        BY <1>4, <1>9, <2>1, <2>5 DEF DevpollDel
      <3> QED
        BY <1>9, <2>2, <2>3, <3>3, <3>4 DEF DevpollOK, DevpollTyped
    <2> QED
      BY <2>4, <2>5
  <1> QED
    BY <1>8, <1>9

-----------------------------------------------------------------------------
(* kqueue. *)

(* What the kernel has after the changes, told of one filter. *)
LEMMA KqueueHas ==
  ASSUME NEW s, NEW k
  PROVE  k \in KqueueKern(s) <=>
           \/ k \in s.kern /\ ~ChangedFrom(s.list, k.fd, k.ev[2], 1)
           \/ \E i \in DOMAIN s.list :
                /\ s.list[i].op = "add" /\ ~ChangedFrom(s.list, s.list[i].fd, s.list[i].ev[2], i + 1)
                /\ k = [fd |-> s.list[i].fd, ev |-> s.list[i].ev, instance |-> s.list[i].instance]
  BY DEF KqueueKern

(* The change i is the only one for its event. *)
LEMMA ChangeIs ==
  ASSUME NEW s \in Waiters, ConnsOK(s), KqueueOK(s, Closed), NEW i \in DOMAIN s.list
  PROVE  /\ s.list[i] \in KqueueChanges /\ s.list[i].ev \in Events /\ ChangeOK(s, i)
         /\ s.list[i].op \in {"add", "disable"}
         /\ \A e \in Events, first \in Nat \ {0} :
              Open(s, e[1]) => (ChangedFrom(s.list, FdOf(s, e), e[2], first)
                                  <=> \E j \in DOMAIN s.list : j >= first /\ s.list[j].ev = e)
  <1>1. s.list \in Seq(KqueueChanges) /\ \A j \in DOMAIN s.list : ChangeOK(s, j)
    BY DEF KqueueOK
  <1>2. \A j \in DOMAIN s.list : s.list[j] \in KqueueChanges
    BY <1>1
  <1>3. \A ch \in KqueueChanges : ch.ev \in Events /\ ch.op \in {"add", "disable"}
    BY DEF KqueueChanges
  <1>4. ASSUME NEW e \in Events, NEW first \in Nat \ {0}, Open(s, e[1])
        PROVE  ChangedFrom(s.list, FdOf(s, e), e[2], first)
                 <=> \E j \in DOMAIN s.list : j >= first /\ s.list[j].ev = e
    <2>1. PICK n \in Nat : n = Len(s.list) /\ DOMAIN s.list = 1 .. n
      BY <1>1
    <2>2. \A j : j \in first .. n <=> j \in 1 .. n /\ j >= first
      BY <2>1
    <2>3. \A j \in DOMAIN s.list : (s.list[j].fd = FdOf(s, e) /\ s.list[j].ev[2] = e[2]) <=> s.list[j].ev = e
      <3> TAKE j \in DOMAIN s.list
      <3>1. s.list[j].fd = FdOf(s, s.list[j].ev) /\ s.list[j].ev \in Events
        BY <1>1, <1>2, <1>3 DEF ChangeOK
      <3>2. FdOf(s, s.list[j].ev) = FdOf(s, e) /\ s.list[j].ev[2] = e[2] => s.list[j].ev = e
        BY <1>4, <3>1, SameFd
      <3> QED
        BY <3>1, <3>2
    <2>4. ChangedFrom(s.list, FdOf(s, e), e[2], first)
            <=> \E j \in first .. n : s.list[j].fd = FdOf(s, e) /\ s.list[j].ev[2] = e[2]
      BY <2>1 DEF ChangedFrom
    <2> QED
      BY <2>1, <2>2, <2>3, <2>4
  <1> QED
    BY <1>1, <1>2, <1>3, <1>4

(* Once all changes are passed on, the kernel has a filter for each active *)
(* event, and no other.                                                    *)
LEMMA KqueueKernIs ==
  ASSUME NEW s \in Waiters, ConnsOK(s), KqueueOK(s, Closed)
  PROVE  KqueueKern(s) = {FilterOf(s, ev) : ev \in s.active}
  <1> DEFINE Adding(k) ==
        \E i \in DOMAIN s.list :
           /\ s.list[i].op = "add" /\ ~ChangedFrom(s.list, s.list[i].fd, s.list[i].ev[2], i + 1)
           /\ k = [fd |-> s.list[i].fd, ev |-> s.list[i].ev, instance |-> s.list[i].instance]
  <1>1. s.list \in Seq(KqueueChanges) /\ s.active \subseteq Events /\ \A ev \in s.active : Open(s, ev[1])
    BY DEF KqueueOK, Waiters, ConnsOK
  <1>2. \A i \in DOMAIN s.list : i \in Nat \ {0} /\ i + 1 \in Nat \ {0} /\ ~(i >= i + 1) /\ i >= 1 /\ 1 \in Nat \ {0}
    <2>1. \A n \in Nat : \A i \in 1 .. n : i \in Nat \ {0} /\ i + 1 \in Nat \ {0} /\ ~(i >= i + 1) /\ i >= 1 /\ 1 \in Nat \ {0}
      OBVIOUS
    <2> QED
      BY <1>1, <2>1
  <1>3. \A e \in Events : Open(s, e[1]) /\ ~(\E j \in DOMAIN s.list : s.list[j].ev = e)
                            => ~ChangedFrom(s.list, FdOf(s, e), e[2], 1)
    <2> SUFFICES ASSUME NEW e \in Events, Open(s, e[1]), ~(\E j \in DOMAIN s.list : s.list[j].ev = e)
                 PROVE  ~ChangedFrom(s.list, FdOf(s, e), e[2], 1)
      OBVIOUS
    <2>1. CASE DOMAIN s.list = {}
      <3>1. \A n \in Nat : 1 .. n = {} => n = 0
        <4> SUFFICES ASSUME NEW n \in Nat, n # 0 PROVE 1 \in 1 .. n
          OBVIOUS
        <4> QED
          OBVIOUS
      <3>2. Len(s.list) \in Nat /\ DOMAIN s.list = 1 .. Len(s.list)
        BY <1>1
      <3>3. Len(s.list) = 0
        BY <2>1, <3>1, <3>2
      <3> QED
        BY <3>3 DEF ChangedFrom
    <2>2. CASE DOMAIN s.list # {}
      <3>1. PICK i \in DOMAIN s.list : TRUE
        BY <2>2
      <3>2. 1 \in Nat \ {0}
        OBVIOUS
      <3> QED
        BY <3>1, <3>2, ChangeIs
    <2> QED
      BY <2>1, <2>2
  <1>4. \A i, j \in DOMAIN s.list : s.list[i].ev = s.list[j].ev => i = j
    BY DEF KqueueOK, ChangeOK
  <1>5. \A i \in DOMAIN s.list : ~ChangedFrom(s.list, s.list[i].fd, s.list[i].ev[2], i + 1)
    <2> TAKE i \in DOMAIN s.list
    <2>1. s.list[i].ev \in Events /\ Open(s, s.list[i].ev[1]) /\ s.list[i].fd = FdOf(s, s.list[i].ev)
      BY ChangeIs DEF ChangeOK
    <2>2. ~(\E j \in DOMAIN s.list : j >= i + 1 /\ s.list[j].ev = s.list[i].ev)
      BY <1>2, <1>4
    <2>3. i + 1 \in Nat \ {0}
      BY <1>2
    <2> QED
      BY <2>1, <2>2, <2>3, ChangeIs
  <1>6. \A k : Adding(k) => \E ev \in s.active : k = FilterOf(s, ev)
    <2> SUFFICES ASSUME NEW k, NEW i \in DOMAIN s.list, s.list[i].op = "add",
                        k = [fd |-> s.list[i].fd, ev |-> s.list[i].ev, instance |-> s.list[i].instance]
                 PROVE  \E ev \in s.active : k = FilterOf(s, ev)
      OBVIOUS
    <2>1. ChangeOK(s, i)
      BY DEF KqueueOK
    <2> QED
      BY <2>1 DEF ChangeOK, FilterOf
  <1>7. \A ev \in s.active : Pending(s, ev, "add") => Adding(FilterOf(s, ev))
    <2> SUFFICES ASSUME NEW ev \in s.active, NEW i \in DOMAIN s.list, s.list[i].ev = ev, s.list[i].op = "add"
                 PROVE  Adding(FilterOf(s, ev))
      BY DEF Pending
    <2>1. ChangeOK(s, i)
      BY DEF KqueueOK
    <2>2. FilterOf(s, ev) = [fd |-> s.list[i].fd, ev |-> s.list[i].ev, instance |-> s.list[i].instance]
      BY <2>1 DEF ChangeOK, FilterOf
    <2> QED
      BY <1>5, <2>2
  <1> HIDE DEF Adding
  <1>8. \A k : k \in KqueueKern(s) <=> (k \in s.kern /\ ~ChangedFrom(s.list, k.fd, k.ev[2], 1)) \/ Adding(k)
    BY KqueueHas DEF Adding
  <1>9. \A k \in s.kern : ~ChangedFrom(s.list, k.fd, k.ev[2], 1) => k.ev \in s.active /\ k = FilterOf(s, k.ev)
    <2> SUFFICES ASSUME NEW k \in s.kern, ~ChangedFrom(s.list, k.fd, k.ev[2], 1)
                 PROVE  k.ev \in s.active /\ k = FilterOf(s, k.ev)
      OBVIOUS
    <2>1. k \in Filters /\ k.fd # Closed /\ k.ev \in Events
      BY MethodBasics DEF KqueueOK, Filters
    <2>2. FilterOK(s, k)
      BY <2>1 DEF KqueueOK
    <2>3. Open(s, k.ev[1]) /\ k = FilterOf(s, k.ev) /\ (k.ev \notin s.active => Pending(s, k.ev, "disable"))
      BY <2>2 DEF FilterOK
    <2>4. k.fd = FdOf(s, k.ev)
      BY <2>3 DEF FilterOf
    <2>5. ~Pending(s, k.ev, "disable")
      <3> SUFFICES ASSUME NEW i \in DOMAIN s.list, s.list[i].ev = k.ev
                   PROVE  FALSE
        BY DEF Pending
      <3>1. i >= 1 /\ 1 \in Nat \ {0}
        BY <1>2
      <3>2. ChangedFrom(s.list, FdOf(s, k.ev), k.ev[2], 1)
        BY <2>1, <2>3, <3>1, ChangeIs
      <3> QED
        BY <2>4, <3>2
    <2> QED
      BY <2>3, <2>5
  <1>10. \A ev \in s.active : FilterOf(s, ev) \in KqueueKern(s)
    <2> TAKE ev \in s.active
    <2>1. CASE Pending(s, ev, "add")
      BY <1>7, <1>8, <2>1
    <2>2. CASE ~Pending(s, ev, "add")
      <3>1. FilterOf(s, ev) \in s.kern /\ FilterOf(s, ev).fd = FdOf(s, ev) /\ FilterOf(s, ev).ev = ev
        BY <2>2 DEF KqueueOK, FilterOf
      <3>2. ~(\E j \in DOMAIN s.list : s.list[j].ev = ev)
        <4> SUFFICES ASSUME NEW j \in DOMAIN s.list, s.list[j].ev = ev
                     PROVE  FALSE
          OBVIOUS
        <4>1. s.list[j].op = "add"
          BY DEF KqueueOK, ChangeOK
        <4> QED
          BY <2>2, <4>1 DEF Pending
      <3>3. ~ChangedFrom(s.list, FdOf(s, ev), ev[2], 1)
        BY <1>1, <1>3, <3>2
      <3> QED
        BY <1>8, <3>1, <3>3
    <2> QED
      BY <2>1, <2>2
  <1>11. \A k : k \in KqueueKern(s) <=> \E ev \in s.active : k = FilterOf(s, ev)
    BY <1>6, <1>8, <1>9, <1>10
  <1> QED
    BY <1>11

(* A filter of an active event is one the kernel may have. *)
LEMMA FilterType ==
  ASSUME NEW s \in Waiters, ConnsOK(s)
  PROVE  \A ev \in s.active : FilterOf(s, ev) \in Filters /\ FilterOf(s, ev).fd = FdOf(s, ev)
                              /\ FilterOf(s, ev).ev = ev
  <1> TAKE ev \in s.active
  <1>1. ev \in Events /\ FdOf(s, ev) \in Fds /\ ev[1] \in Conns
    BY OpenFd, EventIs DEF ConnsOK, Waiters
  <1>2. s.instance[ev[1]] \in BOOLEAN
    BY <1>1 DEF Waiters
  <1> QED
    BY <1>1, <1>2 DEF Filters, FilterOf

(* Passing on the changes: none is left. *)
LEMMA KqueueFlushOK ==
  ASSUME NEW s \in Waiters, ConnsOK(s), KqueueOK(s, Closed)
  PROVE  LET t == KqueueFlush(s)
         IN /\ t \in Waiters /\ KqueueOK(t, Closed) /\ Frame(t, s) /\ t.active = s.active /\ t.disabled = s.disabled
            /\ t.list = << >> /\ t.kern = {FilterOf(s, ev) : ev \in s.active}
  <1> DEFINE t == KqueueFlush(s)
             ix == [e \in Events |-> NoIndex]
  <1>1. /\ t.kern = KqueueKern(s) /\ t.list = << >> /\ t.active = s.active /\ t.disabled = s.disabled
        /\ Frame(t, s) /\ t.index = ix
        /\ t = [s EXCEPT !.kern = t.kern, !.list = t.list, !.index = t.index]
    BY DEF KqueueFlush, Waiters, Frame
  <1> HIDE DEF t
  <1>2. t.kern = {FilterOf(s, ev) : ev \in s.active}
    BY <1>1, KqueueKernIs
  <1>3. t.kern \subseteq Filters
    BY <1>2, FilterType
  <1>4. t.index \in [Events -> Nat]
    BY <1>1 DEF NoIndex
  <1>5. t.list \in Seq(KqueueChanges) /\ t.list \in Lists /\ DOMAIN t.list = {}
    BY <1>1 DEF Lists
  <1>6. t \in Waiters
    BY <1>1, <1>3, <1>4, <1>5 DEF Waiters
  <1>7. \A ev : ~Pending(t, ev, "add") /\ FilterOf(t, ev) = FilterOf(s, ev) /\ (Open(t, ev[1]) <=> Open(s, ev[1]))
    BY <1>1, <1>5 DEF Pending, FilterOf, FdOf, Open, Frame
  <1>8. \A k \in t.kern : k.ev \in t.active /\ k = FilterOf(t, k.ev) /\ Open(t, k.ev[1])
    <2> TAKE k \in t.kern
    <2>1. PICK ev \in s.active : k = FilterOf(s, ev)
      BY <1>2
    <2>2. k.ev = ev /\ Open(s, ev[1])
      BY <2>1, FilterType DEF ConnsOK
    <2> QED
      BY <1>1, <1>7, <2>1, <2>2
  <1>9. \A k \in t.kern : FilterOK(t, k)
    BY <1>7, <1>8 DEF FilterOK
  <1>10. \A ev \in t.active : FilterOf(t, ev) \in t.kern
    BY <1>1, <1>2, <1>7
  <1>11. KqueueOK(t, Closed)
    BY <1>3, <1>5, <1>9, <1>10 DEF KqueueOK
  <1> QED
    BY <1>1, <1>2, <1>6, <1>11 DEF t

(* There is room for a change. *)
Room(s) == IF Len(s.list) >= MaxChanges THEN KqueueFlush(s) ELSE s

(* After it the list has room and the rest is as it was. *)
LEMMA RoomOK ==
  ASSUME NEW s \in Waiters, ConnsOK(s), KqueueOK(s, Closed)
  PROVE  LET t == Room(s)
         IN /\ t \in Waiters /\ KqueueOK(t, Closed) /\ Frame(t, s) /\ t.active = s.active /\ t.disabled = s.disabled
            /\ \A ev, op : Pending(t, ev, op) => Pending(s, ev, op)
  <1>1. CASE Room(s) = s
    BY <1>1 DEF Frame
  <1>2. CASE Room(s) = KqueueFlush(s)
    <2>1. PICK t : t = KqueueFlush(s)
      OBVIOUS
    <2>2. /\ t \in Waiters /\ KqueueOK(t, Closed) /\ Frame(t, s) /\ t.active = s.active /\ t.disabled = s.disabled
          /\ t.list = << >>
      BY <2>1, KqueueFlushOK
    <2>3. \A ev, op : ~Pending(t, ev, op)
      BY <2>2 DEF Pending
    <2> QED
      BY <1>2, <2>1, <2>2, <2>3
  <1> QED
    BY <1>1, <1>2 DEF Room

(* ngx_kqueue_set_event(): u is s with the flags of after the call.        *)
ChangeSet(t, u, s, r, ev, op) ==
  /\ t.list = Append(r.list, [fd |-> FdOf(s, ev), ev |-> ev, instance |-> s.instance[ev[1]], op |-> op])
  /\ t.index = [r.index EXCEPT ![ev] = Len(r.list) + 1]
  /\ t.kern = r.kern /\ t.active = u.active /\ t.disabled = u.disabled /\ Frame(t, s)
  /\ t = [u EXCEPT !.list = t.list, !.index = t.index, !.kern = t.kern]

(* A change is appended for the event, after a flush if the list is full. *)
LEMMA KqueueSetIs ==
  ASSUME NEW s \in Waiters, NEW u \in Waiters, u.list = s.list, u.kern = s.kern, u.index = s.index, Frame(u, s),
         NEW ev \in Events, NEW op
  PROVE  ChangeSet(KqueueSet(u, ev, op), u, s, Room(s), ev, op)
  <1>0. PICK t : t = KqueueSet(u, ev, op)
    OBVIOUS
  <1> DEFINE r == Room(s)
             ch == [fd |-> FdOf(s, ev), ev |-> ev, instance |-> s.instance[ev[1]], op |-> op]
  <1>1. PICK v : v = IF Len(u.list) >= MaxChanges THEN KqueueFlush(u) ELSE u
    OBVIOUS
  <1>2. v.list = r.list /\ v.index = r.index /\ v.kern = r.kern /\ v.active = u.active /\ v.disabled = u.disabled
        /\ Frame(v, s) /\ v = [u EXCEPT !.list = v.list, !.index = v.index, !.kern = v.kern]
    <2>1. CASE Len(s.list) >= MaxChanges
      <3>1. v = KqueueFlush(u) /\ r = KqueueFlush(s)
        BY <1>1, <2>1 DEF Room
      <3>2. KqueueKern(u) = KqueueKern(s)
        BY DEF KqueueKern
      <3>3. /\ r.list = << >> /\ r.index = [e \in DOMAIN s.index |-> NoIndex] /\ r.kern = KqueueKern(s)
        BY <3>1 DEF KqueueFlush, Waiters
      <3> HIDE DEF r
      <3>4. /\ v.list = << >> /\ v.index = [e \in DOMAIN u.index |-> NoIndex] /\ v.kern = KqueueKern(u)
            /\ v.active = u.active /\ v.disabled = u.disabled
            /\ v.method = u.method /\ v.fd = u.fd /\ v.instance = u.instance /\ v.ready = u.ready
            /\ v = [u EXCEPT !.list = v.list, !.index = v.index, !.kern = v.kern]
        BY <3>1 DEF KqueueFlush, Waiters
      <3> QED
        BY <3>2, <3>3, <3>4 DEF Frame
    <2>2. CASE ~(Len(s.list) >= MaxChanges)
      BY <1>1, <2>2 DEF Room, Waiters, Frame
    <2> QED
      BY <2>1, <2>2
  <1>3. t = [v EXCEPT !.list = Append(@, ch), !.index[ev] = Len(v.list) + 1]
    <2>1. FdOf(u, ev) = FdOf(s, ev) /\ u.instance = s.instance
      BY DEF FdOf, Frame
    <2> QED
      BY <1>0, <1>1, <2>1 DEF KqueueSet
  <1> HIDE DEF r, ch
  <1>4. t = [u EXCEPT !.list = Append(v.list, ch), !.index = [v.index EXCEPT ![ev] = Len(v.list) + 1], !.kern = v.kern]
    BY <1>2, <1>3 DEF Waiters
  <1>5. /\ t.list = Append(v.list, ch) /\ t.index = [v.index EXCEPT ![ev] = Len(v.list) + 1] /\ t.kern = v.kern
        /\ t.active = u.active /\ t.disabled = u.disabled
        /\ t.method = u.method /\ t.fd = u.fd /\ t.instance = u.instance /\ t.ready = u.ready
        /\ t = [u EXCEPT !.list = t.list, !.index = t.index, !.kern = t.kern]
    BY <1>4 DEF Waiters
  <1> QED
    BY <1>0, <1>2, <1>5 DEF Frame, ChangeSet, r, ch

(* One change more, for an event without one. *)
LEMMA ChangeAppended ==
  ASSUME NEW r \in Waiters, KqueueOK(r, Closed), NEW ev \in Events, Open(r, ev[1]), NEW op \in {"add", "disable"},
         NEW t, Frame(t, r), t.kern = r.kern, t.index = [r.index EXCEPT ![ev] = Len(r.list) + 1],
         t.list = Append(r.list, [fd |-> FdOf(r, ev), ev |-> ev, instance |-> r.instance[ev[1]], op |-> op]),
         \A o : ~Pending(r, ev, o), ev \in r.active <=> op = "disable",
         op = "add" => t.active = r.active \cup {ev} /\ t.disabled = r.disabled \ {ev},
         op = "disable" => /\ t.active = r.active \ {ev} /\ t.disabled = r.disabled \cup {ev}
                           /\ ev = << Listening, "read" >>
  PROVE  KqueueOK(t, Closed) /\ t.index \in [Events -> Nat]
  <1> DEFINE n == Len(r.list) + 1
             ch == [fd |-> FdOf(r, ev), ev |-> ev, instance |-> r.instance[ev[1]], op |-> op]
  <1>1. r.list \in Seq(KqueueChanges) /\ r.kern \subseteq Filters /\ r.index \in [Events -> Nat] /\ n \in Nat
    BY DEF KqueueOK, Waiters
  <1>2. ch \in KqueueChanges /\ ch.fd = FdOf(r, ev) /\ ch.ev = ev /\ ch.instance = r.instance[ev[1]] /\ ch.op = op
    <2>1. FdOf(r, ev) \in Fds /\ r.instance[ev[1]] \in BOOLEAN
      BY OpenFd, EventIs DEF Waiters
    <2> QED
      BY <2>1 DEF KqueueChanges
  <1>3. /\ t.list \in Seq(KqueueChanges) /\ DOMAIN t.list = 1 .. n /\ t.list[n] = ch
        /\ \A j \in DOMAIN r.list : t.list[j] = r.list[j] /\ j \in DOMAIN t.list /\ j # n
        /\ \A j \in DOMAIN t.list : j = n \/ j \in DOMAIN r.list
        /\ n \in DOMAIN t.list
    <2> HIDE DEF ch
    <2>1. t.list = Append(r.list, ch)
      BY DEF ch
    <2> QED
      BY <1>1, <1>2, <2>1, AppendIs
  <1> HIDE DEF ch
  <1>4. \A f \in Events : t.index[f] = IF f = ev THEN n ELSE r.index[f]
    BY <1>1
  <1>5. t.index \in [Events -> Nat]
    BY <1>1
  <1>6. t.fd = r.fd /\ t.instance = r.instance
    BY DEF Frame
  <1>7. \A e : FdOf(t, e) = FdOf(r, e) /\ FilterOf(t, e) = FilterOf(r, e) /\ (Open(t, e[1]) <=> Open(r, e[1]))
    BY <1>6 DEF FdOf, FilterOf, Open
  <1>8. \A e, o : Pending(t, e, o) <=> Pending(r, e, o) \/ (e = ev /\ o = op)
    BY <1>2, <1>3 DEF Pending
  <1>9. \A e : e # ev => (e \in t.active <=> e \in r.active) /\ (e \in t.disabled <=> e \in r.disabled)
    OBVIOUS
  <1>10. ev \in t.active <=> op = "add"
    OBVIOUS
  <1>11. \A i \in DOMAIN t.list : ChangeOK(t, i)
    <2> TAKE i \in DOMAIN t.list
    <2>1. CASE i \in DOMAIN r.list
      <3>1. PICK old : old = r.list[i]
        OBVIOUS
      <3>2. t.list[i] = old /\ ChangeOK(r, i) /\ old \in KqueueChanges
        BY <1>1, <1>3, <2>1, <3>1 DEF KqueueOK
      <3>3. old.ev \in Events /\ old.ev # ev
        <4>1. Pending(r, old.ev, old.op)
          BY <2>1, <3>1 DEF Pending
        <4>2. old.ev \in Events
          BY <3>2 DEF KqueueChanges
        <4> QED
          BY <4>1, <4>2
      <3>4. t.index[old.ev] = r.index[old.ev] /\ FdOf(t, old.ev) = FdOf(r, old.ev)
            /\ (Open(t, old.ev[1]) <=> Open(r, old.ev[1]))
            /\ (old.ev \in t.active <=> old.ev \in r.active) /\ (old.ev \in t.disabled <=> old.ev \in r.disabled)
        BY <1>4, <1>7, <1>9, <3>3
      <3> QED
        BY <1>6, <3>1, <3>2, <3>4 DEF ChangeOK
    <2>2. CASE i = n
      BY <1>2, <1>3, <1>4, <1>6, <1>7, <1>10, <2>2 DEF ChangeOK
    <2> QED
      BY <1>3, <2>1, <2>2
  <1>12. \A k \in t.kern : k.fd # Closed => FilterOK(t, k)
    <2> SUFFICES ASSUME NEW k \in t.kern, k.fd # Closed PROVE FilterOK(t, k)
      OBVIOUS
    <2>1. FilterOK(r, k)
      BY DEF KqueueOK
    <2>2. Open(t, k.ev[1]) /\ k = FilterOf(t, k.ev)
      BY <1>7, <2>1 DEF FilterOK
    <2>3. k.ev = ev => op = "disable"
      BY <2>1 DEF FilterOK
    <2>4. k.ev \notin t.active => Pending(t, k.ev, "disable")
      BY <1>8, <1>9, <1>10, <2>1, <2>3 DEF FilterOK
    <2>5. ~Pending(t, k.ev, "add")
      BY <1>8, <2>1, <2>3 DEF FilterOK
    <2> QED
      BY <2>2, <2>4, <2>5 DEF FilterOK
  <1>13. \A e \in t.active : FilterOf(t, e) \in t.kern \/ Pending(t, e, "add")
    <2> TAKE e \in t.active
    <2>1. CASE e = ev
      BY <1>8, <1>10, <2>1
    <2>2. CASE e # ev
      <3>1. FilterOf(r, e) \in r.kern \/ Pending(r, e, "add")
        BY <1>9, <2>2 DEF KqueueOK
      <3> QED
        BY <1>7, <1>8, <3>1
    <2> QED
      BY <2>1, <2>2
  <1> QED
    BY <1>1, <1>3, <1>5, <1>11, <1>12, <1>13 DEF KqueueOK

(* ngx_kqueue_add_event() *)
LEMMA KqueueAddOK ==
  ASSUME NEW s \in Waiters, ConnsOK(s), KqueueOK(s, Closed), NEW ev \in Events, ev \notin s.active, Open(s, ev[1]),
         ~Pending(s, ev, "disable")
  PROVE  LET t == KqueueAdd(s, ev)
         IN t \in Waiters /\ KqueueOK(t, Closed) /\ Frame(t, s) /\ t.active = s.active \cup {ev}
            /\ t.disabled = s.disabled \ {ev}
  <1>1. PICK u : u = [s EXCEPT !.active = @ \cup {ev}, !.disabled = @ \ {ev}]
    OBVIOUS
  <1>2. /\ u \in Waiters /\ Frame(u, s) /\ u.active = s.active \cup {ev} /\ u.disabled = s.disabled \ {ev}
        /\ u.list = s.list /\ u.kern = s.kern /\ u.index = s.index
    BY <1>1 DEF Waiters, Frame
  <1>3. PICK t : t = KqueueSet(u, ev, "add")
    OBVIOUS
  <1>4. t = KqueueAdd(s, ev)
    BY <1>1, <1>3 DEF KqueueAdd
  <1>5. PICK r : r = Room(s)
    OBVIOUS
  <1>6. ChangeSet(t, u, s, r, ev, "add")
    BY <1>2, <1>3, <1>5, KqueueSetIs
  <1>7. /\ r \in Waiters /\ KqueueOK(r, Closed) /\ Frame(r, s) /\ r.active = s.active /\ r.disabled = s.disabled
        /\ \A e, op : Pending(r, e, op) => Pending(s, e, op)
    BY <1>5, RoomOK
  <1>8. \A o : ~Pending(s, ev, o)
    <2> SUFFICES ASSUME NEW i \in DOMAIN s.list, s.list[i].ev = ev PROVE FALSE
      BY DEF Pending
    <2>1. ChangeOK(s, i) /\ s.list[i].op \in {"add", "disable"}
      BY ChangeIs
    <2>2. s.list[i].op = "disable"
      BY <2>1 DEF ChangeOK
    <2> QED
      BY <2>2 DEF Pending
  <1>9. FdOf(r, ev) = FdOf(s, ev) /\ r.instance = s.instance /\ Open(r, ev[1]) /\ Frame(t, r)
    BY <1>6, <1>7 DEF FdOf, Open, Frame, ChangeSet
  <1>10. KqueueOK(t, Closed) /\ t.index \in [Events -> Nat]
    <2>1. t.list = Append(r.list, [fd |-> FdOf(r, ev), ev |-> ev, instance |-> r.instance[ev[1]], op |-> "add"])
      BY <1>6, <1>9 DEF ChangeSet
    <2>2. \A o : ~Pending(r, ev, o)
      BY <1>7, <1>8
    <2>3. t.active = r.active \cup {ev} /\ t.disabled = r.disabled \ {ev} /\ ev \notin r.active
      BY <1>2, <1>6, <1>7 DEF ChangeSet
    <2>4. t.index = [r.index EXCEPT ![ev] = Len(r.list) + 1] /\ t.kern = r.kern
      BY <1>6 DEF ChangeSet
    <2> QED
      BY <1>7, <1>9, <2>1, <2>2, <2>3, <2>4, ChangeAppended
  <1>11. t \in Waiters
    <2>1. t.list \in Lists /\ t.kern \in SUBSET Filters
      BY <1>10 DEF KqueueOK, Lists
    <2> QED
      BY <1>2, <1>6, <1>10, <2>1 DEF Waiters, ChangeSet
  <1> QED
    BY <1>2, <1>4, <1>6, <1>10, <1>11 DEF ChangeSet

(* ngx_kqueue_del_event() when the change was not passed on: it is taken   *)
(* back, and the last one takes its place.                                 *)
TakenBack(t, s, ev) ==
  /\ Frame(t, s) /\ t.active = s.active \ {ev} /\ t.disabled = s.disabled \ {ev} /\ t.kern = s.kern
  /\ t.list \in Seq(KqueueChanges) /\ t.index \in [Events -> Nat]
  /\ \A j \in DOMAIN t.list : /\ t.index[t.list[j].ev] = j /\ t.list[j].ev # ev
                              /\ \E i \in DOMAIN s.list : t.list[j] = s.list[i]
  /\ \A i \in DOMAIN s.list : s.list[i].ev = ev \/ \E j \in DOMAIN t.list : t.list[j] = s.list[i]

(* The list without the change still knows its places. *)
LEMMA TakenBackIs ==
  ASSUME NEW s \in Waiters, s.list \in Seq(KqueueChanges), \A i \in DOMAIN s.list : s.index[s.list[i].ev] = i,
         NEW ev \in Events, s.index[ev] \in DOMAIN s.list, s.list[s.index[ev]].ev = ev, NEW how
  PROVE  LET t == KqueueDel(s, ev, how) IN t \in Waiters /\ TakenBack(t, s, ev)
  <1> DEFINE t == KqueueDel(s, ev, how)
             i == s.index[ev]
             n == Len(s.list)
             moved == s.list[n].ev
  <1>1. /\ i \in DOMAIN s.list /\ n \in Nat /\ DOMAIN s.list = 1 .. n /\ n \in DOMAIN s.list /\ i \in Nat
        /\ Last(s.list) = s.list[n]
    <2>1. i \in DOMAIN s.list /\ n \in Nat /\ DOMAIN s.list = 1 .. n /\ Last(s.list) = s.list[n]
      BY DEF Last
    <2>2. \A m \in Nat : \A k \in 1 .. m : m \in 1 .. m /\ k \in Nat
      OBVIOUS
    <2> QED
      BY <2>1, <2>2
  <1>2. \A j \in DOMAIN s.list : s.list[j] \in KqueueChanges /\ s.list[j].ev \in Events
    <2>1. \A c \in KqueueChanges : c.ev \in Events
      BY DEF KqueueChanges
    <2> QED
      BY <2>1
  <1>3. moved \in Events /\ s.index[moved] = n
    BY <1>1, <1>2
  <1>4. /\ t.list = Filled(s.list, i) /\ t.index = [s.index EXCEPT ![moved] = IF i < n THEN i ELSE @]
        /\ Frame(t, s) /\ t.active = s.active \ {ev} /\ t.disabled = s.disabled \ {ev} /\ t.kern = s.kern
        /\ t = [s EXCEPT !.active = t.active, !.disabled = t.disabled, !.list = t.list, !.index = t.index]
    <2>1. KqueueDel(s, ev, how)
            = [[s EXCEPT !.active = @ \ {ev}, !.disabled = @ \ {ev}]
                  EXCEPT !.list = Filled(@, i), !.index[moved] = IF i < n THEN i ELSE @]
      BY <1>1 DEF KqueueDel
    <2> QED
      BY <2>1 DEF Waiters, Frame
  <1> HIDE DEF t
  <1>5. /\ t.list \in Seq(KqueueChanges) /\ DOMAIN t.list = 1 .. n - 1
        /\ \A j \in 1 .. n - 1 : t.list[j] = IF j = i THEN s.list[n] ELSE s.list[j]
    <2>1. /\ Filled(s.list, i) \in Seq(KqueueChanges) /\ DOMAIN Filled(s.list, i) = 1 .. n - 1
          /\ \A j \in 1 .. n - 1 : Filled(s.list, i)[j] = IF j = i THEN s.list[n] ELSE s.list[j]
      BY <1>1, FilledIs
    <2> QED
      BY <1>4, <2>1
  <1>6. \A f \in Events : t.index[f] = IF f = moved /\ i < n THEN i ELSE s.index[f]
    BY <1>3, <1>4 DEF Waiters
  <1>7. t.index \in [Events -> Nat]
    BY <1>1, <1>3, <1>4 DEF Waiters
  <1>8. \A m \in Nat : \A k \in 1 .. m : (k # m => k < m /\ k \in 1 .. m - 1) /\ (k \in 1 .. m - 1 => k # m /\ k < m)
    OBVIOUS
  <1>9. \A m \in Nat : \A k \in 1 .. m - 1 : k \in 1 .. m
    OBVIOUS
  <1>10. ASSUME NEW j \in DOMAIN t.list
         PROVE  t.index[t.list[j].ev] = j /\ t.list[j].ev # ev /\ \E k \in DOMAIN s.list : t.list[j] = s.list[k]
    <2>1. j \in DOMAIN s.list /\ j # n
      BY <1>1, <1>5, <1>8, <1>9
    <2>2. CASE j = i
      <3>1. t.list[j] = s.list[n] /\ i < n /\ n # i
        BY <1>1, <1>5, <1>8, <2>1, <2>2
      <3>2. t.index[moved] = i
        BY <1>3, <1>6, <3>1
      <3>3. moved # ev
        BY <1>3, <3>1
      <3> QED
        BY <1>1, <2>2, <3>1, <3>2, <3>3
    <2>3. CASE j # i
      <3>1. t.list[j] = s.list[j] /\ s.list[j].ev \in Events /\ s.index[s.list[j].ev] = j
        BY <1>2, <1>5, <2>1, <2>3
      <3>2. s.list[j].ev # moved /\ s.list[j].ev # ev
        BY <1>3, <2>1, <2>3, <3>1
      <3> QED
        BY <1>6, <2>1, <3>1, <3>2
    <2> QED
      BY <2>2, <2>3
  <1>11. ASSUME NEW k \in DOMAIN s.list, s.list[k].ev # ev
         PROVE  \E j \in DOMAIN t.list : t.list[j] = s.list[k]
    <2>1. k # i
      BY <1>11
    <2>2. CASE k = n
      <3>1. i \in DOMAIN t.list
        BY <1>1, <1>5, <1>8, <2>1, <2>2
      <3> QED
        BY <1>5, <2>2, <3>1
    <2>3. CASE k # n
      <3>1. k \in DOMAIN t.list
        BY <1>1, <1>5, <1>8, <2>3
      <3> QED
        BY <1>5, <2>1, <3>1
    <2> QED
      BY <2>2, <2>3
  <1>12. t \in Waiters
    <2>1. t.list \in Lists
      BY <1>5 DEF Lists
    <2> QED
      BY <1>4, <1>7, <2>1, ZenonT(60) DEF Waiters
  <1> QED
    BY <1>4, <1>5, <1>7, <1>10, <1>11, <1>12 DEF t, TakenBack

(* What is pending when nothing of the event is, or when it is taken back. *)
LEMMA WithoutEvent ==
  ASSUME NEW s \in Waiters, ConnsOK(s), NEW left \in Fds \cup {Closed}, KqueueOK(s, left), NEW ev \in Events, Open(s, ev[1]),
         NEW t, t \in Waiters, TakenBack(t, s, ev), NEW after \in {left, FdOf(s, ev)}, left \in {Closed, FdOf(s, ev)},
         after = Closed => Pending(s, ev, "add")
  PROVE  KqueueOK(t, after) /\ \A o : ~Pending(t, ev, o)
  <1>0. t.fd = s.fd /\ t.instance = s.instance /\ t.kern = s.kern /\ t.active = s.active \ {ev} /\ t.disabled = s.disabled \ {ev}
        /\ t.list \in Seq(KqueueChanges)
    BY DEF TakenBack, Frame
  <1>1. \A e : FdOf(t, e) = FdOf(s, e) /\ FilterOf(t, e) = FilterOf(s, e) /\ (Open(t, e[1]) <=> Open(s, e[1]))
    BY <1>0 DEF FdOf, FilterOf, Open
  <1>2. \A o : ~Pending(t, ev, o)
    BY DEF Pending, TakenBack
  <1>3. \A e, o : e # ev => (Pending(t, e, o) <=> Pending(s, e, o))
    BY DEF Pending, TakenBack
  <1>4. \A j \in DOMAIN t.list : ChangeOK(t, j)
    <2> TAKE j \in DOMAIN t.list
    <2>1. PICK i \in DOMAIN s.list : t.list[j] = s.list[i]
      BY DEF TakenBack
    <2>2. ChangeOK(s, i) /\ t.index[t.list[j].ev] = j /\ t.list[j].ev # ev
      BY DEF KqueueOK, TakenBack
    <2> QED
      BY <1>0, <1>1, <2>1, <2>2 DEF ChangeOK
  <1>5. ASSUME NEW k \in t.kern, k.fd # after
        PROVE  FilterOK(t, k)
    <2>1. k.fd # left
      <3>1. k.fd # Closed
        BY <1>0, MethodBasics DEF KqueueOK, Filters
      <3> QED
        BY <1>5, <3>1
    <2>2. FilterOK(s, k)
      BY <1>0, <2>1 DEF KqueueOK
    <2>3. k.ev # ev
      <3> SUFFICES ASSUME k.ev = ev PROVE FALSE
        OBVIOUS
      <3>1. k.fd = FdOf(s, ev)
        BY <2>2 DEF FilterOK, FilterOf
      <3>2. after = Closed
        BY <1>5, <3>1
      <3> QED
        BY <2>2, <3>2 DEF FilterOK
    <2> QED
      BY <1>0, <1>1, <1>3, <2>2, <2>3 DEF FilterOK
  <1>6. \A e \in t.active : FilterOf(t, e) \in t.kern \/ Pending(t, e, "add")
    BY <1>0, <1>1, <1>3 DEF KqueueOK
  <1>7. t.kern \subseteq Filters
    BY <1>0 DEF KqueueOK
  <1> QED
    BY <1>0, <1>2, <1>4, <1>5, <1>6, <1>7 DEF KqueueOK

(* A change is pending exactly when the index of the event says so. *)
LEMMA PendingIs ==
  ASSUME NEW s, NEW left, KqueueOK(s, left), NEW ev
  PROVE  /\ (\E o : Pending(s, ev, o)) <=> s.index[ev] \in DOMAIN s.list /\ s.list[s.index[ev]].ev = ev
         /\ \A o : Pending(s, ev, o) => o = IF ev \in s.active THEN "add" ELSE "disable"
         /\ \A o : Pending(s, ev, o) => ev \in s.active \cup s.disabled
         /\ \A i \in DOMAIN s.list : s.index[s.list[i].ev] = i
  <1>1. \A i \in DOMAIN s.list : /\ s.index[s.list[i].ev] = i /\ (s.list[i].op = "add" <=> s.list[i].ev \in s.active)
                                 /\ (s.list[i].op = "disable" => s.list[i].ev \in s.disabled)
    BY DEF KqueueOK, ChangeOK
  <1>2. \A i \in DOMAIN s.list : s.list[i].op \in {"add", "disable"}
    <2>1. \A i \in DOMAIN s.list : s.list[i] \in KqueueChanges
      BY DEF KqueueOK
    <2> QED
      BY <2>1 DEF KqueueChanges
  <1>3. (\E o : Pending(s, ev, o)) <=> \E i \in DOMAIN s.list : s.list[i].ev = ev
    BY DEF Pending
  <1> QED
    BY <1>1, <1>2, <1>3 DEF Pending

(* Accepting is disabled. *)
LEMMA KqueueDisableOK ==
  ASSUME NEW s \in Waiters, ConnsOK(s), KqueueOK(s, Closed), NEW ev, ev = << Listening, "read" >>, ev \in s.active
  PROVE  LET t == KqueueDel(s, ev, "disable")
         IN t \in Waiters /\ KqueueOK(t, Closed) /\ Frame(t, s) /\ t.active = s.active \ {ev}
            /\ t.disabled \subseteq s.disabled \cup {ev}
  <1>1. ev \in Events /\ Open(s, ev[1]) /\ ev \notin {}
    BY DEF ConnsOK, Waiters
  <1>2. CASE s.index[ev] \in DOMAIN s.list /\ s.list[s.index[ev]].ev = ev
    <2>1. PICK t : t = KqueueDel(s, ev, "disable")
      OBVIOUS
    <2>2. s.list \in Seq(KqueueChanges) /\ \A i \in DOMAIN s.list : s.index[s.list[i].ev] = i
      BY PendingIs DEF KqueueOK
    <2>3. t \in Waiters /\ TakenBack(t, s, ev)
      BY <1>1, <1>2, <2>1, <2>2, TakenBackIs
    <2>4. Pending(s, ev, "add")
      BY <1>2, PendingIs
    <2>5. KqueueOK(t, Closed)
      BY <1>1, <2>3, <2>4, WithoutEvent
    <2> QED
      BY <2>1, <2>3, <2>5 DEF TakenBack
  <1>3. CASE ~(s.index[ev] \in DOMAIN s.list /\ s.list[s.index[ev]].ev = ev)
    <2>1. PICK u : u = [s EXCEPT !.active = @ \ {ev}, !.disabled = (@ \ {ev}) \cup {ev}]
      OBVIOUS
    <2>2. /\ u \in Waiters /\ Frame(u, s) /\ u.active = s.active \ {ev} /\ u.disabled = s.disabled \cup {ev}
          /\ u.list = s.list /\ u.kern = s.kern /\ u.index = s.index
      BY <1>1, <2>1 DEF Waiters, Frame
    <2>3. PICK t : t = KqueueSet(u, ev, "disable")
      OBVIOUS
    <2>4. t = KqueueDel(s, ev, "disable")
      <3>1. u = [[s EXCEPT !.active = @ \ {ev}, !.disabled = @ \ {ev}] EXCEPT !.disabled = @ \cup {ev}]
        BY <2>1 DEF Waiters
      <3> QED
        BY <1>3, <2>3, <3>1 DEF KqueueDel
    <2>5. PICK r : r = Room(s)
      OBVIOUS
    <2>6. ChangeSet(t, u, s, r, ev, "disable")
      BY <1>1, <2>2, <2>3, <2>5, KqueueSetIs
    <2>7. /\ r \in Waiters /\ KqueueOK(r, Closed) /\ Frame(r, s) /\ r.active = s.active /\ r.disabled = s.disabled
          /\ \A e, op : Pending(r, e, op) => Pending(s, e, op)
      BY <2>5, RoomOK
    <2>8. FdOf(r, ev) = FdOf(s, ev) /\ r.instance = s.instance /\ Open(r, ev[1]) /\ Frame(t, r)
      BY <1>1, <2>6, <2>7 DEF FdOf, Open, Frame, ChangeSet
    <2>9. KqueueOK(t, Closed) /\ t.index \in [Events -> Nat]
      <3>1. t.list = Append(r.list, [fd |-> FdOf(r, ev), ev |-> ev, instance |-> r.instance[ev[1]], op |-> "disable"])
        BY <2>6, <2>8 DEF ChangeSet
      <3>2. \A o : ~Pending(r, ev, o)
        BY <1>3, <2>7, PendingIs
      <3>3. t.active = r.active \ {ev} /\ t.disabled = r.disabled \cup {ev} /\ ev \in r.active
        BY <2>2, <2>6, <2>7 DEF ChangeSet
      <3>4. t.index = [r.index EXCEPT ![ev] = Len(r.list) + 1] /\ t.kern = r.kern
        BY <2>6 DEF ChangeSet
      <3> QED
        BY <1>1, <2>7, <2>8, <3>1, <3>2, <3>3, <3>4, ChangeAppended
    <2>10. t \in Waiters
      <3>1. t.list \in Lists /\ t.kern \in SUBSET Filters
        BY <2>9 DEF KqueueOK, Lists
      <3> QED
        BY <2>2, <2>6, <2>9, <3>1 DEF Waiters, ChangeSet
    <2> QED
      BY <2>2, <2>4, <2>6, <2>9, <2>10 DEF ChangeSet
  <1> QED
    BY <1>2, <1>3

(* An event of a connection that is closed: the kernel will forget its     *)
(* filter, and only the list needs care.                                   *)
LEMMA KqueueCloseOK ==
  ASSUME NEW s \in Waiters, ConnsOK(s), s.method = "kqueue", NEW left, KqueueOK(s, left), NEW ev \in Events, Open(s, ev[1]),
         left \in {Closed, FdOf(s, ev)}
  PROVE  LET t == CloseEvent(s, ev)
         IN /\ t \in Waiters /\ KqueueOK(t, FdOf(s, ev)) /\ Frame(t, s) /\ t.active = s.active \ {ev}
            /\ t.disabled = s.disabled \ {ev} /\ t.kern = s.kern
            /\ \A o : ~Pending(t, ev, o) /\ \A e : Pending(t, e, o) => Pending(s, e, o)
  <1> DEFINE fd == FdOf(s, ev)
  <1>1. PICK t : t = CloseEvent(s, ev)
    OBVIOUS
  <1>2. fd \in Fds /\ left \in Fds \cup {Closed}
    BY OpenFd
  <1>3. s.list \in Seq(KqueueChanges) /\ (\A i \in DOMAIN s.list : s.index[s.list[i].ev] = i) /\ s.index \in [Events -> Nat]
    BY PendingIs DEF KqueueOK, Waiters
  <1>4. t \in Waiters /\ TakenBack(t, s, ev)
    <2>1. CASE ev \notin s.active \cup s.disabled
      <3>1. t = s
        BY <1>1, <2>1 DEF CloseEvent
      <3>2. \A j \in DOMAIN s.list : s.list[j].ev # ev
        <4> SUFFICES ASSUME NEW j \in DOMAIN s.list, s.list[j].ev = ev PROVE FALSE
          OBVIOUS
        <4>1. Pending(s, ev, s.list[j].op)
          BY DEF Pending
        <4>2. \A o : Pending(s, ev, o) => ev \in s.active \cup s.disabled
          BY PendingIs
        <4> QED
          BY <2>1, <4>1, <4>2
      <3>3. t.active = s.active \ {ev} /\ t.disabled = s.disabled \ {ev}
        BY <2>1, <3>1
      <3> QED
        BY <1>3, <3>1, <3>2, <3>3 DEF TakenBack, Frame
    <2>2. CASE ev \in s.active \cup s.disabled
      <3>1. t = KqueueDel(s, ev, "close")
        BY <1>1, <2>2 DEF CloseEvent, Del
      <3>2. CASE s.index[ev] \in DOMAIN s.list /\ s.list[s.index[ev]].ev = ev
        BY <1>3, <3>1, <3>2, TakenBackIs
      <3>3. CASE ~(s.index[ev] \in DOMAIN s.list /\ s.list[s.index[ev]].ev = ev)
        <4>1. t = [s EXCEPT !.active = @ \ {ev}, !.disabled = @ \ {ev}]
          BY <3>1, <3>3 DEF KqueueDel
        <4>2. t \in Waiters /\ Frame(t, s) /\ t.active = s.active \ {ev} /\ t.disabled = s.disabled \ {ev} /\ t.kern = s.kern
              /\ t.list = s.list /\ t.index = s.index
          BY <4>1 DEF Waiters, Frame
        <4>3. \A j \in DOMAIN s.list : s.list[j].ev # ev
          BY <1>3, <3>3
        <4> QED
          BY <1>3, <4>2, <4>3 DEF TakenBack
      <3> QED
        BY <3>2, <3>3
    <2> QED
      BY <2>1, <2>2
  <1>5. KqueueOK(t, fd) /\ \A o : ~Pending(t, ev, o)
    <2>1. fd # Closed
      BY <1>2, MethodBasics
    <2> HIDE DEF fd
    <2>2. fd = FdOf(s, ev)
      BY DEF fd
    <2> QED
      BY <1>2, <1>4, <2>1, <2>2, WithoutEvent
  <1>6. \A e, o : Pending(t, e, o) => Pending(s, e, o)
    BY <1>4 DEF Pending, TakenBack
  <1> QED
    BY <1>1, <1>4, <1>5, <1>6 DEF TakenBack

-----------------------------------------------------------------------------
(* Any of the methods. *)

(* Only accepting is disabled. *)
LEMMA NoDisable ==
  ASSUME NEW s, NEW left, KqueueOK(s, left), NEW ev, ev # << Listening, "read" >>
  PROVE  ~Pending(s, ev, "disable")
  BY DEF KqueueOK, ChangeOK, Pending

(* The connections are not changed when an event is added or deleted. *)
LEMMA ConnsKept ==
  ASSUME NEW s \in Waiters, ConnsOK(s), NEW t, t.fd = s.fd, t.method = s.method,
         \A ev \in t.active : ev \in s.active \/ Open(s, ev[1]),
         t.disabled \subseteq s.disabled \cup (IF s.method = "kqueue" THEN {<< Listening, "read" >>} ELSE {})
  PROVE  ConnsOK(t)
  BY DEF ConnsOK, Open

(* ngx_add_event() *)
LEMMA AddOK ==
  ASSUME NEW s \in Waiters, ConnsOK(s), MethodOK(s), NEW ev \in Events, ev \notin s.active, Open(s, ev[1]),
         s.method = "kqueue" => ~Pending(s, ev, "disable")
  PROVE  LET t == Add(s, ev)
         IN t \in Waiters /\ ConnsOK(t) /\ MethodOK(t) /\ Frame(t, s) /\ t.active = s.active \cup {ev}
  <1>1. PICK t : t = Add(s, ev)
    OBVIOUS
  <1>2. s.method \in {"select", "poll", "devpoll", "kqueue"}
    BY DEF Waiters
  <1>3. t \in Waiters /\ MethodOK(t) /\ Frame(t, s) /\ t.active = s.active \cup {ev} /\ t.disabled \subseteq s.disabled
    <2>1. CASE s.method = "select"
      <3>1. t = SelectAdd(s, ev) /\ SelectOK(s)
        BY <1>1, <2>1 DEF Add, MethodOK
      <3>2. t \in Waiters /\ SelectOK(t) /\ Frame(t, s) /\ t.active = s.active \cup {ev} /\ t.disabled = s.disabled
        BY <3>1, SelectAddOK
      <3> QED
        BY <2>1, <3>2 DEF MethodOK, Frame
    <2>2. CASE s.method = "poll"
      <3>1. t = PollAdd(s, ev) /\ PollOK(s)
        BY <1>1, <2>2 DEF Add, MethodOK
      <3>2. t \in Waiters /\ PollOK(t) /\ Frame(t, s) /\ t.active = s.active \cup {ev} /\ t.disabled = s.disabled
        BY <3>1, PollAddOK
      <3> QED
        BY <2>2, <3>2 DEF MethodOK, Frame
    <2>3. CASE s.method = "devpoll"
      <3>1. t = DevpollAdd(s, ev) /\ DevpollOK(s)
        BY <1>1, <2>3 DEF Add, MethodOK
      <3>2. t \in Waiters /\ DevpollOK(t) /\ Frame(t, s) /\ t.active = s.active \cup {ev} /\ t.disabled = s.disabled
        BY <3>1, DevpollAddOK
      <3> QED
        BY <2>3, <3>2 DEF MethodOK, Frame
    <2>4. CASE s.method = "kqueue"
      <3>1. t = KqueueAdd(s, ev) /\ KqueueOK(s, Closed)
        BY <1>1, <2>4 DEF Add, MethodOK
      <3>2. /\ t \in Waiters /\ KqueueOK(t, Closed) /\ Frame(t, s) /\ t.active = s.active \cup {ev}
            /\ t.disabled = s.disabled \ {ev}
        BY <2>4, <3>1, KqueueAddOK
      <3> QED
        BY <2>4, <3>2 DEF MethodOK, Frame
    <2> QED
      BY <1>2, <2>1, <2>2, <2>3, <2>4
  <1>4. ConnsOK(t)
    <2>1. t.fd = s.fd /\ t.method = s.method /\ \A e \in t.active : e \in s.active \/ Open(s, e[1])
      BY <1>3 DEF Frame
    <2> QED
      BY <1>3, <2>1, ConnsKept
  <1> QED
    BY <1>1, <1>3, <1>4

(* ngx_del_event() of the methods but kqueue; of kqueue when accepting is  *)
(* disabled.                                                               *)
LEMMA DelOK ==
  ASSUME NEW s \in Waiters, ConnsOK(s), MethodOK(s), NEW ev \in s.active, NEW how,
         s.method = "kqueue" => ev = << Listening, "read" >> /\ how = "disable"
  PROVE  LET t == Del(s, ev, how)
         IN /\ t \in Waiters /\ ConnsOK(t) /\ MethodOK(t) /\ Frame(t, s) 
            /\ t.active \in {s.active \ {ev}, s.active \ {ev, Pair(ev)}}
  <1>1. PICK t : t = Del(s, ev, how)
    OBVIOUS
  <1>2. s.method \in {"select", "poll", "devpoll", "kqueue"}
    BY DEF Waiters
  <1>3. /\ t \in Waiters /\ MethodOK(t) /\ Frame(t, s) /\ t.active \in {s.active \ {ev}, s.active \ {ev, Pair(ev)}}
        /\ t.disabled \subseteq s.disabled \cup (IF s.method = "kqueue" THEN {<< Listening, "read" >>} ELSE {})
    <2>1. CASE s.method = "select"
      <3>1. t = SelectDel(s, ev) /\ SelectOK(s)
        BY <1>1, <2>1 DEF Del, MethodOK
      <3>2. t \in Waiters /\ SelectOK(t) /\ Frame(t, s) /\ t.active = s.active \ {ev} /\ t.disabled = s.disabled
        BY <3>1, SelectDelOK
      <3> QED
        BY <2>1, <3>2 DEF MethodOK, Frame
    <2>2. CASE s.method = "poll"
      <3>1. t = PollDel(s, ev) /\ PollOK(s)
        BY <1>1, <2>2 DEF Del, MethodOK
      <3>2. t \in Waiters /\ PollOK(t) /\ Frame(t, s) /\ t.active = s.active \ {ev} /\ t.disabled = s.disabled
        BY <3>1, PollDelOK
      <3> QED
        BY <2>2, <3>2 DEF MethodOK, Frame
    <2>3. CASE s.method = "devpoll"
      <3>1. PICK close \in BOOLEAN : close = (how = "close")
        OBVIOUS
      <3>2. t = DevpollDel(s, ev, close) /\ DevpollOK(s)
        BY <1>1, <2>3, <3>1 DEF Del, MethodOK
      <3>3. /\ t \in Waiters /\ DevpollOK(t) /\ Frame(t, s) /\ t.disabled = s.disabled
            /\ t.active = IF close THEN s.active \ {ev, Pair(ev)} ELSE s.active \ {ev}
        BY <3>2, DevpollDelOK, ZenonT(40)
      <3> QED
        BY <2>3, <3>3 DEF MethodOK, Frame
    <2>4. CASE s.method = "kqueue"
      <3>1. t = KqueueDel(s, ev, "disable") /\ KqueueOK(s, Closed) /\ ev = << Listening, "read" >>
        BY <1>1, <2>4 DEF Del, MethodOK
      <3>2. /\ t \in Waiters /\ KqueueOK(t, Closed) /\ Frame(t, s) /\ t.active = s.active \ {ev}
            /\ t.disabled \subseteq s.disabled \cup {ev}
        BY <3>1, KqueueDisableOK
      <3> QED
        BY <2>4, <3>1, <3>2 DEF MethodOK, Frame
    <2> QED
      BY <1>2, <2>1, <2>2, <2>3, <2>4
  <1>4. ConnsOK(t)
    <2>1. t.fd = s.fd /\ t.method = s.method /\ \A e \in t.active : e \in s.active \/ Open(s, e[1])
      BY <1>3 DEF Frame
    <2> QED
      BY <1>3, <2>1, ConnsKept
  <1> QED
    BY <1>1, <1>3, <1>4

(* The flag `ready` is no concern of the method. *)
LEMMA ReadyOK ==
  ASSUME NEW s, Sound(s), NEW ready \in SUBSET Events
  PROVE  Sound([s EXCEPT !.ready = ready])
  <1>1. PICK t : t = [s EXCEPT !.ready = ready]
    OBVIOUS
  <1>2. /\ t \in Waiters /\ t.method = s.method /\ t.fd = s.fd /\ t.instance = s.instance /\ t.active = s.active
        /\ t.disabled = s.disabled /\ t.index = s.index /\ t.list = s.list /\ t.master = s.master /\ t.max = s.max
        /\ t.kern = s.kern
    BY <1>1 DEF Waiters, Sound
  <1>3. ConnsOK(t)
    BY <1>2 DEF Sound, ConnsOK, Open
  <1>4. \A e : FdOf(t, e) = FdOf(s, e) /\ FilterOf(t, e) = FilterOf(s, e) /\ (Open(t, e[1]) <=> Open(s, e[1]))
    BY <1>2 DEF FdOf, FilterOf, Open
  <1>5. Registered(t) = Registered(s) /\ DevpollKern(t) = DevpollKern(s)
    BY <1>2 DEF Registered, FdOf, DevpollKern
  <1>6. \A e, o : Pending(t, e, o) <=> Pending(s, e, o)
    BY <1>2 DEF Pending
  <1>7. SelectOK(s) => SelectOK(t)
    BY <1>2, <1>4, <1>5 DEF SelectOK
  <1>8. PollOK(s) => PollOK(t)
    BY <1>2, <1>4 DEF PollOK
  <1>9. DevpollOK(s) => DevpollOK(t)
    BY <1>2, <1>5 DEF DevpollOK
  <1>10. KqueueOK(s, Closed) => KqueueOK(t, Closed)
    <2>1. \A i : ChangeOK(s, i) => ChangeOK(t, i)
      BY <1>2, <1>4 DEF ChangeOK
    <2>2. \A k : FilterOK(s, k) => FilterOK(t, k)
      BY <1>2, <1>4, <1>6 DEF FilterOK
    <2> QED
      BY <1>2, <1>4, <1>6, <2>1, <2>2 DEF KqueueOK
  <1>11. MethodOK(t)
    BY <1>2, <1>7, <1>8, <1>9, <1>10 DEF Sound, MethodOK, Waiters
  <1> QED
    BY <1>1, <1>2, <1>3, <1>11 DEF Sound

(* The descriptor of a connection without events changes. *)
Rebound(u, t, c) ==
  /\ u.method = t.method /\ u.active = t.active /\ u.disabled = t.disabled /\ u.list = t.list
  /\ u.master = t.master /\ u.max = t.max
  /\ u.kern = IF t.method = "kqueue" THEN {k \in t.kern : k.fd # t.fd[c]} ELSE t.kern
  /\ \A d \in Conns : d # c => u.fd[d] = t.fd[d] /\ u.instance[d] = t.instance[d]
  /\ \A e \in Events : IF e[1] # c THEN u.index[e] = t.index[e] ELSE u.index[e] \in {t.index[e], NoIndex}

(* What the methods keep does not depend on that descriptor. *)
LEMMA ReboundOK ==
  ASSUME NEW t \in Waiters, ConnsOK(t), NEW c \in Conns, \A e \in t.active : e[1] # c, NEW u \in Waiters, Rebound(u, t, c),
         t.method # "kqueue" => MethodOK(t),
         t.method = "kqueue" => KqueueOK(t, t.fd[c]) /\ \A e \in Events : \A o : e[1] = c => ~Pending(t, e, o)
  PROVE  MethodOK(u)
  <1>1. u.active = t.active /\ u.list = t.list /\ t.active \subseteq Events /\ u.method = t.method
        /\ u.master = t.master /\ u.max = t.max /\ u.disabled = t.disabled
    BY DEF Waiters, Rebound
  <1>2. \A e \in Events : e[1] # c => /\ FdOf(u, e) = FdOf(t, e) /\ FilterOf(u, e) = FilterOf(t, e) /\ u.index[e] = t.index[e]
                                      /\ (Open(u, e[1]) <=> Open(t, e[1])) /\ u.instance[e[1]] = t.instance[e[1]]
    BY EventIs DEF Rebound, FdOf, FilterOf, Open
  <1>3. \A e \in t.active : e \in Events /\ e[1] # c
    BY <1>1
  <1>4. Registered(u) = Registered(t)
    BY <1>1, <1>2, <1>3 DEF Registered
  <1>5. \A e \in Events : e \notin t.active /\ t.index[e] = NoIndex => u.index[e] = NoIndex
    BY DEF Rebound
  <1>6. CASE t.method = "select"
    <2>1. SelectOK(t)
      BY <1>6 DEF MethodOK
    <2>2. \A e \in t.active : u.index[e] = t.index[e] /\ FdOf(u, e) = FdOf(t, e)
      BY <1>2, <1>3
    <2>3. \A i \in DOMAIN u.list : u.list[i] \in u.active /\ u.index[u.list[i]] = i
      BY <1>1, <2>1, <2>2 DEF SelectOK
    <2>4. \A e \in Events : IF e \in u.active THEN u.index[e] \in DOMAIN u.list /\ u.list[u.index[e]] = e
                                              ELSE u.index[e] = NoIndex
      BY <1>1, <1>5, <2>1, <2>2 DEF SelectOK
    <2>5. SelectOK(u)
      BY <1>1, <1>4, <2>1, <2>2, <2>3, <2>4 DEF SelectOK
    <2> QED
      BY <1>1, <1>6, <2>5 DEF MethodOK
  <1>7. CASE t.method = "poll"
    <2>1. PollOK(t)
      BY <1>7 DEF MethodOK
    <2>2. \A e \in t.active : u.index[e] = t.index[e] /\ FdOf(u, e) = FdOf(t, e)
      BY <1>2, <1>3
    <2>3. \A i \in DOMAIN u.list : \E e \in u.active : u.index[e] = i
      <3>1. \A i \in DOMAIN t.list : \E e \in t.active : t.index[e] = i
        BY <2>1 DEF PollOK
      <3> QED
        BY <1>1, <2>2, <3>1
    <2>4. \A e \in Events :
            IF e \in u.active
            THEN /\ u.index[e] \in DOMAIN u.list /\ u.list[u.index[e]].fd = FdOf(u, e)
                 /\ u.list[u.index[e]].sides = {side \in Sides : << e[1], side >> \in u.active}
            ELSE u.index[e] = NoIndex
      <3> TAKE e \in Events
      <3>1. CASE e \in u.active
        BY <1>1, <2>1, <2>2, <3>1, SMTT(40) DEF PollOK
      <3>2. CASE e \notin u.active
        BY <1>1, <1>5, <2>1, <3>2 DEF PollOK
      <3> QED
        BY <3>1, <3>2
    <2>5. PollOK(u)
      BY <1>1, <2>1, <2>3, <2>4 DEF PollOK
    <2> QED
      BY <1>1, <1>7, <2>5 DEF MethodOK
  <1>8. CASE t.method = "devpoll"
    <2>1. DevpollOK(t) /\ u.kern = t.kern
      BY <1>8 DEF MethodOK, Rebound
    <2>2. DevpollKern(u) = DevpollKern(t)
      BY <1>1, <2>1 DEF DevpollKern
    <2> QED
      BY <1>1, <1>4, <1>8, <2>1, <2>2 DEF MethodOK, DevpollOK
  <1>9. CASE t.method = "kqueue"
    <2>1. KqueueOK(t, t.fd[c]) /\ u.kern = {k \in t.kern : k.fd # t.fd[c]}
      BY <1>9 DEF Rebound
    <2>2. \A i \in DOMAIN t.list : t.list[i] \in KqueueChanges /\ t.list[i].ev \in Events
      <3>1. \A i \in DOMAIN t.list : t.list[i] \in KqueueChanges
        BY <2>1 DEF KqueueOK
      <3> QED
        BY <3>1 DEF KqueueChanges
    <2>3. \A i \in DOMAIN t.list : t.list[i].ev[1] # c
      <3> SUFFICES ASSUME NEW i \in DOMAIN t.list, t.list[i].ev[1] = c PROVE FALSE
        OBVIOUS
      <3>1. Pending(t, t.list[i].ev, t.list[i].op)
        BY DEF Pending
      <3> QED
        BY <1>9, <2>2, <3>1
    <2>4. \A i \in DOMAIN u.list : ChangeOK(u, i)
      <3> TAKE i \in DOMAIN u.list
      <3>1. PICK ch : ch = t.list[i]
        OBVIOUS
      <3>2. ch.ev \in Events /\ ch.ev[1] # c /\ ChangeOK(t, i) /\ u.list[i] = ch
        BY <1>1, <2>1, <2>2, <2>3, <3>1 DEF KqueueOK
      <3> QED
        BY <1>1, <1>2, <3>1, <3>2 DEF ChangeOK
    <2>5. \A e, o : Pending(u, e, o) <=> Pending(t, e, o)
      BY <1>1 DEF Pending
    <2>6. \A k \in u.kern : FilterOK(u, k)
      <3> TAKE k \in u.kern
      <3>1. k \in t.kern /\ k.fd # t.fd[c] /\ k \in Filters /\ FilterOK(t, k)
        BY <2>1 DEF KqueueOK
      <3>2. k.ev \in Events
        BY <3>1 DEF Filters
      <3>3. k.ev[1] # c
        BY <3>1 DEF FilterOK, FilterOf, FdOf
      <3> QED
        BY <1>1, <1>2, <2>5, <3>1, <3>2, <3>3 DEF FilterOK
    <2>7. \A e \in u.active : FilterOf(u, e) \in u.kern \/ Pending(u, e, "add")
      <3> TAKE e \in u.active
      <3>1. e \in Events /\ e[1] # c /\ Open(t, e[1]) /\ e[1] \in Conns
        BY <1>1, <1>3, EventIs DEF ConnsOK
      <3>2. FilterOf(t, e) \in t.kern \/ Pending(t, e, "add")
        BY <1>1, <2>1 DEF KqueueOK
      <3>3. FilterOf(t, e).fd = t.fd[e[1]] /\ t.fd[e[1]] # t.fd[c]
        BY <3>1 DEF FilterOf, FdOf, ConnsOK
      <3> QED
        BY <1>2, <2>1, <2>5, <3>1, <3>2, <3>3
    <2>8. u.kern \subseteq Filters
      BY <2>1 DEF KqueueOK
    <2>9. KqueueOK(u, Closed)
      BY <1>1, <2>1, <2>4, <2>6, <2>7, <2>8 DEF KqueueOK
    <2> QED
      BY <1>1, <1>9, <2>9 DEF MethodOK
  <1> QED
    BY <1>6, <1>7, <1>8, <1>9 DEF Waiters

(* An event of a connection that is closed, of the other methods.          *)
LEMMA CloseEventOK ==
  ASSUME NEW s, Sound(s), s.method # "kqueue", NEW ev \in Events
  PROVE  LET t == CloseEvent(s, ev)
         IN Sound(t) /\ Frame(t, s) /\ t.active \subseteq s.active \ {ev}
  <1>1. s \in Waiters /\ ConnsOK(s) /\ MethodOK(s) /\ s.disabled = {}
    BY DEF Sound, ConnsOK
  <1>2. CASE ev \notin s.active
    <2>1. CloseEvent(s, ev) = s
      BY <1>1, <1>2 DEF CloseEvent
    <2> QED
      BY <1>2, <2>1 DEF Frame
  <1>3. CASE ev \in s.active
    <2>1. PICK t, how : t = Del(s, ev, how) /\ how = "close"
      OBVIOUS
    <2>2. CloseEvent(s, ev) = t
      BY <1>3, <2>1 DEF CloseEvent
    <2>3. /\ t \in Waiters /\ ConnsOK(t) /\ MethodOK(t) /\ Frame(t, s) 
          /\ t.active \in {s.active \ {ev}, s.active \ {ev, Pair(ev)}}
      BY <1>1, <1>3, <2>1, DelOK
    <2> QED
      BY <2>2, <2>3 DEF Sound
  <1> QED
    BY <1>2, <1>3

(* ngx_close_connection() *)
LEMMA ShutOK ==
  ASSUME NEW s, Sound(s), NEW c \in Conns, Open(s, c)
  PROVE  Sound(Shut(s, c))
  <1> DEFINE rev == << c, "read" >>
             wev == << c, "write" >>
             fd == s.fd[c]
  <1>1. rev \in Events /\ wev \in Events /\ rev[1] = c /\ wev[1] = c /\ \A e \in Events : e[1] = c => e = rev \/ e = wev
    BY EventIs DEF Sides, Events
  <1>2. PICK a, b : a = CloseEvent(s, rev) /\ b = CloseEvent(a, wev)
    OBVIOUS
  <1> HIDE DEF rev, wev
  <1>3. s \in Waiters /\ ConnsOK(s) /\ MethodOK(s) /\ FdOf(s, rev) = fd /\ FdOf(s, wev) = fd
    BY <1>1 DEF Sound, FdOf
  <1>4. /\ b \in Waiters /\ ConnsOK(b) /\ Frame(b, s) /\ (\A e \in b.active : e[1] # c)
        /\ b.method # "kqueue" => MethodOK(b)
        /\ b.method = "kqueue" => KqueueOK(b, b.fd[c]) /\ \A e \in Events : \A o : e[1] = c => ~Pending(b, e, o)
    <2>1. CASE s.method # "kqueue"
      <3>1. Sound(a) /\ Frame(a, s) /\ a.active \subseteq s.active \ {rev}
        BY <1>1, <1>2, <2>1, CloseEventOK
      <3>2. a.method # "kqueue"
        BY <2>1, <3>1 DEF Frame
      <3>3. Sound(b) /\ Frame(b, a) /\ b.active \subseteq a.active \ {wev}
        BY <1>1, <1>2, <3>1, <3>2, CloseEventOK
      <3>4. \A e \in b.active : e[1] # c
        BY <1>1, <3>1, <3>3 DEF Sound, Waiters
      <3> QED
        BY <2>1, <3>1, <3>3, <3>4 DEF Frame, Sound
    <2>2. CASE s.method = "kqueue"
      <3>1. KqueueOK(s, Closed) /\ Open(s, rev[1]) /\ Open(s, wev[1])
        BY <1>1, <1>3, <2>2 DEF MethodOK
      <3>2. /\ a \in Waiters /\ KqueueOK(a, fd) /\ Frame(a, s) /\ a.active = s.active \ {rev}
            /\ a.disabled = s.disabled \ {rev}
            /\ \A o : ~Pending(a, rev, o) /\ \A e : Pending(a, e, o) => Pending(s, e, o)
        <4>1. Closed \in {Closed, FdOf(s, rev)} /\ a = CloseEvent(s, rev) /\ s \in Waiters /\ ConnsOK(s) /\ rev \in Events
          BY <1>1, <1>2, <1>3
        <4>2. /\ a \in Waiters /\ KqueueOK(a, FdOf(s, rev)) /\ Frame(a, s) /\ a.active = s.active \ {rev}
              /\ a.disabled = s.disabled \ {rev}
              /\ \A o : ~Pending(a, rev, o) /\ \A e : Pending(a, e, o) => Pending(s, e, o)
          BY <2>2, <3>1, <4>1, KqueueCloseOK
        <4> QED
          BY <1>3, <4>2
      <3>3. a.fd = s.fd /\ a.method = "kqueue" /\ FdOf(a, wev) = fd /\ Open(a, wev[1])
        BY <1>1, <2>2, <3>1, <3>2 DEF Frame, FdOf, Open
      <3>4. ConnsOK(a)
        BY <1>3, <2>2, <3>2, <3>3, ConnsKept
      <3>5. /\ b \in Waiters /\ KqueueOK(b, FdOf(a, wev)) /\ Frame(b, a) /\ b.active = a.active \ {wev}
            /\ b.disabled = a.disabled \ {wev}
            /\ \A o : ~Pending(b, wev, o) /\ \A e : Pending(b, e, o) => Pending(a, e, o)
        BY <1>1, <1>2, <3>2, <3>3, <3>4, KqueueCloseOK, SMTT(40)
      <3>6. b.fd = a.fd /\ b.method = a.method /\ Frame(b, s)
        BY <3>2, <3>5 DEF Frame
      <3>7. ConnsOK(b)
        BY <3>2, <3>3, <3>4, <3>5, <3>6, ConnsKept
      <3>8. \A e \in b.active : e[1] # c
        BY <1>1, <3>2, <3>5 DEF Waiters
      <3>9. \A e \in Events : \A o : e[1] = c => ~Pending(b, e, o)
        BY <1>1, <3>2, <3>5
      <3> QED
        BY <3>3, <3>5, <3>6, <3>7, <3>8, <3>9
    <2> QED
      BY <2>1, <2>2
  <1>5. PICK kern : kern = IF Clear(s) THEN {k \in b.kern : k.fd # s.fd[c]} ELSE b.kern
    OBVIOUS
  <1>6. PICK u : u = [b EXCEPT !.fd = [b.fd EXCEPT ![c] = Closed], !.kern = kern]
    OBVIOUS
  <1>7. Shut(s, c) = u
    BY <1>2, <1>5, <1>6 DEF Shut, rev, wev
  <1>8. b.fd = s.fd /\ b.method = s.method /\ (Clear(s) <=> b.method = "kqueue")
    BY <1>4 DEF Frame, Clear
  <1>9. /\ u.fd = [b.fd EXCEPT ![c] = Closed] /\ u.kern = kern /\ u.method = b.method /\ u.active = b.active
        /\ u.disabled = b.disabled /\ u.list = b.list /\ u.master = b.master /\ u.max = b.max /\ u.instance = b.instance
        /\ u.index = b.index
    BY <1>4, <1>6 DEF Waiters
  <1>10. kern \in (SUBSET (Fds \X Sides)) \cup (SUBSET Filters)
    BY <1>4, <1>5 DEF Waiters
  <1>11. u \in Waiters /\ \A d \in Conns : u.fd[d] = IF d = c THEN Closed ELSE b.fd[d]
    BY <1>4, <1>6, <1>9, <1>10 DEF Waiters
  <1>12. Rebound(u, b, c)
    BY <1>5, <1>8, <1>9, <1>11 DEF Rebound
  <1>13. MethodOK(u)
    BY <1>4, <1>11, <1>12, ReboundOK
  <1>14. ConnsOK(u)
    <2>1. \A e \in u.active : Open(u, e[1])
      BY <1>4, <1>9, <1>11, EventIs DEF ConnsOK, Open, Waiters
    <2>2. \A d, e \in Conns : u.fd[d] = u.fd[e] /\ Open(u, d) => d = e
      BY <1>4, <1>11 DEF ConnsOK, Open
    <2> QED
      BY <1>4, <1>9, <2>1, <2>2 DEF ConnsOK
  <1> QED
    BY <1>7, <1>11, <1>13, <1>14 DEF Sound

(* The least element of a set of numbers, which stands for induction. *)
LEMMA LeastNumber ==
  ASSUME NEW T \in SUBSET Nat, T # {}
  PROVE  \E x \in T : \A y \in T : x <= y
  <1> DEFINE Upto == {1 .. x : x \in T}
             R == StrictSubsetOrdering(Nat)
  <1>1. Upto \subseteq FiniteSubsetsOf(Nat) /\ Upto # {}
    <2>1. \A x \in T : 1 .. x \in SUBSET Nat /\ IsFiniteSet(1 .. x)
      BY FS_Interval
    <2> QED
      BY <2>1 DEF FiniteSubsetsOf
  <1>2. IsWellFoundedOn(R, FiniteSubsetsOf(Nat))
    BY FS_StrictSubsetOrderingWellFounded
  <1>3. \E U \in Upto : \A V \in Upto : ~ << V, U >> \in R
    <2> HIDE DEF Upto, R
    <2> QED
      BY <1>1, <1>2, WFMin
  <1>4. PICK x \in T : \A y \in T : << 1 .. y, 1 .. x >> \notin R
    BY <1>3
  <1>5. ASSUME NEW y \in T, y < x
        PROVE  FALSE
    <2>1. 1 .. y \subseteq 1 .. x /\ x \in 1 .. x /\ x \notin 1 .. y
      BY <1>5
    <2>2. << 1 .. y, 1 .. x >> \in R
      BY <2>1 DEF StrictSubsetOrdering
    <2> QED
      BY <1>4, <2>2
  <1> QED
    BY <1>5

(* There are as many descriptors as connections: one that is closed leaves *)
(* a descriptor free, and the lowest is taken.                             *)
LEMMA FreeFd ==
  ASSUME NEW s \in Waiters, NEW c \in Conns, ~Open(s, c)
  PROVE  LET fd == Min({fd \in Fds : \A d \in Conns : s.fd[d] # fd})
         IN fd \in Fds /\ \A d \in Conns : s.fd[d] # fd
  <1> DEFINE Free == {fd \in Fds : \A d \in Conns : s.fd[d] # fd}
             others == Conns \ {c}
             f == [d \in others |-> s.fd[d]]
             T == {s.fd[d] : d \in others}
             N == Cardinality(Clients)
  <1>1. /\ IsFiniteSet(Conns) /\ N \in Nat /\ Cardinality(Conns) = N + 1 /\ Fds \subseteq Nat /\ Closed \notin Fds
        /\ Fds = 0 .. N
    BY MethodBasics DEF Fds
  <1>2. IsFiniteSet(others) /\ Cardinality(others) = N
    <2>1. IsFiniteSet(others) /\ Cardinality(others) = Cardinality(Conns) - 1
      BY <1>1, FS_RemoveElement
    <2> QED
      BY <1>1, <2>1
  <1>3. IsFiniteSet(T) /\ Cardinality(T) <= N
    <2>1. f \in Surjection(others, T)
      BY DEF Surjection
    <2>2. IsFiniteSet(T) /\ Cardinality(T) <= Cardinality(others)
      <3> HIDE DEF f, T, others
      <3> QED
        BY <1>2, <2>1, FS_Surjection
    <2> QED
      BY <1>2, <2>2
  <1>4. Cardinality(Fds) = N + 1
    <2>1. Cardinality(0 .. N) = IF 0 > N THEN 0 ELSE N - 0 + 1
      BY <1>1, FS_Interval
    <2> QED
      BY <1>1, <2>1
  <1>5. ~(Fds \subseteq T)
    <2> SUFFICES ASSUME Fds \subseteq T PROVE FALSE
      OBVIOUS
    <2>1. Cardinality(Fds) <= Cardinality(T)
      BY <1>3, FS_Subset
    <2>2. Cardinality(T) \in Nat
      BY <1>3, FS_CardinalityType
    <2> QED
      BY <1>1, <1>3, <1>4, <2>1, <2>2
  <1>6. Free # {}
    <2>1. PICK fd \in Fds : fd \notin T
      BY <1>5
    <2>2. s.fd[c] # fd
      BY <1>1 DEF Open
    <2> QED
      BY <2>1, <2>2
  <1>7. Free \in SUBSET Nat
    BY <1>1
  <1>8. Min(Free) \in Free
    <2> HIDE DEF Free
    <2>1. \E x \in Free : \A y \in Free : x <= y
      BY <1>6, <1>7, LeastNumber
    <2> QED
      BY <2>1 DEF Min
  <1> QED
    BY <1>8

(* ngx_get_connection() for a new socket *)
LEMMA TakenOK ==
  ASSUME NEW s, Sound(s), NEW c \in Clients, ~Open(s, c)
  PROVE  LET t == Taken(s, c)
         IN /\ Sound(t) /\ Open(t, c) /\ t.method = s.method /\ t.active = s.active
            /\ \A side \in Sides : << c, side >> \in Events /\ << c, side >> \notin t.active
  <1> DEFINE both == {c} \X {"read", "write"}
  <1>1. s \in Waiters /\ ConnsOK(s) /\ MethodOK(s) /\ c \in Conns /\ c # Listening /\ Listening \in Conns
    BY MethodBasics DEF Sound
  <1>2. \A e : e \in both <=> e \in Events /\ e[1] = c
    BY <1>1 DEF Events, Sides
  <1>3. \A side \in Sides : << c, side >> \in Events /\ << c, side >> \in both
    BY <1>1, EventIs DEF Sides
  <1>4. \A e \in s.active : e[1] # c
    BY <1>1 DEF ConnsOK
  <1>5. PICK fd : fd = Min({x \in Fds : \A d \in Conns : s.fd[d] # x})
    OBVIOUS
  <1>6. fd \in Fds /\ fd # Closed /\ \A d \in Conns : s.fd[d] # fd
    <2>1. fd \in Fds /\ \A d \in Conns : s.fd[d] # fd
      BY <1>1, <1>5, FreeFd
    <2> QED
      BY <2>1, MethodBasics
  <1> HIDE DEF both
  <1>7. PICK index : index = [e \in DOMAIN s.index |-> IF e \in both THEN NoIndex ELSE s.index[e]]
    OBVIOUS
  <1>8. index \in [Events -> Nat] /\ \A e \in Events : index[e] = IF e \in both THEN NoIndex ELSE s.index[e]
    BY <1>1, <1>7 DEF Waiters, NoIndex
  <1>9. PICK instance : instance = [s.instance EXCEPT ![c] = Clear(s) /\ ~@]
    OBVIOUS
  <1>10. instance \in [Conns -> BOOLEAN] /\ \A d \in Conns : d # c => instance[d] = s.instance[d]
    <2>1. (Clear(s) /\ ~s.instance[c]) \in BOOLEAN
      OBVIOUS
    <2> QED
      BY <1>1, <1>9, <2>1 DEF Waiters
  <1>11. PICK fds : fds = [s.fd EXCEPT ![c] = fd]
    OBVIOUS
  <1>12. fds \in [Conns -> Fds \cup {Closed}] /\ \A d \in Conns : fds[d] = IF d = c THEN fd ELSE s.fd[d]
    BY <1>1, <1>6, <1>11 DEF Waiters
  <1>13. PICK t : t = [s EXCEPT !.fd = fds, !.instance = instance, !.active = @ \ both, !.ready = @ \ both,
                                !.disabled = @ \ both, !.index = index]
    OBVIOUS
  <1>14. t = Taken(s, c)
    BY <1>5, <1>7, <1>9, <1>11, <1>13 DEF Taken, both
  <1>15. s.active \ both = s.active /\ s.disabled \ both = s.disabled
    <2>1. s.active \ both = s.active
      BY <1>2, <1>4
    <2>2. \A e \in s.disabled : e = << Listening, "read" >>
      BY <1>1 DEF ConnsOK
    <2>3. << Listening, "read" >> \notin both
      BY <1>1 DEF both
    <2> QED
      BY <2>1, <2>2, <2>3
  <1>16. /\ t.fd = fds /\ t.instance = instance /\ t.active = s.active /\ t.ready = s.ready \ both
         /\ t.disabled = s.disabled /\ t.index = index /\ t.method = s.method /\ t.list = s.list /\ t.master = s.master
         /\ t.max = s.max /\ t.kern = s.kern
    BY <1>1, <1>13, <1>15 DEF Waiters
  <1>17. t \in Waiters
    BY <1>1, <1>8, <1>10, <1>12, <1>13 DEF Waiters
  <1>18. Rebound(t, s, c)
    <2>1. s.method = "kqueue" => s.kern = {k \in s.kern : k.fd # s.fd[c]}
      <3> SUFFICES ASSUME s.method = "kqueue", NEW k \in s.kern PROVE k.fd # s.fd[c]
        OBVIOUS
      <3>1. k \in Filters
        BY <1>1 DEF MethodOK, KqueueOK
      <3> QED
        BY <3>1, MethodBasics DEF Filters, Open
    <2>2. \A e \in Events : IF e[1] # c THEN t.index[e] = s.index[e] ELSE t.index[e] \in {s.index[e], NoIndex}
      BY <1>2, <1>8, <1>16
    <2>3. \A d \in Conns : d # c => t.fd[d] = s.fd[d] /\ t.instance[d] = s.instance[d]
      BY <1>10, <1>12, <1>16
    <2> QED
      BY <1>16, <2>1, <2>2, <2>3 DEF Rebound
  <1>19. s.method = "kqueue" => KqueueOK(s, s.fd[c]) /\ \A e \in Events : \A o : e[1] = c => ~Pending(s, e, o)
    <2> SUFFICES ASSUME s.method = "kqueue"
                 PROVE  KqueueOK(s, s.fd[c]) /\ \A e \in Events : \A o : e[1] = c => ~Pending(s, e, o)
      OBVIOUS
    <2>1. KqueueOK(s, Closed) /\ s.fd[c] = Closed
      BY <1>1 DEF MethodOK, Open
    <2>2. \A i \in DOMAIN s.list : Open(s, s.list[i].ev[1])
      BY <2>1 DEF KqueueOK, ChangeOK
    <2> QED
      BY <2>1, <2>2 DEF Pending
  <1>20. MethodOK(t)
    BY <1>1, <1>4, <1>17, <1>18, <1>19, ReboundOK
  <1>21. ConnsOK(t)
    <2>1. \A e \in t.active : Open(t, e[1])
      BY <1>1, <1>4, <1>12, <1>16, EventIs DEF ConnsOK, Open, Waiters
    <2>2. \A d, e \in Conns : t.fd[d] = t.fd[e] /\ Open(t, d) => d = e
      BY <1>1, <1>6, <1>12, <1>16 DEF ConnsOK, Open
    <2> QED
      BY <1>1, <1>16, <2>1, <2>2 DEF ConnsOK
  <1>22. Open(t, c)
    BY <1>1, <1>6, <1>12, <1>16 DEF Open
  <1>23. \A side \in Sides : << c, side >> \in Events /\ << c, side >> \notin t.active
    BY <1>1, <1>4, <1>16, EventIs
  <1> QED
    BY <1>14, <1>16, <1>17, <1>20, <1>21, <1>22, <1>23 DEF Sound

(* What select() is given: the highest descriptor is known. *)
LEMMA SelectMaxIs ==
  ASSUME NEW s \in Waiters, ConnsOK(s), SelectOK(s)
  PROVE  SelectMax(s) \in Int /\ \A ev \in s.active : FdOf(s, ev) <= SelectMax(s)
  <1> DEFINE N == Cardinality(Clients)
             S == {-1} \cup {FdOf(s, s.list[i]) : i \in DOMAIN s.list}
             T == {n \in Nat : N - n \in S}
  <1>1. N \in Nat /\ Fds = 0 .. N /\ s.max \in Int /\ s.active \subseteq Events
    BY MethodBasics DEF Waiters, Fds
  <1>2. \A ev \in s.active : FdOf(s, ev) \in Fds
    BY <1>1, OpenFd DEF ConnsOK
  <1>3. \A i \in DOMAIN s.list : s.list[i] \in s.active
    BY DEF SelectOK
  <1>4. S \subseteq -1 .. N
    BY <1>1, <1>2, <1>3
  <1>5. \A ev \in s.active : FdOf(s, ev) \in S
    <2> TAKE ev \in s.active
    <2>1. s.index[ev] \in DOMAIN s.list /\ s.list[s.index[ev]] = ev
      BY <1>1 DEF SelectOK
    <2> QED
      BY <2>1
  <1>6. Max(S) \in S /\ \A y \in S : Max(S) >= y
    <2>1. -1 \in S
      OBVIOUS
    <2> HIDE DEF S
    <2>2. N + 1 \in T
      BY <1>1, <2>1
    <2>3. T \in SUBSET Nat /\ T # {}
      BY <2>2
    <2>4. PICK n \in T : \A m \in T : n <= m
      <3> HIDE DEF T
      <3> QED
        BY <2>3, LeastNumber
    <2>5. N - n \in S /\ n \in Nat
      BY <2>4
    <2>6. \A y \in S : N - n >= y
      <3> TAKE y \in S
      <3>1. y \in -1 .. N
        BY <1>4
      <3>2. N - y \in Nat /\ N - (N - y) = y
        BY <1>1, <3>1
      <3>3. n <= N - y
        BY <2>4, <3>2
      <3> QED
        BY <1>1, <2>5, <3>1, <3>3
    <2> QED
      BY <2>5, <2>6 DEF Max
  <1>7. SelectMax(s) = IF s.max # -1 THEN s.max ELSE Max(S)
    BY DEF SelectMax
  <1>8. CASE s.max # -1
    BY <1>1, <1>7, <1>8 DEF SelectOK
  <1>9. CASE s.max = -1
    <2> HIDE DEF S
    <2>1. SelectMax(s) = Max(S) /\ Max(S) \in -1 .. N
      BY <1>4, <1>6, <1>7, <1>9
    <2>2. SelectMax(s) \in Int
      BY <1>1, <2>1
    <2>3. \A ev \in s.active : FdOf(s, ev) <= SelectMax(s)
      <3> TAKE ev \in s.active
      <3>1. FdOf(s, ev) \in S /\ FdOf(s, ev) \in 0 .. N
        BY <1>1, <1>2, <1>5
      <3>2. Max(S) >= FdOf(s, ev)
        BY <1>6, <3>1
      <3> QED
        BY <1>1, <2>1, <3>1, <3>2
    <2> QED
      BY <2>2, <2>3
  <1> QED
    BY <1>8, <1>9

(* What the call that waits finds: nothing is left to be passed on. *)
LEMMA PassedOK ==
  ASSUME NEW s, Sound(s)
  PROVE  LET t == Passed(s)
         IN /\ Sound(t) /\ t.method = s.method
            /\ t.method = "devpoll" => t.kern = Registered(t)
            /\ t.method = "kqueue" => t.kern = {FilterOf(t, ev) : ev \in t.active}
            /\ t.method = "select" => \A ev \in t.active : FdOf(t, ev) <= t.max
  <1>1. s \in Waiters /\ ConnsOK(s) /\ MethodOK(s) /\ s.method \in {"select", "poll", "devpoll", "kqueue"}
    BY DEF Sound, Waiters
  <1>2. CASE s.method = "select"
    <2>1. PICK m : m = SelectMax(s)
      OBVIOUS
    <2>2. SelectOK(s)
      BY <1>1, <1>2 DEF MethodOK
    <2>3. m \in Int /\ \A ev \in s.active : FdOf(s, ev) <= m
      BY <1>1, <2>1, <2>2, SelectMaxIs
    <2>4. PICK t : t = [s EXCEPT !.max = m]
      OBVIOUS
    <2>5. /\ t \in Waiters /\ t.method = s.method /\ t.fd = s.fd /\ t.active = s.active /\ t.disabled = s.disabled
          /\ t.index = s.index /\ t.list = s.list /\ t.master = s.master /\ t.max = m
      BY <1>1, <2>3, <2>4 DEF Waiters
    <2>6. ConnsOK(t) /\ Registered(t) = Registered(s) /\ \A ev : FdOf(t, ev) = FdOf(s, ev)
      BY <1>1, <2>5 DEF ConnsOK, Open, Registered, FdOf
    <2>7. SelectOK(t)
      BY <2>2, <2>3, <2>5, <2>6 DEF SelectOK
    <2>8. Passed(s) = t
      BY <1>2, <2>1, <2>4 DEF Passed
    <2> QED
      BY <1>2, <2>3, <2>5, <2>6, <2>7, <2>8 DEF Sound, MethodOK
  <1>3. CASE s.method = "poll"
    BY <1>1, <1>3 DEF Passed, Sound
  <1>4. CASE s.method = "devpoll"
    <2>1. PICK t : t = DevpollFlush(s)
      OBVIOUS
    <2>2. DevpollTyped(s) /\ DevpollKern(s) = Registered(s)
      BY <1>1, <1>4 DEF MethodOK, DevpollOK, DevpollTyped
    <2>3. /\ t \in Waiters /\ DevpollTyped(t) /\ Frame(t, s) /\ t.active = s.active /\ t.disabled = s.disabled
          /\ t.kern = DevpollKern(s) /\ DevpollKern(t) = DevpollKern(s)
      BY <1>1, <2>1, <2>2, DevpollFlushed
    <2>4. Registered(t) = Registered(s) /\ t.method = "devpoll" /\ t.fd = s.fd
      BY <1>4, <2>3 DEF Registered, FdOf, Frame
    <2>5. ConnsOK(t)
      BY <1>1, <1>4, <2>3, <2>4, ConnsKept
    <2>6. DevpollOK(t)
      BY <2>2, <2>3, <2>4 DEF DevpollOK, DevpollTyped
    <2>7. Passed(s) = t
      BY <1>4, <2>1 DEF Passed
    <2> QED
      BY <1>4, <2>2, <2>3, <2>4, <2>5, <2>6, <2>7 DEF Sound, MethodOK
  <1>5. CASE s.method = "kqueue"
    <2>1. PICK t : t = KqueueFlush(s)
      OBVIOUS
    <2>2. /\ t \in Waiters /\ KqueueOK(t, Closed) /\ Frame(t, s) /\ t.active = s.active /\ t.disabled = s.disabled
          /\ t.kern = {FilterOf(s, ev) : ev \in s.active}
      BY <1>1, <1>5, <2>1, KqueueFlushOK DEF MethodOK
    <2>3. t.method = "kqueue" /\ t.fd = s.fd /\ \A ev : FilterOf(t, ev) = FilterOf(s, ev)
      BY <1>5, <2>2 DEF FilterOf, FdOf, Frame
    <2>4. ConnsOK(t)
      BY <1>1, <1>5, <2>2, <2>3, ConnsKept
    <2>5. Passed(s) = t
      BY <1>5, <2>1 DEF Passed
    <2>6. t.kern = {FilterOf(t, ev) : ev \in t.active}
      BY <2>2, <2>3
    <2> QED
      BY <1>5, <2>2, <2>3, <2>4, <2>5, <2>6 DEF Sound, MethodOK
  <1> QED
    BY <1>1, <1>2, <1>3, <1>4, <1>5

(* What is reported are events. *)
LEMMA EventsOfType ==
  ASSUME NEW s, Sound(s), NEW reports
  PROVE  EventsOf(s, reports) \subseteq Events
  <1>1. s \in Waiters /\ MethodOK(s) /\ s.method \in {"select", "poll", "devpoll", "kqueue"} /\ s.active \subseteq Events
    BY DEF Sound, Waiters
  <1>2. CASE s.method = "select"
    <2>1. Range(s.list) \subseteq Events
      BY <1>1, <1>2 DEF Range, MethodOK, SelectOK
    <2> QED
      BY <1>2, <2>1 DEF EventsOf
  <1>3. CASE s.method \in {"poll", "devpoll"}
    BY <1>1, <1>3 DEF EventsOf
  <1>4. CASE s.method = "kqueue"
    <2>1. \A k \in s.kern : k.ev \in Events
      BY <1>1, <1>4 DEF MethodOK, KqueueOK, Filters
    <2> QED
      BY <1>4, <2>1 DEF EventsOf
  <1> QED
    BY <1>1, <1>2, <1>3, <1>4

(* The worker starts with nothing registered but the listening socket. *)
LEMMA NewWaiterOK ==
  ASSUME NEW m \in Methods
  PROVE  Sound(NewWaiter(m)) /\ Open(NewWaiter(m), Listening)
  <1>1. m \in {"select", "poll", "devpoll", "kqueue"}
    BY MethodsAssumption
  <1>2. PICK s : s = NewWaiter(m)
    OBVIOUS
  <1>3. /\ s.method = m /\ s.active = {} /\ s.ready = {} /\ s.disabled = {} /\ s.list = << >> /\ s.master = {}
        /\ s.max = -1 /\ s.kern = {} /\ s.fd = [c \in Conns |-> IF c = Listening THEN 0 ELSE Closed]
        /\ s.index = [e \in Events |-> NoIndex] /\ s.instance = [c \in Conns |-> FALSE]
    BY <1>2 DEF NewWaiter, Events, Sides
  <1>4. /\ s.fd \in [Conns -> Fds \cup {Closed}] /\ s.index \in [Events -> Nat] /\ s.instance \in [Conns -> BOOLEAN]
        /\ \A c \in Conns : s.fd[c] = IF c = Listening THEN 0 ELSE Closed
        /\ \A e \in Events : s.index[e] = NoIndex
    BY <1>3, MethodBasics DEF NoIndex
  <1>5. s \in Waiters
    <2>1. s.list \in Lists /\ s.max \in Int
      BY <1>3 DEF Lists
    <2>2. s = [method |-> s.method, fd |-> s.fd, instance |-> s.instance, active |-> s.active, ready |-> s.ready,
               disabled |-> s.disabled, index |-> s.index, list |-> s.list, master |-> s.master, max |-> s.max,
               kern |-> s.kern]
      BY <1>2 DEF NewWaiter
    <2> QED
      BY <1>1, <1>3, <1>4, <2>1, <2>2 DEF Waiters
  <1>6. ConnsOK(s) /\ Open(s, Listening)
    BY <1>3, <1>4, MethodBasics DEF ConnsOK, Open
  <1>7. DOMAIN s.list = {} /\ Registered(s) = {}
    BY <1>3 DEF Registered
  <1>8. SelectOK(s)
    BY <1>3, <1>4, <1>7 DEF SelectOK
  <1>9. PollOK(s)
    BY <1>3, <1>4, <1>7 DEF PollOK
  <1>10. DevpollOK(s)
    BY <1>3, <1>7 DEF DevpollOK, DevpollKern
  <1>11. KqueueOK(s, Closed)
    BY <1>3, <1>7 DEF KqueueOK
  <1> QED
    BY <1>1, <1>2, <1>3, <1>5, <1>6, <1>8, <1>9, <1>10, <1>11 DEF Sound, MethodOK

(* ngx_handle_read_event() and ngx_handle_write_event() *)
LEMMA RearmOK ==
  ASSUME NEW s, Sound(s), NEW c \in Clients, Open(s, c), NEW how
  PROVE  Sound(HandleRead(s, c, how)) /\ Sound(HandleWrite(s, c))
  <1>1. s \in Waiters /\ ConnsOK(s) /\ MethodOK(s)
    BY DEF Sound
  <1>2. ASSUME NEW ev \in Events, ev[1] = c
        PROVE  /\ ev \notin s.active => Sound(Add(s, ev))
               /\ ~Clear(s) /\ ev \in s.active => \A h : Sound(Del(s, ev, h))
    <2>1. ev # << Listening, "read" >> /\ Open(s, ev[1])
      BY <1>2, MethodBasics
    <2>2. s.method = "kqueue" => ~Pending(s, ev, "disable")
      BY <1>1, <2>1, NoDisable DEF MethodOK
    <2>3. ev \notin s.active => Sound(Add(s, ev))
      BY <1>1, <2>1, <2>2, AddOK DEF Sound
    <2>4. ~Clear(s) /\ ev \in s.active => \A h : Sound(Del(s, ev, h))
      BY <1>1, DelOK DEF Sound, Clear
    <2> QED
      BY <2>3, <2>4
  <1>3. << c, "read" >> \in Events /\ << c, "write" >> \in Events /\ << c, "read" >>[1] = c /\ << c, "write" >>[1] = c
    BY EventIs, MethodBasics DEF Sides
  <1>4. Sound(HandleRead(s, c, how))
    BY <1>2, <1>3 DEF HandleRead
  <1>5. Sound(HandleWrite(s, c))
    BY <1>2, <1>3 DEF HandleWrite
  <1> QED
    BY <1>4, <1>5

(* ngx_event_connect_peer() *)
LEMMA ConnectOK ==
  ASSUME NEW s, Sound(s), NEW c \in Clients, ~Open(s, c), NEW t, t = Add(Taken(s, c), << c, "read" >>)
  PROVE  Sound(t) /\ Sound(Add(t, << c, "write" >>))
  <1> DEFINE rev == << c, "read" >>
             wev == << c, "write" >>
  <1>1. rev \in Events /\ wev \in Events /\ rev[1] = c /\ wev[1] = c /\ rev # wev
        /\ rev # << Listening, "read" >> /\ wev # << Listening, "read" >>
    BY EventIs, MethodBasics DEF Sides
  <1>2. PICK a : a = Taken(s, c)
    OBVIOUS
  <1>3. /\ Sound(a) /\ Open(a, c) /\ a.active = s.active
        /\ \A side \in Sides : << c, side >> \notin a.active
    BY <1>2, TakenOK
  <1>4. rev \notin a.active /\ wev \notin a.active
    BY <1>3 DEF Sides
  <1> HIDE DEF rev, wev
  <1>5. t = Add(a, rev) /\ a \in Waiters /\ ConnsOK(a) /\ MethodOK(a) /\ Open(a, rev[1])
    BY <1>1, <1>2, <1>3 DEF Sound, rev
  <1>6. a.method = "kqueue" => ~Pending(a, rev, "disable")
    BY <1>1, <1>5, NoDisable DEF MethodOK
  <1>7. t \in Waiters /\ ConnsOK(t) /\ MethodOK(t) /\ Frame(t, a) /\ t.active = a.active \cup {rev}
    BY <1>1, <1>4, <1>5, <1>6, AddOK
  <1>8. wev \notin t.active /\ Open(t, wev[1])
    BY <1>1, <1>3, <1>4, <1>7 DEF Frame, Open
  <1>9. t.method = "kqueue" => ~Pending(t, wev, "disable")
    BY <1>1, <1>7, NoDisable DEF MethodOK
  <1>10. Sound(Add(t, wev))
    BY <1>1, <1>7, <1>8, <1>9, AddOK DEF Sound
  <1> QED
    BY <1>7, <1>10 DEF Sound, wev

(* In every state the arrays and lists are sound. *)
THEOREM MethodsInvariance == MethodSpec => []MethodInv
  <1>1. WaiterInit => MethodInv
    <2> SUFFICES ASSUME WaiterInit PROVE MethodInv
      OBVIOUS
    <2>1. PICK m \in Methods : waiter = Add(NewWaiter(m), << Listening, "read" >>)
      BY DEF WaiterInit
    <2>2. PICK s : s = NewWaiter(m)
      OBVIOUS
    <2>3. s \in Waiters /\ ConnsOK(s) /\ MethodOK(s) /\ Open(s, Listening)
      BY <2>2, NewWaiterOK DEF Sound
    <2>4. PICK ev \in Events : ev = << Listening, "read" >>
      BY MethodBasics, EventIs DEF Sides
    <2>5. ev \notin s.active /\ ~Pending(s, ev, "disable") /\ Open(s, ev[1])
      BY <2>2, <2>3, <2>4 DEF NewWaiter, Pending
    <2>6. Sound(Add(s, ev))
      BY <2>3, <2>5, AddOK DEF Sound
    <2> QED
      BY <2>1, <2>2, <2>4, <2>6 DEF MethodInv
  <1>2. MethodInv /\ [MethodNext]_waiter => MethodInv'
    <2> SUFFICES ASSUME Sound(waiter), [MethodNext]_waiter PROVE Sound(waiter')
      BY DEF MethodInv
    <2>0. waiter \in Waiters /\ ConnsOK(waiter) /\ MethodOK(waiter)
      BY DEF Sound
    <2>1. CASE Process
      <3>1. PICK s, seen : Sound(s) /\ waiter' = [s EXCEPT !.ready = @ \cup {ev \in EventsOf(s, seen) : ev[1] # Listening}]
        BY <2>1, PassedOK DEF Process
      <3>2. EventsOf(s, seen) \subseteq Events /\ s.ready \subseteq Events
        BY <3>1, EventsOfType DEF Sound, Waiters
      <3>3. PICK ready \in SUBSET Events : ready = s.ready \cup {ev \in EventsOf(s, seen) : ev[1] # Listening}
        BY <3>2
      <3>4. waiter' = [s EXCEPT !.ready = ready]
        BY <3>1, <3>3
      <3> QED
        BY <3>1, <3>4, ReadyOK
    <2>2. CASE DisableAccept
      <3>1. PICK ev, how : ev = << Listening, "read" >> /\ how = "disable"
        OBVIOUS
      <3>2. ev \in waiter.active /\ waiter' = Del(waiter, ev, how)
        BY <2>2, <3>1 DEF DisableAccept
      <3> QED
        BY <2>0, <3>1, <3>2, DelOK DEF Sound
    <2>3. CASE EnableAccept
      <3>1. PICK ev \in Events : ev = << Listening, "read" >>
        BY MethodBasics, EventIs DEF Sides
      <3>2. Open(waiter, ev[1]) /\ ev \notin waiter.active /\ waiter' = Add(waiter, ev)
        BY <2>3, <3>1 DEF EnableAccept, IsOpen, Open
      <3>3. waiter.method = "kqueue" => ~Pending(waiter, ev, "disable")
        BY <2>3 DEF EnableAccept, Clear, Pending
      <3> QED
        BY <2>0, <3>2, <3>3, AddOK DEF Sound
    <2>4. ASSUME NEW c \in Clients, Accepted(c)
          PROVE  Sound(waiter')
      <3>1. ~Open(waiter, c) /\ \E more \in {{}, {<< c, "read" >>}} :
               waiter' = [Taken(waiter, c) EXCEPT !.ready = @ \cup {<< c, "write" >>} \cup more]
        BY <2>4 DEF Accepted, IsOpen, Open
      <3>2. PICK s : s = Taken(waiter, c)
        OBVIOUS
      <3>3. Sound(s) /\ \A side \in Sides : << c, side >> \in Events
        BY <3>1, <3>2, TakenOK
      <3>4. PICK ready : waiter' = [s EXCEPT !.ready = ready] /\ ready \subseteq s.ready \cup {<< c, "read" >>, << c, "write" >>}
        BY <3>1, <3>2
      <3>5. ready \in SUBSET Events
        BY <3>3, <3>4 DEF Sound, Waiters, Sides
      <3> QED
        BY <3>3, <3>4, <3>5, ReadyOK
    <2>5. ASSUME NEW c \in Clients, Connect(c)
          PROVE  Sound(waiter')
      <3>1. PICK s : s = Add(Taken(waiter, c), << c, "read" >>)
        OBVIOUS
      <3>2. ~Open(waiter, c)
            /\ waiter' \in {Add(s, << c, "write" >>), [s EXCEPT !.ready = @ \cup {<< c, "write" >>}]}
        BY <2>5, <3>1 DEF Connect, IsOpen, Open
      <3>3. Sound(s) /\ Sound(Add(s, << c, "write" >>))
        BY <3>1, <3>2, ConnectOK
      <3>4. CASE waiter' = [s EXCEPT !.ready = @ \cup {<< c, "write" >>}]
        <4>1. PICK ready : ready = s.ready \cup {<< c, "write" >>}
          OBVIOUS
        <4>2. ready \in SUBSET Events
          <5>1. << c, "write" >> \in Events
            BY EventIs, MethodBasics DEF Sides
          <5> QED
            BY <3>3, <4>1, <5>1 DEF Sound, Waiters
        <4>3. waiter' = [s EXCEPT !.ready = ready]
          BY <3>4, <4>1
        <4> QED
          BY <3>3, <4>2, <4>3, ReadyOK
      <3> QED
        BY <3>2, <3>3, <3>4
    <2>6. ASSUME NEW c \in Clients, Rearm(c)
          PROVE  Sound(waiter')
      <3>1. Open(waiter, c)
        BY <2>6 DEF Rearm, IsOpen, Open
      <3> QED
        BY <2>6, <3>1, RearmOK DEF Rearm
    <2>7. ASSUME NEW c \in Conns, CloseConnection(c)
          PROVE  Sound(waiter')
      <3>1. Open(waiter, c) /\ waiter' = Shut(waiter, c)
        BY <2>7 DEF CloseConnection, IsOpen, Open
      <3> QED
        BY <3>1, ShutOK
    <2>8. ASSUME NEW c \in Clients, NEW side \in {"read", "write"}, Exhausted(c, side)
          PROVE  Sound(waiter')
      <3>1. PICK ready : ready = waiter.ready \ {<< c, side >>}
        OBVIOUS
      <3>2. ready \in SUBSET Events /\ waiter' = [waiter EXCEPT !.ready = ready]
        BY <2>0, <2>8, <3>1 DEF Exhausted, Waiters
      <3> QED
        BY <3>2, ReadyOK
    <2>9. CASE UNCHANGED waiter
      BY <2>9
    <2> QED
      BY <2>1, <2>2, <2>3, <2>4, <2>5, <2>6, <2>7, <2>8, <2>9 DEF MethodNext
  <1> QED
    BY <1>1, <1>2, PTL DEF MethodSpec

(* As many places as things, when each thing has its place. *)
LEMMA PlacesCounted ==
  ASSUME NEW n \in Nat, NEW T, NEW place, \A x \in T : place[x] \in 1 .. n, DOMAIN place = T,
         \A i \in 1 .. n : \E x \in T : place[x] = i, \A x, y \in T : place[x] = place[y] => x = y
  PROVE  Cardinality(T) = n
  <1> DEFINE at == [i \in 1 .. n |-> CHOOSE x \in T : place[x] = i]
  <1>1. \A i \in 1 .. n : at[i] \in T /\ place[at[i]] = i
    OBVIOUS
  <1>2. at \in [1 .. n -> T]
    BY <1>1
  <1>3. \A x \in T : at[place[x]] = x
    BY <1>1
  <1> HIDE DEF at
  <1>4. at \in Surjection(1 .. n, T) /\ at \in Injection(1 .. n, T)
    <2>1. \A x \in T : \E i \in 1 .. n : at[i] = x
      BY <1>3
    <2>2. \A i, j \in 1 .. n : at[i] = at[j] => i = j
      BY <1>1
    <2> QED
      BY <1>2, <2>1, <2>2 DEF Surjection, Injection, IsInjective
  <1>5. IsFiniteSet(1 .. n) /\ Cardinality(1 .. n) = n
    <2>1. IsFiniteSet(1 .. n) /\ Cardinality(1 .. n) = IF 1 > n THEN 0 ELSE n - 1 + 1
      BY FS_Interval
    <2> QED
      BY <2>1
  <1>6. Cardinality(T) = Cardinality(1 .. n)
    BY <1>4, <1>5, FS_Surjection
  <1> QED
    BY <1>5, <1>6

(* select is asked for what the active events are, each at its place. *)
LEMMA SelectWatches ==
  ASSUME NEW s \in Waiters, ConnsOK(s), SelectOK(s), s.method = "select", \A ev \in s.active : FdOf(s, ev) <= s.max
  PROVE  /\ Watched(s) = Registered(s) /\ EventsOf(s, Watched(s)) = s.active
         /\ \A ev \in s.active : s.index[ev] \in DOMAIN s.list /\ s.list[s.index[ev]] = ev
         /\ Len(s.list) = Cardinality(s.active)
  <1>1. s.active \subseteq Events /\ s.list \in Seq(Events) /\ s.master = Registered(s)
    BY DEF Waiters, SelectOK
  <1>2. \A ev \in s.active : s.index[ev] \in DOMAIN s.list /\ s.list[s.index[ev]] = ev
    BY <1>1 DEF SelectOK
  <1>3. \A i \in DOMAIN s.list : s.list[i] \in s.active /\ s.index[s.list[i]] = i
    BY DEF SelectOK
  <1>4. \A r \in Registered(s) : r[1] <= s.max
    BY DEF Registered
  <1>5. Watched(s) = Registered(s)
    BY <1>1, <1>4 DEF Watched
  <1>6. Range(s.list) = s.active
    BY <1>2, <1>3 DEF Range
  <1>7. \A ev \in s.active : << FdOf(s, ev), ev[2] >> \in Registered(s)
    BY DEF Registered
  <1>8. EventsOf(s, Watched(s)) = s.active
    BY <1>5, <1>6, <1>7 DEF EventsOf
  <1>9. Len(s.list) = Cardinality(s.active)
    <2> DEFINE place == [ev \in s.active |-> s.index[ev]]
    <2>1. Len(s.list) \in Nat /\ DOMAIN s.list = 1 .. Len(s.list)
      BY <1>1
    <2>2. /\ \A ev \in s.active : place[ev] = s.index[ev]
          /\ DOMAIN place = s.active
      OBVIOUS
    <2> HIDE DEF place
    <2>3. \A ev \in s.active : place[ev] \in 1 .. Len(s.list)
      BY <1>2, <2>1, <2>2
    <2>4. \A i \in 1 .. Len(s.list) : \E ev \in s.active : place[ev] = i
      BY <1>3, <2>1, <2>2
    <2>5. \A e, f \in s.active : place[e] = place[f] => e = f
      BY <1>2, <2>2
    <2> QED
      BY <2>1, <2>2, <2>3, <2>4, <2>5, PlacesCounted
  <1> QED
    BY <1>2, <1>5, <1>8, <1>9

(* poll is asked for what the active events are, one entry for each descriptor. *)
LEMMA PollWatches ==
  ASSUME NEW s \in Waiters, ConnsOK(s), PollOK(s), s.method = "poll"
  PROVE  /\ Watched(s) = Registered(s) /\ EventsOf(s, Watched(s)) = s.active
         /\ \A ev \in s.active : s.index[ev] \in DOMAIN s.list /\ s.list[s.index[ev]].fd = FdOf(s, ev)
         /\ Len(s.list) = Cardinality({ev[1] : ev \in s.active})
  <1>1. s.active \subseteq Events /\ s.list \in Seq(Polled)
    BY DEF Waiters, PollOK
  <1>2. \A ev \in s.active : /\ s.index[ev] \in DOMAIN s.list /\ s.list[s.index[ev]].fd = FdOf(s, ev)
                             /\ s.list[s.index[ev]].sides = {side \in Sides : << ev[1], side >> \in s.active}
    BY <1>1 DEF PollOK
  <1>3. \A i \in DOMAIN s.list : \E ev \in s.active : s.index[ev] = i
    BY DEF PollOK
  <1>4. \A r : r \in Watched(s) <=> \E i \in DOMAIN s.list : \E side \in s.list[i].sides : r = << s.list[i].fd, side >>
    <2>1. Watched(s) = UNION {{s.list[i].fd} \X s.list[i].sides : i \in DOMAIN s.list}
      BY DEF Watched
    <2> TAKE r
    <2>2. r \in Watched(s) <=> \E i \in DOMAIN s.list : r \in {s.list[i].fd} \X s.list[i].sides
      BY <2>1
    <2>3. \A i \in DOMAIN s.list : r \in {s.list[i].fd} \X s.list[i].sides <=> \E side \in s.list[i].sides : r = << s.list[i].fd, side >>
      OBVIOUS
    <2> QED
      BY <2>2, <2>3
  <1>5. \A r : r \in Registered(s) <=> \E ev \in s.active : r = << FdOf(s, ev), ev[2] >>
    BY DEF Registered
  <1>6. ASSUME NEW r \in Watched(s)
        PROVE  r \in Registered(s)
    <2>0. PICK i \in DOMAIN s.list : \E side \in s.list[i].sides : r = << s.list[i].fd, side >>
      BY <1>4
    <2>1. PICK side \in s.list[i].sides : r = << s.list[i].fd, side >>
      BY <2>0
    <2>2. PICK ev \in s.active : s.index[ev] = i
      BY <1>3
    <2>3. << ev[1], side >> \in s.active /\ s.list[i].fd = FdOf(s, ev)
      BY <1>2, <2>1, <2>2
    <2>4. FdOf(s, << ev[1], side >>) = FdOf(s, ev)
      BY DEF FdOf
    <2> QED
      BY <1>5, <2>1, <2>3, <2>4
  <1>7. ASSUME NEW r \in Registered(s)
        PROVE  r \in Watched(s)
    <2>1. PICK ev \in s.active : r = << FdOf(s, ev), ev[2] >>
      BY <1>5
    <2>2. ev = << ev[1], ev[2] >> /\ ev[2] \in Sides
      BY <1>1, EventIs
    <2>3. ev[2] \in s.list[s.index[ev]].sides /\ s.list[s.index[ev]].fd = FdOf(s, ev) /\ s.index[ev] \in DOMAIN s.list
      BY <1>2, <2>2
    <2> QED
      BY <1>4, <2>1, <2>3
  <1>8. Watched(s) = Registered(s)
    BY <1>6, <1>7
  <1>9. EventsOf(s, Watched(s)) = s.active
    BY <1>5, <1>8 DEF EventsOf
  <1>10. Len(s.list) = Cardinality({ev[1] : ev \in s.active})
    <2> DEFINE T == {ev[1] : ev \in s.active}
               of == [c \in T |-> CHOOSE ev \in s.active : ev[1] = c]
               place == [c \in T |-> s.index[of[c]]]
    <2>1. Len(s.list) \in Nat /\ DOMAIN s.list = 1 .. Len(s.list)
      BY <1>1
    <2>2. \A c \in T : of[c] \in s.active /\ of[c][1] = c /\ place[c] = s.index[of[c]]
      OBVIOUS
    <2>3. DOMAIN place = T /\ \A ev \in s.active : ev[1] \in T
      OBVIOUS
    <2> HIDE DEF place, of, T
    <2>4. \A c \in T : place[c] \in 1 .. Len(s.list)
      BY <1>2, <2>1, <2>2
    <2>5. \A ev \in s.active : place[ev[1]] = s.index[ev]
      <3> TAKE ev \in s.active
      <3>1. of[ev[1]] \in s.active /\ of[ev[1]][1] = ev[1] /\ place[ev[1]] = s.index[of[ev[1]]]
        BY <2>2, <2>3
      <3> QED
        BY <3>1, PollShare
    <2>6. \A i \in 1 .. Len(s.list) : \E c \in T : place[c] = i
      BY <1>3, <2>1, <2>3, <2>5
    <2>7. \A c, d \in T : place[c] = place[d] => c = d
      <3> TAKE c, d \in T
      <3>1. of[c] \in s.active /\ of[d] \in s.active /\ of[c][1] = c /\ of[d][1] = d
            /\ place[c] = s.index[of[c]] /\ place[d] = s.index[of[d]]
        BY <2>2
      <3>2. s.index[of[c]] = s.index[of[d]] <=> of[c][1] = of[d][1]
        BY <3>1, PollShare
      <3> QED
        BY <3>1, <3>2
    <2>8. Cardinality(T) = Len(s.list)
      BY <2>1, <2>3, <2>4, <2>6, <2>7, PlacesCounted
    <2> QED
      BY <2>8 DEF T
  <1> QED
    BY <1>2, <1>8, <1>9, <1>10

(* For every number of connections and every method: the events whose flag *)
(* is `active` are those that the kernel watches and that are found again  *)
(* when they are reported, whatever was added, deleted, closed and opened. *)
THEOREM EventsStayWatched == MethodSpec => []EventsAreWatched
  <1>1. MethodInv => EventsAreWatched
    <2> SUFFICES ASSUME Sound(waiter) PROVE EventsAreWatched
      BY DEF MethodInv
    <2>1. PICK s : s = Passed(waiter)
      OBVIOUS
    <2>2. /\ Sound(s)
          /\ s.method = "devpoll" => s.kern = Registered(s)
          /\ s.method = "kqueue" => s.kern = {FilterOf(s, ev) : ev \in s.active}
          /\ s.method = "select" => \A ev \in s.active : FdOf(s, ev) <= s.max
      BY <2>1, PassedOK
    <2>3. /\ s \in Waiters /\ ConnsOK(s) /\ MethodOK(s) /\ s.method \in {"select", "poll", "devpoll", "kqueue"}
          /\ s.active \subseteq Events
      BY <2>2 DEF Sound, Waiters
    <2>4. \A ev \in s.active : s.fd[ev[1]] # Closed
      BY <2>3 DEF ConnsOK, Open
    <2> DEFINE Done == /\ Watched(s) = Registered(s) /\ EventsOf(s, Watched(s)) = s.active
                       /\ s.method \in {"select", "poll"} => \A ev \in s.active : s.index[ev] \in DOMAIN s.list
                       /\ s.method = "select" => Len(s.list) = Cardinality(s.active)
                                                 /\ \A ev \in s.active : s.list[s.index[ev]] = ev
                       /\ s.method = "poll" => Len(s.list) = Cardinality({ev[1] : ev \in s.active})
                                               /\ \A ev \in s.active : s.list[s.index[ev]].fd = FdOf(s, ev)
    <2>5. \A r : r \in Registered(s) <=> \E ev \in s.active : r = << FdOf(s, ev), ev[2] >>
      BY DEF Registered
    <2>6. CASE s.method = "select"
      <3>1. SelectOK(s)
        BY <2>3, <2>6 DEF MethodOK
      <3>2. Done
        BY <2>2, <2>3, <2>6, <3>1, SelectWatches
      <3> QED
        BY <2>1, <2>4, <3>2 DEF EventsAreWatched, Registered
    <2>7. CASE s.method = "poll"
      <3>1. PollOK(s)
        BY <2>3, <2>7 DEF MethodOK
      <3>2. Done
        BY <2>2, <2>3, <2>7, <3>1, PollWatches
      <3> QED
        BY <2>1, <2>4, <3>2 DEF EventsAreWatched, Registered
    <2>8. CASE s.method = "devpoll"
      <3>1. Watched(s) = Registered(s)
        BY <2>2, <2>8 DEF Watched
      <3>2. EventsOf(s, Watched(s)) = s.active
        BY <2>5, <2>8, <3>1 DEF EventsOf
      <3>3. Done
        BY <2>8, <3>1, <3>2
      <3> QED
        BY <2>1, <2>4, <3>3 DEF EventsAreWatched, Registered
    <2>9. CASE s.method = "kqueue"
      <3>1. \A r : r \in Watched(s) <=> \E k \in s.kern : r = << k.fd, k.ev[2] >>
        BY <2>9 DEF Watched
      <3>2. \A k : k \in s.kern <=> \E ev \in s.active : k = FilterOf(s, ev)
        BY <2>2, <2>9
      <3>3. \A ev : /\ FilterOf(s, ev).fd = FdOf(s, ev) /\ FilterOf(s, ev).ev = ev
                    /\ FilterOf(s, ev).instance = s.instance[ev[1]]
        BY DEF FilterOf
      <3>4. \A r : r \in Watched(s) <=> r \in Registered(s)
        BY <2>5, <3>1, <3>2, <3>3
      <3>5. Watched(s) = Registered(s)
        BY <3>4, <2>9 DEF Watched, Registered
      <3>6. \A ev : ev \in EventsOf(s, Watched(s)) <=> ev \in s.active
        <4>1. EventsOf(s, Watched(s)) = {k.ev : k \in {k \in s.kern : << k.fd, k.ev[2] >> \in Watched(s)
                                                                     /\ k.instance = s.instance[k.ev[1]]}}
          BY <2>9 DEF EventsOf
        <4>2. \A ev : ev \in EventsOf(s, Watched(s)) <=>
                        \E k \in s.kern : /\ << k.fd, k.ev[2] >> \in Watched(s) /\ k.instance = s.instance[k.ev[1]]
                                          /\ ev = k.ev
          BY <4>1
        <4>3. \A k \in s.kern : << k.fd, k.ev[2] >> \in Watched(s)
          BY <3>1
        <4>4. \A k \in s.kern : k.ev \in s.active /\ k.instance = s.instance[k.ev[1]]
          BY <3>2, <3>3
        <4>5. \A ev \in s.active : \E k \in s.kern : k.ev = ev
          BY <3>2, <3>3
        <4> TAKE ev
        <4>6. CASE ev \in EventsOf(s, Watched(s))
          BY <4>2, <4>4, <4>6
        <4>7. CASE ev \in s.active
          <5>1. PICK k \in s.kern : k.ev = ev
            BY <4>5, <4>7
          <5> QED
            BY <4>2, <4>3, <4>4, <4>7, <5>1
        <4> QED
          BY <4>6, <4>7
      <3>7. EventsOf(s, Watched(s)) = s.active
        BY <3>6, <2>9 DEF EventsOf
      <3>8. Done
        BY <2>9, <3>5, <3>7
      <3> QED
        BY <2>1, <2>4, <3>8 DEF EventsAreWatched, Registered
    <2> QED
      BY <2>3, <2>6, <2>7, <2>8, <2>9
  <1> QED
    BY <1>1, MethodsInvariance, PTL

-----------------------------------------------------------------------------
(* Reading a configuration: what a reader keeps, and the invariant. *)

(* What a reader keeps. *)
Fields == {"file", "size", "buf", "pos", "offset", "start", "line", "startLine", "args", "rc", "last", "need", "sharp",
           "variable", "quoted", "s", "d", "depth", "told"}
IsReader(r) == DOMAIN r = Fields

(* What the buffer has are the characters of the file before the offset. *)
ReaderOK(r) ==
  /\ IsReader(r)
  /\ r.file \in Seq(Characters) /\ r.buf \in Seq(Characters) /\ r.size \in Nat \ {0} /\ Len(r.buf) <= r.size
  /\ r.pos \in 0 .. Len(r.buf) /\ r.start \in 0 .. r.pos /\ r.offset \in Len(r.buf) .. Len(r.file)
  /\ \A i \in 1 .. Len(r.buf) : r.buf[i] = r.file[r.offset - Len(r.buf) + i]

(* The place in the file, and what was understood so far. *)
Place(r) == r.offset - Len(r.buf) + r.pos
SameWords(a, b) ==
  /\ a.args = b.args /\ a.told = b.told /\ a.depth = b.depth /\ a.rc = b.rc /\ b.rc # "too long"
  /\ a.line = b.line /\ a.startLine = b.startLine
  /\ a.last = b.last /\ a.need = b.need /\ a.sharp = b.sharp /\ a.variable = b.variable /\ a.quoted = b.quoted
  /\ a.s = b.s /\ a.d = b.d
SameStart(a, b) == a.pos - a.start = b.pos - b.start
Agree(a, b) == a.file = b.file /\ Place(a) = Place(b) /\ SameStart(a, b) /\ SameWords(a, b)

(* The small buffer is full of what follows the start of one word. *)
GivenUp(a, b) == a.rc = "too long" /\ a.pos - a.start = a.size /\ a.told = b.told

(* The whole file fits into the second buffer, with room for one more. *)
PairOK(a, b) ==
  /\ ReaderOK(a) /\ ReaderOK(b) /\ b.size = Len(b.file) + 1
  /\ Agree(a, b) \/ GivenUp(a, b)

ConfInv ==
  /\ DOMAIN conf = {"small", "whole"}
  /\ PairOK(conf.small, conf.whole)

-----------------------------------------------------------------------------
(* Text is the same wherever the buffer has it. *)

(* A part of a text, character for character. *)
LEMMA PartIs ==
  ASSUME NEW S, NEW q \in Seq(S), NEW i \in Nat, NEW j \in Nat, i <= j, j <= Len(q)
  PROVE  LET u == SubSeq(q, i + 1, j)
         IN u \in Seq(S) /\ Len(u) = j - i /\ \A k \in 1 .. j - i : u[k] = q[i + k] /\ i + k \in 1 .. Len(q)
  <1> DEFINE u == SubSeq(q, i + 1, j)
  <1>1. \A n \in Nat : j <= n =>
           /\ j - (i + 1) + 1 = j - i /\ j - i \in Nat
           /\ \A k \in 1 .. j - i : k + (i + 1) - 1 = i + k /\ i + k \in 1 .. n
    OBVIOUS
  <1>2. /\ j - (i + 1) + 1 = j - i /\ j - i \in Nat
        /\ \A k \in 1 .. j - i : k + (i + 1) - 1 = i + k /\ i + k \in 1 .. Len(q)
    BY <1>1
  <1>3. u = [k \in 1 .. j - i |-> q[k + (i + 1) - 1]]
    BY <1>2
  <1> HIDE DEF u
  <1>4. \A k \in 1 .. j - i : u[k] = q[i + k] /\ i + k \in 1 .. Len(q)
    BY <1>2, <1>3
  <1>5. \A k \in 1 .. j - i : u[k] \in S
    BY <1>4
  <1>6. u \in [1 .. j - i -> S]
    BY <1>3, <1>5
  <1> QED
    BY <1>2, <1>4, <1>6 DEF u

(* Two texts, one after the other. *)
LEMMA JoinedIs ==
  ASSUME NEW S, NEW p \in Seq(S), NEW q \in Seq(S)
  PROVE  LET u == p \o q
         IN /\ u \in Seq(S) /\ Len(u) = Len(p) + Len(q)
            /\ \A i \in 1 .. Len(p) + Len(q) : u[i] = IF i <= Len(p) THEN p[i] ELSE q[i - Len(p)]
  OBVIOUS

(* A part of the buffer is a part of the file. *)
LEMMA PartOfFile ==
  ASSUME NEW r, ReaderOK(r), NEW i \in Nat, NEW j \in Nat, i <= j, j <= Len(r.buf)
  PROVE  SubSeq(r.buf, i + 1, j) = SubSeq(r.file, r.offset - Len(r.buf) + i + 1, r.offset - Len(r.buf) + j)
  <1> DEFINE base == r.offset - Len(r.buf)
             u == SubSeq(r.buf, i + 1, j)
             v == SubSeq(r.file, base + i + 1, base + j)
  <1>1. /\ r.buf \in Seq(Characters) /\ r.file \in Seq(Characters) /\ Len(r.buf) \in Nat /\ Len(r.file) \in Nat
        /\ r.offset \in Len(r.buf) .. Len(r.file)
    BY DEF ReaderOK
  <1>2. base \in Nat /\ base + Len(r.buf) <= Len(r.file)
    BY <1>1
  <1>3. \A k \in 1 .. Len(r.buf) : r.buf[k] = r.file[base + k]
    BY DEF ReaderOK
  <1> HIDE DEF base
  <1>4. \A l, n \in Nat : l + n <= Len(r.file) /\ i <= j /\ j <= n =>
           /\ (l + j) - (l + i + 1) + 1 = j - i /\ j - (i + 1) + 1 = j - i /\ j - i \in Nat
           /\ \A k \in 1 .. j - i : k + (i + 1) - 1 = i + k /\ i + k \in 1 .. n /\ k + (l + i + 1) - 1 = l + (i + k)
    OBVIOUS
  <1>5. PICK n \in Nat : n = Len(r.buf)
    BY <1>1
  <1>6. /\ (base + j) - (base + i + 1) + 1 = j - i /\ j - (i + 1) + 1 = j - i /\ j - i \in Nat
        /\ \A k \in 1 .. j - i : k + (i + 1) - 1 = i + k /\ i + k \in 1 .. n /\ k + (base + i + 1) - 1 = base + (i + k)
    BY <1>1, <1>2, <1>4, <1>5
  <1>7. u = [k \in 1 .. j - i |-> r.buf[k + (i + 1) - 1]]
    BY <1>1, <1>6
  <1>8. v = [k \in 1 .. j - i |-> r.file[k + (base + i + 1) - 1]]
    BY <1>1, <1>2, <1>6
  <1>9. \A k \in 1 .. j - i : r.buf[k + (i + 1) - 1] = r.file[k + (base + i + 1) - 1]
    BY <1>3, <1>5, <1>6
  <1> QED
    BY <1>7, <1>8, <1>9 DEF base

(* Two readers at the same place have the same text behind them. *)
LEMMA SameText ==
  ASSUME NEW a, NEW b, ReaderOK(a), ReaderOK(b), a.file = b.file, Place(a) = Place(b), SameStart(a, b)
  PROVE  SubSeq(a.buf, a.start + 1, a.pos) = SubSeq(b.buf, b.start + 1, b.pos)
  <1>1. /\ Len(a.buf) \in Nat /\ a.pos \in 0 .. Len(a.buf) /\ a.start \in 0 .. a.pos /\ a.offset \in Len(a.buf) .. Len(a.file)
        /\ Len(b.buf) \in Nat /\ b.pos \in 0 .. Len(b.buf) /\ b.start \in 0 .. b.pos /\ b.offset \in Len(b.buf) .. Len(b.file)
        /\ Len(a.file) \in Nat /\ Len(b.file) \in Nat
    BY DEF ReaderOK
  <1>2. a.start \in Nat /\ a.pos \in Nat /\ a.start <= a.pos /\ a.pos <= Len(a.buf)
    BY <1>1
  <1>3. b.start \in Nat /\ b.pos \in Nat /\ b.start <= b.pos /\ b.pos <= Len(b.buf)
    BY <1>1
  <1>4. SubSeq(a.buf, a.start + 1, a.pos) = SubSeq(a.file, a.offset - Len(a.buf) + a.start + 1, a.offset - Len(a.buf) + a.pos)
    BY <1>2, PartOfFile
  <1>5. SubSeq(b.buf, b.start + 1, b.pos) = SubSeq(b.file, b.offset - Len(b.buf) + b.start + 1, b.offset - Len(b.buf) + b.pos)
    BY <1>3, PartOfFile
  <1>6. \A o, m, s, p, q, n, z, w \in Int : o - m + p = q - n + w /\ p - s = w - z => o - m + s + 1 = q - n + z + 1
    OBVIOUS
  <1>7. a.offset - Len(a.buf) + a.pos = b.offset - Len(b.buf) + b.pos
        /\ a.offset - Len(a.buf) + a.start + 1 = b.offset - Len(b.buf) + b.start + 1
    <2>1. a.offset - Len(a.buf) + a.pos = b.offset - Len(b.buf) + b.pos /\ a.pos - a.start = b.pos - b.start
      BY DEF Place, SameStart
    <2>2. a.offset \in Int /\ Len(a.buf) \in Int /\ b.offset \in Int /\ Len(b.buf) \in Int
          /\ a.start \in Int /\ a.pos \in Int /\ b.start \in Int /\ b.pos \in Int
      BY <1>1
    <2>3. PICK o, m, p, s, q, n, w, z \in Int : /\ o = a.offset /\ m = Len(a.buf) /\ p = a.pos /\ s = a.start
                                               /\ q = b.offset /\ n = Len(b.buf) /\ w = b.pos /\ z = b.start
      BY <2>2
    <2>4. o - m + p = q - n + w /\ p - s = w - z
      BY <2>1, <2>3
    <2>5. o - m + s + 1 = q - n + z + 1
      BY <2>4, <1>6
    <2> QED
      BY <2>3, <2>4, <2>5
  <1> QED
    BY <1>4, <1>5, <1>7

(* What the branches of a turn leave alone. *)
Untouched(t, r) ==
  /\ IsReader(t) /\ t.file = r.file /\ t.size = r.size /\ t.buf = r.buf /\ t.pos = r.pos /\ t.offset = r.offset
  /\ t.told = r.told /\ t.depth = r.depth /\ t.line = r.line

(* What Outside sets. *)
OutsideGives(t, r, ch) ==
  /\ Untouched(t, r) /\ t.args = r.args /\ t.need = r.need
  /\ t.start = (IF ch \in Blank THEN r.start ELSE IF ch \in {"q", "s"} THEN r.pos - 1 + 1 ELSE r.pos - 1)
  /\ t.startLine = (IF ch \in Blank THEN r.startLine ELSE r.line)
  /\ t.rc = (IF ch \in {";", "{"} THEN IF r.args = << >> THEN "error" ELSE IF ch = "{" THEN "block" ELSE "ok"
             ELSE IF ch = "}" THEN IF r.args # << >> THEN "error" ELSE "block done" ELSE r.rc)
  /\ t.last = (IF ch \in Blank \cup {";", "{", "}", "#"} THEN r.last ELSE FALSE)
  /\ t.sharp = (IF ch = "#" THEN TRUE ELSE r.sharp) /\ t.quoted = (IF ch = "\\" THEN TRUE ELSE r.quoted)
  /\ t.d = (IF ch = "q" THEN TRUE ELSE r.d) /\ t.s = (IF ch = "s" THEN TRUE ELSE r.s)
  /\ t.variable = (IF ch = "$" THEN TRUE ELSE r.variable)

(* The fields after a character between two words. *)
LEMMA OutsideIs ==
  ASSUME NEW r, IsReader(r), NEW ch
  PROVE  OutsideGives(Outside(r, ch), r, ch)
  <1>1. CASE ch \in Blank
    BY <1>1 DEF Outside, Blank, OutsideGives, Untouched
  <1>2. CASE ch \in {";", "{"}
    BY <1>2 DEF Outside, Blank, OutsideGives, Untouched, Return, IsReader, Fields
  <1>3. CASE ch = "}"
    BY <1>3 DEF Outside, Blank, OutsideGives, Untouched, Return, IsReader, Fields
  <1>4. CASE ch = "#"
    BY <1>4 DEF Outside, Blank, OutsideGives, Untouched, IsReader, Fields
  <1>5. CASE ch = "\\"
    BY <1>5 DEF Outside, Blank, OutsideGives, Untouched, IsReader, Fields
  <1>6. CASE ch = "q"
    BY <1>6 DEF Outside, Blank, OutsideGives, Untouched, IsReader, Fields
  <1>7. CASE ch = "s"
    BY <1>7 DEF Outside, Blank, OutsideGives, Untouched, IsReader, Fields
  <1>8. CASE ch = "$"
    BY <1>8 DEF Outside, Blank, OutsideGives, Untouched, IsReader, Fields
  <1>9. CASE ch \notin Blank \cup {";", "{", "}", "#", "\\", "q", "s", "$"}
    BY <1>9 DEF Outside, Blank, OutsideGives, Untouched, IsReader, Fields
  <1> QED
    BY <1>1, <1>2, <1>3, <1>4, <1>5, <1>6, <1>7, <1>8, <1>9

(* Two readers that agree go on to agree, in one of the branches. *)
BranchOK(t, u, a, b) ==
  /\ Untouched(t, a) /\ Untouched(u, b) /\ SameStart(t, u) /\ SameWords(t, u)
  /\ t.start \in {a.start, a.pos - 1, a.pos} /\ u.start \in {b.start, b.pos - 1, b.pos}

(* Between two words, both readers do the same. *)
LEMMA OutsideSame ==
  ASSUME NEW a, NEW b, IsReader(a), IsReader(b), a.pos \in Nat, b.pos \in Nat, SameStart(a, b), SameWords(a, b), NEW ch
  PROVE  BranchOK(Outside(a, ch), Outside(b, ch), a, b)
  <1> DEFINE t == Outside(a, ch)
             u == Outside(b, ch)
  <1>1. OutsideGives(t, a, ch) /\ OutsideGives(u, b, ch)
    BY OutsideIs
  <1> HIDE DEF t, u
  <1>2. Untouched(t, a) /\ Untouched(u, b)
    BY <1>1 DEF OutsideGives
  <1>3. SameWords(t, u)
    BY <1>1, <1>2 DEF OutsideGives, SameWords, Untouched
  <1>4. /\ t.start \in {a.start, a.pos - 1, a.pos} /\ u.start \in {b.start, b.pos - 1, b.pos}
        /\ t.pos - t.start = u.pos - u.start
    <2>1. t.pos = a.pos /\ u.pos = b.pos
      BY <1>2 DEF Untouched
    <2>2. /\ t.start = (IF ch \in Blank THEN a.start ELSE IF ch \in {"q", "s"} THEN a.pos - 1 + 1 ELSE a.pos - 1)
          /\ u.start = (IF ch \in Blank THEN b.start ELSE IF ch \in {"q", "s"} THEN b.pos - 1 + 1 ELSE b.pos - 1)
      BY <1>1 DEF OutsideGives
    <2>3. a.pos - a.start = b.pos - b.start
      BY DEF SameStart
    <2> QED
      BY <2>1, <2>2, <2>3
  <1> QED
    BY <1>2, <1>3, <1>4 DEF BranchOK, SameStart, t, u

(* The word that ends with the character before `pos`. *)
WordOf(r) == SubSeq(r.buf, r.start + 1, r.pos - 1)

(* The characters that end a word. *)
Ends(r, ch) ==
  \/ r.d /\ ch = "q"
  \/ r.s /\ ~r.d /\ ch = "s"
  \/ ~r.d /\ ~r.s /\ ch \in Blank \cup {";", "{"} /\ ~(ch = "{" /\ r.variable)

(* What Inside sets. *)
InsideGives(t, r, ch) ==
  /\ Untouched(t, r) /\ t.start = r.start /\ t.startLine = r.startLine /\ t.sharp = r.sharp
  /\ t.args = (IF Ends(r, ch) THEN Append(r.args, Unescaped(WordOf(r))) ELSE r.args)
  /\ t.variable = (IF ch = "{" /\ r.variable THEN r.variable ELSE IF ch = "$" THEN TRUE ELSE FALSE)
  /\ t.quoted = (IF ch = "\\" THEN TRUE ELSE r.quoted)
  /\ t.d = (IF ch = "q" /\ Ends(r, ch) THEN FALSE ELSE r.d)
  /\ t.s = (IF ch = "s" /\ Ends(r, ch) THEN FALSE ELSE r.s)
  /\ t.need = (IF ch \in {"q", "s"} /\ Ends(r, ch) THEN TRUE ELSE r.need)
  /\ t.last = (IF ch \notin {"q", "s"} /\ Ends(r, ch) THEN TRUE ELSE r.last)
  /\ t.rc = (IF ch \notin {"q", "s"} /\ Ends(r, ch)
             THEN CASE ch = ";" -> "ok" [] ch = "{" -> "block" [] OTHER -> "more" ELSE r.rc)

(* The fields after a character of a word. *)
LEMMA InsideIs ==
  ASSUME NEW r, IsReader(r), NEW ch
  PROVE  InsideGives(Inside(r, ch), r, ch)
  <1> DEFINE a == [r EXCEPT !.variable = FALSE]
             t == Inside(r, ch)
  <1>1. CASE ch = "{" /\ r.variable
    BY <1>1 DEF Inside, InsideGives, Ends, Blank, Untouched
  <1>a. ASSUME ~(ch = "{" /\ r.variable)
        PROVE  t = (CASE ch = "\\" -> [a EXCEPT !.quoted = TRUE]
                      [] ch = "$" -> [a EXCEPT !.variable = TRUE]
                      [] a.d /\ ch = "q" -> Argument([a EXCEPT !.d = FALSE, !.need = TRUE])
                      [] a.s /\ ~a.d /\ ch = "s" -> Argument([a EXCEPT !.s = FALSE, !.need = TRUE])
                      [] ~a.d /\ ~a.s /\ ch \in Blank \cup {";", "{"} ->
                           Return(Argument([a EXCEPT !.last = TRUE]),
                                  CASE ch = ";" -> "ok" [] ch = "{" -> "block" [] OTHER -> "more")
                      [] OTHER -> a)
    BY <1>a DEF Inside
  <1>b. a.d = r.d /\ a.s = r.s
    BY DEF IsReader, Fields
  <1>2. CASE ch = "\\"
    <2>1. t = [a EXCEPT !.quoted = TRUE]
      BY <1>2, <1>a DEF Blank
    <2> QED
      BY <1>2, <2>1 DEF InsideGives, Ends, Blank, Untouched, IsReader, Fields
  <1>3. CASE ch = "$"
    <2>1. t = [a EXCEPT !.variable = TRUE]
      BY <1>3, <1>a DEF Blank
    <2> QED
      BY <1>3, <2>1 DEF InsideGives, Ends, Blank, Untouched, IsReader, Fields
  <1>4. CASE r.d /\ ch = "q"
    <2>1. t = Argument([a EXCEPT !.d = FALSE, !.need = TRUE])
      BY <1>4, <1>a, <1>b DEF Blank
    <2> QED
      BY <1>4, <2>1 DEF InsideGives, Ends, Blank, Untouched, IsReader, Fields, Argument, WordOf
  <1>5. CASE r.s /\ ~r.d /\ ch = "s"
    <2>1. t = Argument([a EXCEPT !.s = FALSE, !.need = TRUE])
      BY <1>5, <1>a, <1>b DEF Blank
    <2> QED
      BY <1>5, <2>1 DEF InsideGives, Ends, Blank, Untouched, IsReader, Fields, Argument, WordOf
  <1>6. CASE ~r.d /\ ~r.s /\ ch \in Blank \cup {";", "{"} /\ ~(ch = "{" /\ r.variable)
    <2>1. t = Return(Argument([a EXCEPT !.last = TRUE]),
                     CASE ch = ";" -> "ok" [] ch = "{" -> "block" [] OTHER -> "more")
      BY <1>6, <1>a, <1>b DEF Blank
    <2> QED
      BY <1>6, <2>1 DEF InsideGives, Ends, Blank, Untouched, IsReader, Fields, Argument, WordOf, Return
  <1>7. CASE ~Ends(r, ch) /\ ch \notin {"\\", "$"} /\ ~(ch = "{" /\ r.variable)
    <2>1. t = a
      BY <1>7, <1>a, <1>b DEF Blank, Ends
    <2> QED
      BY <1>7, <2>1 DEF InsideGives, Untouched, IsReader, Fields
  <1> QED
    BY <1>1, <1>2, <1>3, <1>4, <1>5, <1>6, <1>7 DEF Ends

(* In a word, both readers do the same. *)
LEMMA InsideSame ==
  ASSUME NEW a, NEW b, IsReader(a), IsReader(b), SameStart(a, b), SameWords(a, b), WordOf(a) = WordOf(b), NEW ch
  PROVE  BranchOK(Inside(a, ch), Inside(b, ch), a, b)
  <1> DEFINE t == Inside(a, ch)
             u == Inside(b, ch)
  <1>1. InsideGives(t, a, ch) /\ InsideGives(u, b, ch)
    BY InsideIs
  <1> HIDE DEF t, u
  <1>2. Untouched(t, a) /\ Untouched(u, b) /\ t.start = a.start /\ u.start = b.start
    BY <1>1 DEF InsideGives
  <1>3. Ends(a, ch) <=> Ends(b, ch)
    BY DEF Ends, SameWords
  <1>4. SameWords(t, u)
    <2>1. CASE Ends(a, ch)
      BY <2>1, <1>1, <1>2, <1>3 DEF InsideGives, SameWords, Untouched
    <2>2. CASE ~Ends(a, ch)
      BY <2>2, <1>1, <1>2, <1>3 DEF InsideGives, SameWords, Untouched
    <2> QED
      BY <2>1, <2>2
  <1> QED
    BY <1>2, <1>4 DEF BranchOK, SameStart, Untouched, t, u

(* After a closing quote, both readers do the same. *)
LEMMA AfterQuoteSame ==
  ASSUME NEW a, NEW b, IsReader(a), IsReader(b), a.pos \in Nat, b.pos \in Nat, SameStart(a, b), SameWords(a, b), NEW ch
  PROVE  BranchOK(AfterQuote(a, ch), AfterQuote(b, ch), a, b)
  <1> DEFINE t == [a EXCEPT !.last = TRUE, !.need = FALSE]
             u == [b EXCEPT !.last = TRUE, !.need = FALSE]
  <1>1. Untouched(t, a) /\ Untouched(u, b) /\ t.start = a.start /\ u.start = b.start
    BY DEF Untouched, IsReader, Fields
  <1>2. SameWords(t, u)
    BY DEF SameWords, IsReader, Fields
  <1>3. SameStart(t, u)
    BY <1>1 DEF SameStart, Untouched
  <1>4. BranchOK(t, u, a, b)
    BY <1>1, <1>2, <1>3 DEF BranchOK
  <1>5. ASSUME NEW rc, rc # "too long" PROVE BranchOK(Return(a, rc), Return(b, rc), a, b)
    <2>1. Untouched(Return(a, rc), a) /\ Return(a, rc).start = a.start
      BY DEF Untouched, IsReader, Fields, Return
    <2>2. Untouched(Return(b, rc), b) /\ Return(b, rc).start = b.start
      BY DEF Untouched, IsReader, Fields, Return
    <2>3. SameWords(Return(a, rc), Return(b, rc))
      BY <1>5 DEF SameWords, IsReader, Fields, Return
    <2>4. SameStart(Return(a, rc), Return(b, rc))
      BY <2>1, <2>2 DEF SameStart, Untouched
    <2> QED
      BY <2>1, <2>2, <2>3, <2>4 DEF BranchOK
  <1>6. BranchOK(Outside(t, ch), Outside(u, ch), a, b)
    <2>1. IsReader(t) /\ IsReader(u) /\ t.pos = a.pos /\ u.pos = b.pos
      BY <1>1 DEF Untouched
    <2>2. BranchOK(Outside(t, ch), Outside(u, ch), t, u)
      <3> HIDE DEF t, u
      <3>1. IsReader(t) /\ IsReader(u) /\ t.pos \in Nat /\ u.pos \in Nat
        BY <2>1
      <3> QED
        BY <3>1, <1>2, <1>3, OutsideSame
    <2> HIDE DEF t, u
    <2>3. Untouched(Outside(t, ch), a) /\ Untouched(Outside(u, ch), b)
      BY <2>2, <1>1 DEF BranchOK, Untouched
    <2> QED
      BY <2>1, <2>2, <2>3, <1>1 DEF BranchOK
  <1>7. CASE ch \in Blank
    <2>1. AfterQuote(a, ch) = t /\ AfterQuote(b, ch) = u
      BY <1>7 DEF AfterQuote, Blank
    <2> QED
      BY <2>1, <1>4
  <1>8. CASE ch = ";"
    <2>1. AfterQuote(a, ch) = Return(a, "ok") /\ AfterQuote(b, ch) = Return(b, "ok")
      BY <1>8 DEF AfterQuote, Blank
    <2> QED
      BY <2>1, <1>5
  <1>9. CASE ch = "{"
    <2>1. AfterQuote(a, ch) = Return(a, "block") /\ AfterQuote(b, ch) = Return(b, "block")
      BY <1>9 DEF AfterQuote, Blank
    <2> QED
      BY <2>1, <1>5
  <1>10. CASE ch = ")"
    <2>1. AfterQuote(a, ch) = Outside(t, ch) /\ AfterQuote(b, ch) = Outside(u, ch)
      BY <1>10 DEF AfterQuote, Blank
    <2> QED
      BY <2>1, <1>6
  <1>11. CASE ch \notin Blank \cup {";", "{", ")"}
    <2>1. AfterQuote(a, ch) = Return(a, "error") /\ AfterQuote(b, ch) = Return(b, "error")
      BY <1>11 DEF AfterQuote, Blank
    <2> QED
      BY <2>1, <1>5
  <1> QED
    BY <1>7, <1>8, <1>9, <1>10, <1>11

-----------------------------------------------------------------------------
(* One character. *)

(* The step over the next character, before its branch. *)
Stepped(r) ==
  LET ch == r.buf[r.pos + 1]
  IN [r EXCEPT !.pos = @ + 1, !.line = IF ch = "LF" THEN @ + 1 ELSE @, !.sharp = @ /\ ch # "LF"]

(* The branch that is taken. *)
Branch(a, ch) ==
  IF a.sharp THEN a
  ELSE IF a.quoted THEN [a EXCEPT !.quoted = FALSE]
  ELSE IF a.need THEN AfterQuote(a, ch)
  ELSE IF a.last THEN Outside(a, ch) ELSE Inside(a, ch)

(* The bounds of a reader, as numbers. *)
LEMMA ReaderBounds ==
  ASSUME NEW r, ReaderOK(r)
  PROVE  /\ IsReader(r) /\ r.pos \in Nat /\ r.start \in Nat /\ r.start <= r.pos /\ r.pos <= Len(r.buf)
         /\ Len(r.buf) \in Nat /\ Len(r.file) \in Nat /\ r.offset \in Nat /\ Len(r.buf) <= r.offset /\ r.offset <= Len(r.file)
         /\ r.size \in Nat \ {0} /\ Len(r.buf) <= r.size
  <1>1. Len(r.buf) \in Nat /\ Len(r.file) \in Nat
    BY DEF ReaderOK
  <1> QED
    BY <1>1 DEF ReaderOK

(* In every branch both readers do the same. *)
LEMMA BranchSame ==
  ASSUME NEW a, NEW b, IsReader(a), IsReader(b), a.pos \in Nat, b.pos \in Nat, SameStart(a, b), SameWords(a, b),
         WordOf(a) = WordOf(b), NEW ch
  PROVE  BranchOK(Branch(a, ch), Branch(b, ch), a, b)
  <1>1. /\ (a.sharp <=> b.sharp) /\ (a.quoted <=> b.quoted) /\ (a.need <=> b.need) /\ (a.last <=> b.last)
    BY DEF SameWords
  <1>2. CASE a.sharp
    <2>1. Branch(a, ch) = a /\ Branch(b, ch) = b
      BY <1>1, <1>2 DEF Branch
    <2>2. BranchOK(a, b, a, b)
      BY DEF BranchOK, Untouched
    <2> QED
      BY <2>1, <2>2
  <1>3. CASE ~a.sharp /\ a.quoted
    <2> DEFINE t == [a EXCEPT !.quoted = FALSE]
               u == [b EXCEPT !.quoted = FALSE]
    <2>1. Branch(a, ch) = t /\ Branch(b, ch) = u
      BY <1>1, <1>3 DEF Branch
    <2>2. Untouched(t, a) /\ Untouched(u, b) /\ t.start = a.start /\ u.start = b.start
      BY DEF Untouched, IsReader, Fields
    <2>3. SameWords(t, u)
      BY DEF SameWords, IsReader, Fields
    <2> HIDE DEF t, u
    <2>4. SameStart(t, u)
      BY <2>2 DEF SameStart, Untouched
    <2>5. BranchOK(t, u, a, b)
      BY <2>2, <2>3, <2>4 DEF BranchOK
    <2> QED
      BY <2>1, <2>5
  <1>4. CASE ~a.sharp /\ ~a.quoted /\ a.need
    <2>1. Branch(a, ch) = AfterQuote(a, ch) /\ Branch(b, ch) = AfterQuote(b, ch)
      BY <1>1, <1>4 DEF Branch
    <2> QED
      BY <2>1, AfterQuoteSame
  <1>5. CASE ~a.sharp /\ ~a.quoted /\ ~a.need /\ a.last
    <2>1. Branch(a, ch) = Outside(a, ch) /\ Branch(b, ch) = Outside(b, ch)
      BY <1>1, <1>5 DEF Branch
    <2> QED
      BY <2>1, OutsideSame
  <1>6. CASE ~a.sharp /\ ~a.quoted /\ ~a.need /\ ~a.last
    <2>1. Branch(a, ch) = Inside(a, ch) /\ Branch(b, ch) = Inside(b, ch)
      BY <1>1, <1>6 DEF Branch
    <2> QED
      BY <2>1, InsideSame
  <1> QED
    BY <1>2, <1>3, <1>4, <1>5, <1>6

(* The fields after the step over a character. *)
LEMMA SteppedIs ==
  ASSUME NEW r, IsReader(r)
  PROVE  LET t == Stepped(r)
             ch == r.buf[r.pos + 1]
         IN /\ IsReader(t) /\ t.file = r.file /\ t.size = r.size /\ t.buf = r.buf /\ t.pos = r.pos + 1 /\ t.offset = r.offset
            /\ t.start = r.start /\ t.startLine = r.startLine /\ t.args = r.args /\ t.told = r.told /\ t.depth = r.depth
            /\ t.rc = r.rc /\ t.last = r.last /\ t.need = r.need /\ t.variable = r.variable /\ t.quoted = r.quoted
            /\ t.s = r.s /\ t.d = r.d
            /\ t.line = (IF ch = "LF" THEN r.line + 1 ELSE r.line) /\ t.sharp = (r.sharp /\ ch # "LF")
  BY DEF Stepped, IsReader, Fields

(* A branch leaves the bounds of a reader as they have to be. *)
LEMMA BranchBounds ==
  ASSUME NEW r, ReaderOK(r), r.pos < Len(r.buf), NEW t,
         Untouched(t, Stepped(r)), t.start \in {Stepped(r).start, Stepped(r).pos - 1, Stepped(r).pos}
  PROVE  ReaderOK(t) /\ Place(t) = Place(r) + 1 /\ t.file = r.file /\ t.size = r.size /\ t.told = r.told
  <1>1. /\ IsReader(t) /\ t.file = r.file /\ t.size = r.size /\ t.buf = r.buf /\ t.pos = r.pos + 1 /\ t.offset = r.offset
        /\ t.told = r.told /\ t.start \in {r.start, r.pos + 1 - 1, r.pos + 1}
    <2>1. IsReader(r)
      BY DEF ReaderOK
    <2> DEFINE p == Stepped(r)
    <2>2. /\ p.file = r.file /\ p.size = r.size /\ p.buf = r.buf /\ p.pos = r.pos + 1 /\ p.offset = r.offset
          /\ p.start = r.start /\ p.told = r.told
      BY <2>1, SteppedIs
    <2>3. Untouched(t, p) /\ t.start \in {p.start, p.pos - 1, p.pos}
      OBVIOUS
    <2> HIDE DEF p
    <2>4. /\ IsReader(t) /\ t.file = p.file /\ t.size = p.size /\ t.buf = p.buf /\ t.pos = p.pos /\ t.offset = p.offset
          /\ t.told = p.told
      BY <2>3 DEF Untouched
    <2>5. t.start \in {r.start, r.pos + 1 - 1, r.pos + 1}
      <3>1. p.start = r.start /\ p.pos = r.pos + 1
        BY <2>2
      <3>2. t.start \in {p.start, p.pos - 1, p.pos}
        BY <2>3
      <3>3. r.pos \in Nat
        BY ReaderBounds
      <3> QED
        BY <3>1, <3>2, <3>3
    <2> QED
      BY <2>2, <2>4, <2>5
  <1>2. t.start \in {r.start, r.pos, r.pos + 1}
    BY <1>1, ReaderBounds
  <1>3. t.pos \in 0 .. Len(t.buf) /\ t.start \in 0 .. t.pos
    <2>1. t.pos = r.pos + 1 /\ t.buf = r.buf
      BY <1>1
    <2> QED
      BY <2>1, <1>2, ReaderBounds
  <1>4. Place(t) = Place(r) + 1
    <2>1. \A o, n, p \in Nat : o - n + (p + 1) = o - n + p + 1
      OBVIOUS
    <2>2. t.pos = r.pos + 1 /\ t.buf = r.buf /\ t.offset = r.offset
      BY <1>1
    <2>3. r.pos \in Nat /\ r.offset \in Nat /\ Len(r.buf) \in Nat
      BY ReaderBounds
    <2> QED
      BY <2>1, <2>2, <2>3 DEF Place
  <1>5. ReaderOK(t)
    BY <1>1, <1>3 DEF ReaderOK
  <1> QED
    BY <1>1, <1>4, <1>5

(* A character is the same for both, and so is what it does. *)
LEMMA CharacterSame ==
  ASSUME NEW a, NEW b, ReaderOK(a), ReaderOK(b), Agree(a, b), a.pos < Len(a.buf), b.pos < Len(b.buf)
  PROVE  LET t == Character(a)
             u == Character(b)
         IN /\ ReaderOK(t) /\ ReaderOK(u) /\ Agree(t, u)
            /\ t.file = a.file /\ t.size = a.size /\ u.file = b.file /\ u.size = b.size /\ u.told = b.told
  <1> DEFINE p == Stepped(a)
             q == Stepped(b)
             ch == a.buf[a.pos + 1]
             t == Branch(p, ch)
             u == Branch(q, ch)
  <1>1. /\ IsReader(a) /\ a.pos \in Nat /\ a.start \in Nat /\ a.start <= a.pos
        /\ IsReader(b) /\ b.pos \in Nat /\ b.start \in Nat /\ b.start <= b.pos
    BY ReaderBounds
  <1>2. b.buf[b.pos + 1] = ch
    <2>1. \A r : ReaderOK(r) /\ r.pos < Len(r.buf) => r.buf[r.pos + 1] = r.file[Place(r) + 1]
      <3> SUFFICES ASSUME NEW r, ReaderOK(r), r.pos < Len(r.buf)
                   PROVE  r.buf[r.pos + 1] = r.file[Place(r) + 1]
        OBVIOUS
      <3>1. r.pos \in Nat /\ r.offset \in Nat /\ Len(r.buf) \in Nat
        BY ReaderBounds
      <3>2. r.pos + 1 \in 1 .. Len(r.buf)
        BY <3>1
      <3>3. r.buf[r.pos + 1] = r.file[r.offset - Len(r.buf) + (r.pos + 1)]
        BY <3>2 DEF ReaderOK
      <3>4. r.offset - Len(r.buf) + (r.pos + 1) = Place(r) + 1
        BY <3>1 DEF Place
      <3> QED
        BY <3>3, <3>4
    <2>2. a.file = b.file /\ Place(a) = Place(b)
      BY DEF Agree
    <2> QED
      BY <2>1, <2>2
  <1>3. Character(a) = t /\ Character(b) = u
    <2>1. Character(a) = Branch(p, a.buf[a.pos + 1]) /\ Character(b) = Branch(q, b.buf[b.pos + 1])
      BY DEF Character, Branch, Stepped
    <2> QED
      BY <2>1, <1>2
  <1>4. SubSeq(a.buf, a.start + 1, a.pos) = SubSeq(b.buf, b.start + 1, b.pos)
    BY SameText DEF Agree
  <1>5. BranchOK(t, u, p, q)
    <2>1. /\ IsReader(p) /\ p.pos = a.pos + 1 /\ p.start = a.start /\ p.buf = a.buf
          /\ IsReader(q) /\ q.pos = b.pos + 1 /\ q.start = b.start /\ q.buf = b.buf
      BY <1>1, SteppedIs
    <2>2. SameWords(p, q)
      <3>1. SameWords(a, b)
        BY DEF Agree
      <3>2. /\ p.args = a.args /\ p.told = a.told /\ p.depth = a.depth /\ p.rc = a.rc /\ p.startLine = a.startLine
            /\ p.last = a.last /\ p.need = a.need /\ p.variable = a.variable /\ p.quoted = a.quoted /\ p.s = a.s /\ p.d = a.d
            /\ p.line = (IF ch = "LF" THEN a.line + 1 ELSE a.line) /\ p.sharp = (a.sharp /\ ch # "LF")
        BY <1>1, SteppedIs
      <3>3. /\ q.args = b.args /\ q.told = b.told /\ q.depth = b.depth /\ q.rc = b.rc /\ q.startLine = b.startLine
            /\ q.last = b.last /\ q.need = b.need /\ q.variable = b.variable /\ q.quoted = b.quoted /\ q.s = b.s /\ q.d = b.d
            /\ q.line = (IF ch = "LF" THEN b.line + 1 ELSE b.line) /\ q.sharp = (b.sharp /\ ch # "LF")
        BY <1>1, <1>2, SteppedIs
      <3> HIDE DEF p, q, ch
      <3> QED
        BY <3>1, <3>2, <3>3, ZenonT(40) DEF SameWords
    <2> HIDE DEF p, q, ch
    <2>3. p.pos \in Nat /\ q.pos \in Nat /\ p.pos - 1 = a.pos /\ q.pos - 1 = b.pos
      BY <2>1, <1>1, SMTT(40)
    <2>4. WordOf(p) = WordOf(q)
      BY <2>1, <2>3, <1>4 DEF WordOf
    <2>5. SameStart(p, q)
      <3>1. a.pos - a.start = b.pos - b.start
        BY DEF Agree, SameStart
      <3> QED
        BY <3>1, <2>1, <1>1, SMTT(60) DEF SameStart
    <2> QED
      BY <2>1, <2>2, <2>3, <2>4, <2>5, BranchSame
  <1> HIDE DEF p, q, ch, t, u
  <1>6. /\ ReaderOK(t) /\ Place(t) = Place(a) + 1 /\ t.file = a.file /\ t.size = a.size
    BY <1>5, BranchBounds DEF BranchOK, p
  <1>7. /\ ReaderOK(u) /\ Place(u) = Place(b) + 1 /\ u.file = b.file /\ u.size = b.size /\ u.told = b.told
    BY <1>5, BranchBounds DEF BranchOK, q
  <1>8. Agree(t, u)
    BY <1>5, <1>6, <1>7 DEF BranchOK, Agree
  <1> QED
    BY <1>3, <1>6, <1>7, <1>8

-----------------------------------------------------------------------------
(* The buffer is filled again. *)

(* How many characters are read: what is left of the file, or of the room. *)
ReadIn(r) == IF Len(r.file) - r.offset < r.size - (r.pos - r.start) THEN Len(r.file) - r.offset ELSE r.size - (r.pos - r.start)

(* A reader whose buffer is used up, at a place before the end of the file: *)
(* what was begun moves to the front of the buffer, at the same place.      *)
LEMMA RefillPlace ==
  ASSUME NEW r, ReaderOK(r), r.pos = Len(r.buf), r.offset < Len(r.file), r.pos - r.start # r.size, r.rc = "more"
  PROVE  LET t == Refill(r)
         IN /\ ReaderOK(t) /\ Place(t) = Place(r) /\ SameStart(t, r) /\ SameWords(t, r)
            /\ t.file = r.file /\ t.size = r.size /\ t.pos < Len(t.buf)
  <1> DEFINE k == r.pos - r.start
             n == ReadIn(r)
             front == SubSeq(r.buf, r.start + 1, r.pos)
             more == SubSeq(r.file, r.offset + 1, r.offset + n)
             t == Refill(r)
  <1>1. /\ IsReader(r) /\ r.pos \in Nat /\ r.start \in Nat /\ r.start <= r.pos /\ Len(r.buf) \in Nat
        /\ Len(r.file) \in Nat /\ r.offset \in Nat /\ Len(r.buf) <= r.offset /\ r.size \in Nat \ {0} /\ Len(r.buf) <= r.size
    BY ReaderBounds
  <1>2. /\ r.buf \in Seq(Characters) /\ r.file \in Seq(Characters)
        /\ \A i \in 1 .. Len(r.buf) : r.buf[i] = r.file[r.offset - Len(r.buf) + i]
    BY DEF ReaderOK
  <1>3. /\ k \in Nat /\ k < r.size /\ n \in Nat \ {0} /\ k + n <= r.size /\ r.offset + n <= Len(r.file)
        /\ r.start + k = Len(r.buf) /\ k <= r.offset
    <2>1. PICK p, s, l, o, z, m \in Nat : p = r.pos /\ s = r.start /\ l = Len(r.file) /\ o = r.offset /\ z = r.size /\ m = Len(r.buf)
      BY <1>1
    <2>2. s <= p /\ p = m /\ m <= o /\ o < l /\ m <= z /\ p - s # z
      BY <2>1, <1>1
    <2>3. n = IF l - o < z - (p - s) THEN l - o ELSE z - (p - s)
      BY <2>1 DEF ReadIn
    <2>4. \A h, g \in Int : h = p - s /\ g = (IF l - o < z - h THEN l - o ELSE z - h) =>
             /\ h \in Nat /\ h < z /\ g \in Nat \ {0} /\ h + g <= z /\ o + g <= l /\ s + h = m /\ h <= o
      BY <2>2
    <2>5. k = p - s /\ n \in Int
      <3>1. k = p - s
        BY <2>1
      <3>2. n \in Int
        <4> HIDE DEF n
        <4> QED
          BY <2>3
      <3> QED
        BY <3>1, <3>2
    <2> HIDE DEF k, n
    <2>a. n = IF l - o < z - k THEN l - o ELSE z - k
      BY <2>3, <2>5
    <2>6. /\ k \in Nat /\ k < z /\ n \in Nat \ {0} /\ k + n <= z /\ o + n <= l /\ s + k = m /\ k <= o
      <3>2. k \in Int
        BY <2>5
      <3> QED
        BY <2>4, <2>5, <2>a, <3>2
    <2> QED
      BY <2>1, <2>6
  <1>4. t = [r EXCEPT !.buf = front \o more, !.pos = k, !.start = 0, !.offset = r.offset + n]
    <2>1. t = [r EXCEPT !.buf = SubSeq(@, r.start + 1, r.pos) \o more, !.pos = k, !.start = 0, !.offset = @ + n]
      BY DEF Refill, ReadIn
    <2> QED
      BY <2>1
  <1> HIDE DEF n, t
  <1>5. /\ IsReader(t) /\ t.buf = front \o more /\ t.pos = k /\ t.start = 0 /\ t.offset = r.offset + n
        /\ t.file = r.file /\ t.size = r.size
    BY <1>1, <1>4 DEF IsReader, Fields
  <1>6. SameWords(t, r)
    BY <1>1, <1>4 DEF SameWords, IsReader, Fields
  <1>7. /\ front \in Seq(Characters) /\ Len(front) = k
        /\ \A i \in 1 .. k : front[i] = r.file[r.offset - k + i]
    <2>1. front \in Seq(Characters) /\ Len(front) = k
          /\ \A i \in 1 .. k : front[i] = r.buf[r.start + i] /\ r.start + i \in 1 .. Len(r.buf)
      <3>1. r.buf \in Seq(Characters)
        BY <1>2
      <3>2. r.start \in Nat /\ r.pos \in Nat /\ r.start <= r.pos /\ r.pos <= Len(r.buf)
        BY <1>1
      <3> QED
        BY <3>1, <3>2, PartIs
    <2> HIDE DEF front
    <2>5. \A o, m, s, i, j \in Nat : s + j = m => o - m + (s + i) = o - j + i
      OBVIOUS
    <2>6. \A i \in 1 .. k : r.offset - Len(r.buf) + (r.start + i) = r.offset - k + i
      <3> HIDE DEF k
      <3> TAKE i \in 1 .. k
      <3>1. i \in Nat
        BY <1>3
      <3> QED
        BY <3>1, <2>5, <1>1, <1>3
    <2>7. \A i \in 1 .. k : front[i] = r.file[r.offset - k + i]
      BY <2>1, <2>6, <1>2
    <2> QED
      BY <2>1, <2>7
  <1>8. /\ more \in Seq(Characters) /\ Len(more) = n
        /\ \A i \in 1 .. n : more[i] = r.file[r.offset + i]
    <2>1. /\ r.offset \in Nat /\ r.offset + n \in Nat /\ r.offset <= r.offset + n /\ (r.offset + n) - r.offset = n
      BY <1>1, <1>3, SMTT(40)
    <2> HIDE DEF k
    <2>2. PICK e \in Nat : e = r.offset + n
      BY <2>1
    <2>3. /\ more \in Seq(Characters) /\ Len(more) = e - r.offset
          /\ \A i \in 1 .. e - r.offset : more[i] = r.file[r.offset + i]
      <3>1. r.file \in Seq(Characters)
        BY <1>2
      <3>2. r.offset \in Nat /\ r.offset <= e /\ e <= Len(r.file)
        BY <1>3, <2>1, <2>2
      <3>3. more = SubSeq(r.file, r.offset + 1, e)
        BY <2>2
      <3> HIDE DEF more
      <3> QED
        BY <3>1, <3>2, <3>3, PartIs
    <2>4. e - r.offset = n
      BY <2>1, <2>2
    <2> HIDE DEF more
    <2> QED
      BY <2>3, <2>4
  <1> HIDE DEF front, more
  <1>9. /\ t.buf \in Seq(Characters) /\ Len(t.buf) = k + n
        /\ \A i \in 1 .. k + n : t.buf[i] = IF i <= k THEN front[i] ELSE more[i - k]
    <2>1. front \o more \in Seq(Characters) /\ Len(front \o more) = Len(front) + Len(more)
          /\ \A i \in 1 .. Len(front) + Len(more) : (front \o more)[i] = IF i <= Len(front) THEN front[i] ELSE more[i - Len(front)]
      <3>1. front \in Seq(Characters) /\ more \in Seq(Characters)
        BY <1>7, <1>8
      <3> QED
        BY <3>1, JoinedIs
    <2> HIDE DEF k
    <2> QED
      BY <2>1, <1>5, <1>7, <1>8
  <1> HIDE DEF k
  <1>10. /\ t.offset - Len(t.buf) = r.offset - k /\ t.offset \in Len(t.buf) .. Len(t.file)
         /\ Len(t.buf) <= t.size /\ t.pos \in 0 .. Len(t.buf) /\ t.start \in 0 .. t.pos /\ t.pos < Len(t.buf)
    <2>1. \A o, m, j, l, z \in Nat : m # 0 /\ j + m <= z /\ o + m <= l /\ j <= o =>
             /\ (o + m) - (j + m) = o - j /\ o + m \in j + m .. l /\ j + m <= z /\ j \in 0 .. j + m /\ 0 \in 0 .. j /\ j < j + m
      OBVIOUS
    <2>2. /\ (r.offset + n) - (k + n) = r.offset - k /\ r.offset + n \in k + n .. Len(r.file) /\ k + n <= r.size
          /\ k \in 0 .. k + n /\ 0 \in 0 .. k /\ k < k + n
      BY <2>1, <1>1, <1>3
    <2> QED
      BY <2>2, <1>5, <1>9
  <1>11. \A i \in 1 .. Len(t.buf) : t.buf[i] = t.file[t.offset - Len(t.buf) + i]
    <2> SUFFICES ASSUME NEW i \in 1 .. k + n
                 PROVE  t.buf[i] = r.file[r.offset - k + i]
      BY <1>5, <1>9, <1>10
    <2>1. CASE i <= k
      <3>1. i \in 1 .. k /\ t.buf[i] = front[i]
        BY <2>1, <1>3, <1>9
      <3> QED
        BY <3>1, <1>7
    <2>2. CASE ~(i <= k)
      <3>1. \A j, m, o \in Nat : \A h \in 1 .. j + m : ~(h <= j) => h - j \in 1 .. m /\ o + (h - j) = o - j + h
        OBVIOUS
      <3>2. i - k \in 1 .. n /\ r.offset + (i - k) = r.offset - k + i
        BY <2>2, <3>1, <1>1, <1>3
      <3>3. t.buf[i] = more[i - k]
        BY <2>2, <1>9
      <3> QED
        BY <3>2, <3>3, <1>8
    <2> QED
      BY <2>1, <2>2
  <1>12. ReaderOK(t)
    BY <1>1, <1>2, <1>5, <1>9, <1>10, <1>11 DEF ReaderOK
  <1>13. Place(t) = Place(r) /\ SameStart(t, r)
    <2>1. \A o, m, s, j \in Nat : s + j = m => o - j + j = o - m + m /\ j - 0 = m - s
      OBVIOUS
    <2>2. r.offset - k + k = r.offset - Len(r.buf) + Len(r.buf) /\ k - 0 = Len(r.buf) - r.start
      BY <2>1, <1>1, <1>3
    <2> QED
      BY <2>2, <1>5, <1>10 DEF Place, SameStart
  <1> QED
    BY <1>5, <1>6, <1>10, <1>12, <1>13 DEF t

(* A buffer that is full of one word is not filled, and the reader says so. *)
LEMMA RefillFull ==
  ASSUME NEW r, ReaderOK(r), r.pos - r.start = r.size
  PROVE  LET t == Refill(r)
         IN /\ ReaderOK(t) /\ t.rc = "too long" /\ t.pos - t.start = t.size /\ t.told = r.told
            /\ t.file = r.file /\ t.size = r.size
  <1> DEFINE t == Refill(r)
  <1>1. t = [r EXCEPT !.rc = "too long", !.line = r.startLine]
    BY DEF Refill
  <1>2. IsReader(r)
    BY DEF ReaderOK
  <1>3. /\ IsReader(t) /\ t.rc = "too long" /\ t.file = r.file /\ t.size = r.size /\ t.buf = r.buf /\ t.pos = r.pos
        /\ t.start = r.start /\ t.offset = r.offset /\ t.told = r.told
    BY <1>1, <1>2 DEF IsReader, Fields
  <1> HIDE DEF t
  <1>4. ReaderOK(t)
    BY <1>3 DEF ReaderOK
  <1> QED
    BY <1>3, <1>4 DEF t

-----------------------------------------------------------------------------
(* A turn of the loop. *)

(* The reader `x` is at the place where `r` is, with a character to read. *)
AtHand(x, r) ==
  /\ ReaderOK(x) /\ Place(x) = Place(r) /\ SameStart(x, r) /\ SameWords(x, r)
  /\ x.file = r.file /\ x.size = r.size /\ x.pos < Len(x.buf)

(* Before the end of the file, a turn reads a character, after the buffer *)
(* was filled if it had to be, or finds the buffer full.                  *)
LEMMA TurnReads ==
  ASSUME NEW r, ReaderOK(r), r.rc = "more", Place(r) < Len(r.file)
  PROVE  \/ r.pos - r.start = r.size /\ r.pos = Len(r.buf) /\ r.offset < Len(r.file) /\ Turn(r) = Refill(r)
         \/ \E x : AtHand(x, r) /\ Turn(r) = Character(x)
  <1>1. CASE r.pos < Len(r.buf)
    <2>1. Turn(r) = Character(r)
      BY <1>1 DEF Turn
    <2>2. AtHand(r, r)
      BY <1>1 DEF AtHand, SameStart, SameWords
    <2> QED
      BY <2>1, <2>2
  <1>2. CASE ~(r.pos < Len(r.buf))
    <2>1. r.pos = Len(r.buf) /\ r.offset < Len(r.file) /\ ~(r.offset >= Len(r.file))
      BY <1>2, ReaderBounds DEF Place
    <2>2. Turn(r) = IF Refill(r).rc = "more" THEN Character(Refill(r)) ELSE Refill(r)
      BY <1>2, <2>1 DEF Turn
    <2>3. CASE r.pos - r.start = r.size
      <3>1. Refill(r).rc = "too long"
        BY <2>3, RefillFull
      <3> QED
        BY <2>1, <2>2, <2>3, <3>1
    <2>4. CASE r.pos - r.start # r.size
      <3> DEFINE x == Refill(r)
      <3>1. AtHand(x, r)
        BY <2>1, <2>4, RefillPlace DEF AtHand
      <3>2. x.rc = "more"
        BY <3>1 DEF AtHand, SameWords
      <3> HIDE DEF x
      <3>3. Turn(r) = Character(x)
        BY <2>2, <3>2 DEF x
      <3> QED
        BY <3>1, <3>3
    <2> QED
      BY <2>3, <2>4
  <1> QED
    BY <1>1, <1>2

(* At the end of the file, a turn ends. *)
LEMMA TurnEnds ==
  ASSUME NEW r, ReaderOK(r), ~(Place(r) < Len(r.file))
  PROVE  Turn(r) = Return(r, IF r.args # << >> \/ ~r.last THEN "error" ELSE "file done")
  <1>1. ~(r.pos < Len(r.buf)) /\ r.offset >= Len(r.file)
    BY ReaderBounds DEF Place
  <1> QED
    BY <1>1 DEF Turn

(* What Return leaves alone. *)
LEMMA ReturnIs ==
  ASSUME NEW r, ReaderOK(r), NEW rc
  PROVE  LET t == Return(r, rc)
         IN ReaderOK(t) /\ Place(t) = Place(r) /\ t.file = r.file /\ t.size = r.size /\ t.rc = rc
            /\ t.pos = r.pos /\ t.start = r.start
  <1> DEFINE t == Return(r, rc)
  <1>1. IsReader(r)
    BY DEF ReaderOK
  <1>2. /\ IsReader(t) /\ t.rc = rc /\ t.file = r.file /\ t.size = r.size /\ t.buf = r.buf /\ t.pos = r.pos
        /\ t.start = r.start /\ t.offset = r.offset
    BY <1>1 DEF Return, IsReader, Fields
  <1> HIDE DEF t
  <1>3. ReaderOK(t) /\ Place(t) = Place(r)
    BY <1>2 DEF ReaderOK, Place
  <1> QED
    BY <1>2, <1>3 DEF t

(* Both readers return the same, and still agree. *)
LEMMA ReturnSame ==
  ASSUME NEW a, NEW b, ReaderOK(a), ReaderOK(b), Agree(a, b), NEW rc, rc # "too long"
  PROVE  Agree(Return(a, rc), Return(b, rc))
  <1>1. IsReader(a) /\ IsReader(b)
    BY DEF ReaderOK
  <1>2. SameWords(Return(a, rc), Return(b, rc))
    BY <1>1 DEF SameWords, IsReader, Fields, Return, Agree
  <1>3. SameStart(Return(a, rc), Return(b, rc))
    BY ReturnIs, ZenonT(40) DEF SameStart, Agree
  <1> QED
    BY <1>2, <1>3, ReturnIs DEF Agree

(* After a turn of both readers, they agree, or the small one gave up. *)
LEMMA TurnSame ==
  ASSUME NEW a, NEW b, ReaderOK(a), ReaderOK(b), Agree(a, b), b.size = Len(b.file) + 1, a.rc = "more"
  PROVE  PairOK(Turn(a), Turn(b))
  <1>1. a.file = b.file /\ Place(a) = Place(b) /\ b.rc = "more" /\ SameStart(a, b) /\ SameWords(a, b)
    BY DEF Agree, SameWords
  <1>2. CASE Place(a) < Len(a.file)
    <2>1. PICK y : AtHand(y, b) /\ Turn(b) = Character(y)
      <3>1. ~(b.pos - b.start = b.size /\ b.pos = Len(b.buf) /\ b.offset < Len(b.file))
        BY ReaderBounds
      <3>2. Place(b) < Len(b.file)
        BY <1>1, <1>2
      <3> QED
        BY <1>1, <3>1, <3>2, TurnReads
    <2>2. CASE a.pos - a.start = a.size /\ Turn(a) = Refill(a)
      <3> DEFINE t == Refill(a)
                 u == Character(y)
      <3>1. /\ ReaderOK(t) /\ t.rc = "too long" /\ t.pos - t.start = t.size /\ t.told = a.told
        BY <2>2, RefillFull
      <3>2. Agree(y, y) /\ ReaderOK(y) /\ y.pos < Len(y.buf) /\ y.told = b.told /\ y.file = b.file /\ y.size = b.size
        BY <2>1 DEF AtHand, Agree, SameStart, SameWords
      <3>3. ReaderOK(u) /\ u.file = y.file /\ u.size = y.size /\ u.told = y.told
        BY <3>2, CharacterSame
      <3>4. a.told = b.told
        BY <1>1 DEF SameWords
      <3>5. PairOK(t, u)
        <4> HIDE DEF t, u
        <4>1. GivenUp(t, u)
          BY <3>1, <3>2, <3>3, <3>4 DEF GivenUp
        <4>2. u.size = Len(u.file) + 1
          BY <3>2, <3>3
        <4> QED
          BY <3>1, <3>3, <4>1, <4>2 DEF PairOK
      <3> QED
        BY <2>1, <2>2, <3>5
    <2>3. CASE \E x : AtHand(x, a) /\ Turn(a) = Character(x)
      <3>1. PICK x : AtHand(x, a) /\ Turn(a) = Character(x)
        BY <2>3
      <3> DEFINE t == Character(x)
                 u == Character(y)
      <3>2. ReaderOK(x) /\ ReaderOK(y) /\ x.pos < Len(x.buf) /\ y.pos < Len(y.buf) /\ y.file = b.file /\ y.size = b.size
        BY <2>1, <3>1 DEF AtHand
      <3>3. Agree(x, y)
        <4>1. SameStart(x, y)
          BY <1>1, <2>1, <3>1 DEF AtHand, SameStart
        <4>2. SameWords(x, y)
          BY <1>1, <2>1, <3>1 DEF AtHand, SameWords
        <4> QED
          BY <1>1, <2>1, <3>1, <4>1, <4>2 DEF AtHand, Agree
      <3>4. ReaderOK(t) /\ ReaderOK(u) /\ Agree(t, u) /\ u.file = y.file /\ u.size = y.size
        BY <3>2, <3>3, CharacterSame
      <3>5. PairOK(t, u)
        <4> HIDE DEF t, u
        <4>1. u.size = Len(u.file) + 1
          BY <3>2, <3>4
        <4> QED
          BY <3>4, <4>1 DEF PairOK
      <3> QED
        BY <2>1, <3>1, <3>5
    <2> QED
      BY <1>1, <1>2, <2>2, <2>3, TurnReads
  <1>3. CASE ~(Place(a) < Len(a.file))
    <2> DEFINE rc == IF a.args # << >> \/ ~a.last THEN "error" ELSE "file done"
    <2>1. Turn(a) = Return(a, rc)
      BY <1>3, TurnEnds
    <2>2. ~(Place(b) < Len(b.file)) /\ a.args = b.args /\ a.last = b.last
      BY <1>1, <1>3 DEF SameWords
    <2>3. Turn(b) = Return(b, rc)
      BY <2>2, TurnEnds
    <2>4. rc # "too long"
      OBVIOUS
    <2> HIDE DEF rc
    <2>5. Agree(Return(a, rc), Return(b, rc)) /\ ReaderOK(Return(a, rc)) /\ ReaderOK(Return(b, rc))
      BY <2>4, ReturnSame, ReturnIs
    <2>6. Return(b, rc).size = Len(Return(b, rc).file) + 1
      BY ReturnIs
    <2> QED
      BY <2>1, <2>3, <2>5, <2>6 DEF PairOK
  <1> QED
    BY <1>2, <1>3

-----------------------------------------------------------------------------
(* What ngx_conf_parse makes of a token. *)

(* The reader is at the start of a directive. *)
Renewed(t, r, told, depth) ==
  /\ IsReader(t) /\ t.file = r.file /\ t.size = r.size /\ t.buf = r.buf /\ t.pos = r.pos /\ t.offset = r.offset
  /\ t.told = told /\ t.depth = depth /\ t.line = r.line /\ t.start = r.pos /\ t.startLine = r.line
  /\ t.args = << >> /\ t.rc = "more" /\ t.last = TRUE /\ t.need = FALSE /\ t.sharp = FALSE /\ t.variable = FALSE
  /\ t.quoted = FALSE /\ t.s = FALSE /\ t.d = FALSE

(* Both readers begin the next directive. *)
LEMMA RenewedSame ==
  ASSUME NEW a, NEW b, ReaderOK(a), ReaderOK(b), Agree(a, b), NEW told, NEW depth, NEW t, NEW u,
         Renewed(t, a, told, depth), Renewed(u, b, told, depth)
  PROVE  ReaderOK(t) /\ ReaderOK(u) /\ Agree(t, u) /\ u.file = b.file /\ u.size = b.size
  <1>1. ASSUME NEW r, NEW v, ReaderOK(r), Renewed(v, r, told, depth)
        PROVE  ReaderOK(v) /\ Place(v) = Place(r) /\ v.pos - v.start = 0 /\ v.file = r.file /\ v.size = r.size
    <2>1. /\ IsReader(v) /\ v.file = r.file /\ v.size = r.size /\ v.buf = r.buf /\ v.pos = r.pos /\ v.offset = r.offset
          /\ v.start = r.pos
      BY <1>1 DEF Renewed
    <2>2. r.pos \in Nat
      BY <1>1, ReaderBounds
    <2>3. ReaderOK(v)
      BY <1>1, <2>1, <2>2 DEF ReaderOK
    <2> QED
      BY <2>1, <2>2, <2>3 DEF Place
  <1>2. SameWords(t, u)
    <2>1. a.line = b.line
      BY DEF Agree, SameWords
    <2> QED
      BY <2>1 DEF Renewed, SameWords
  <1>3. SameStart(t, u)
    BY <1>1 DEF SameStart
  <1> QED
    BY <1>1, <1>2, <1>3 DEF Agree

(* After what ngx_conf_parse does, both readers still agree. *)
LEMMA ParsedSame ==
  ASSUME NEW a, NEW b, ReaderOK(a), ReaderOK(b), Agree(a, b), b.size = Len(b.file) + 1
  PROVE  PairOK(Parsed(a), Parsed(b))
  <1>1. /\ IsReader(a) /\ IsReader(b) /\ a.rc = b.rc /\ a.args = b.args /\ a.told = b.told /\ a.depth = b.depth
    BY DEF ReaderOK, Agree, SameWords
  <1>2. ASSUME NEW rc, rc # "too long"
        PROVE  PairOK(Return(a, rc), Return(b, rc))
    <2>1. Agree(Return(a, rc), Return(b, rc)) /\ ReaderOK(Return(a, rc)) /\ ReaderOK(Return(b, rc))
      BY <1>2, ReturnSame, ReturnIs
    <2>2. Return(b, rc).size = Len(Return(b, rc).file) + 1
      BY ReturnIs
    <2> QED
      BY <2>1, <2>2 DEF PairOK
  <1>3. ASSUME NEW told, NEW depth, NEW t, NEW u, Renewed(t, a, told, depth), Renewed(u, b, told, depth)
        PROVE  PairOK(t, u)
    <2>1. ReaderOK(t) /\ ReaderOK(u) /\ Agree(t, u) /\ u.file = b.file /\ u.size = b.size
      BY <1>3, RenewedSame
    <2> QED
      BY <2>1 DEF PairOK
  <1>4. CASE a.rc = "block done"
    <2>1. CASE a.depth = 0
      <3>1. Parsed(a) = Return(a, "failed") /\ Parsed(b) = Return(b, "failed")
        BY <1>1, <1>4, <2>1 DEF Parsed
      <3> QED
        BY <3>1, <1>2
    <2>2. CASE a.depth # 0
      <3>1. Parsed(a) = Begin([a EXCEPT !.depth = @ - 1]) /\ Parsed(b) = Begin([b EXCEPT !.depth = @ - 1])
        BY <1>1, <1>4, <2>2 DEF Parsed
      <3>2. Renewed(Begin([a EXCEPT !.depth = @ - 1]), a, a.told, a.depth - 1)
        BY <1>1 DEF Renewed, Begin, IsReader, Fields
      <3>3. Renewed(Begin([b EXCEPT !.depth = @ - 1]), b, b.told, b.depth - 1)
        BY <1>1 DEF Renewed, Begin, IsReader, Fields
      <3>4. a.told = b.told /\ a.depth - 1 = b.depth - 1
        BY <1>1
      <3>5. PairOK(Parsed(a), Parsed(b))
        BY <3>1, <3>2, <3>3, <3>4, <1>3
      <3> QED
        BY <3>5
    <2> QED
      BY <2>1, <2>2
  <1>5. CASE a.rc = "file done"
    <2> DEFINE rc == IF a.depth > 0 THEN "failed" ELSE "parsed"
    <2>1. Parsed(a) = Return(a, rc) /\ Parsed(b) = Return(b, rc)
      BY <1>1, <1>5 DEF Parsed
    <2>2. rc # "too long"
      OBVIOUS
    <2> HIDE DEF rc
    <2> QED
      BY <2>1, <2>2, <1>2
  <1>6. CASE a.rc \in {"ok", "block"}
    <2>1. Known(a) <=> Known(b)
      BY <1>1 DEF Known
    <2>2. CASE ~Known(a)
      <3>1. Parsed(a) = Return(a, "failed") /\ Parsed(b) = Return(b, "failed")
        BY <1>1, <1>6, <2>1, <2>2 DEF Parsed
      <3> QED
        BY <3>1, <1>2
    <2>3. CASE Known(a)
      <3> DEFINE After(r) == [r EXCEPT !.told = Append(@, r.args), !.depth = IF r.rc = "block" THEN @ + 1 ELSE @]
                 Deeper(r) == IF r.rc = "block" THEN r.depth + 1 ELSE r.depth
      <3>1. Parsed(a) = Begin(After(a)) /\ Parsed(b) = Begin(After(b))
        BY <1>1, <1>6, <2>1, <2>3 DEF Parsed
      <3>2. Renewed(Begin(After(a)), a, Append(a.told, a.args), Deeper(a))
        BY <1>1 DEF Renewed, Begin, IsReader, Fields
      <3>3. Renewed(Begin(After(b)), b, Append(b.told, b.args), Deeper(b))
        BY <1>1 DEF Renewed, Begin, IsReader, Fields
      <3>4. Append(a.told, a.args) = Append(b.told, b.args) /\ Deeper(a) = Deeper(b)
        BY <1>1
      <3> HIDE DEF After, Deeper
      <3>5. PairOK(Parsed(a), Parsed(b))
        BY <3>1, <3>2, <3>3, <3>4, <1>3
      <3> QED
        BY <3>5
    <2> QED
      BY <2>2, <2>3
  <1>7. CASE a.rc \notin {"block done", "file done", "ok", "block"}
    <2>1. Parsed(a) = Return(a, "failed") /\ Parsed(b) = Return(b, "failed")
      BY <1>1, <1>7 DEF Parsed
    <2> QED
      BY <2>1, <1>2
  <1> QED
    BY <1>4, <1>5, <1>6, <1>7

-----------------------------------------------------------------------------
(* The invariant, and that words are whole. *)

(* At the start both readers have read nothing. *)
LEMMA ConfStarts == ConfInit => ConfInv
  <1> SUFFICES ASSUME NEW file \in Files, NEW size \in Sizes,
                      conf = [small |-> Reader(file, size), whole |-> Reader(file, Len(file) + 1)]
               PROVE  ConfInv
    BY DEF ConfInit
  <1>1. file \in Seq(Characters) /\ Len(file) \in Nat /\ size \in Nat \ {0} /\ Len(file) + 1 \in Nat \ {0}
    BY ConfAssumption
  <1>2. ASSUME NEW n \in Nat \ {0}
        PROVE  ReaderOK(Reader(file, n))
    <2> DEFINE r == Reader(file, n)
    <2>1. /\ IsReader(r) /\ r.file = file /\ r.size = n /\ r.buf = << >> /\ r.pos = 0 /\ r.offset = 0 /\ r.start = 0
      BY DEF Reader, IsReader, Fields
    <2> HIDE DEF r
    <2>2. r.buf \in Seq(Characters) /\ Len(r.buf) = 0
      BY <2>1
    <2> QED
      BY <1>1, <2>1, <2>2 DEF ReaderOK, r
  <1>3. Agree(Reader(file, size), Reader(file, Len(file) + 1))
    BY DEF Agree, Place, SameStart, SameWords, Reader
  <1>4. Reader(file, Len(file) + 1).size = Len(Reader(file, Len(file) + 1).file) + 1
    BY DEF Reader
  <1>5. PairOK(Reader(file, size), Reader(file, Len(file) + 1))
    BY <1>1, <1>2, <1>3, <1>4 DEF PairOK
  <1>6. DOMAIN conf = {"small", "whole"} /\ conf.small = Reader(file, size) /\ conf.whole = Reader(file, Len(file) + 1)
    OBVIOUS
  <1> QED
    BY <1>5, <1>6 DEF ConfInv

(* Each step of the two readers keeps the invariant. *)
LEMMA ConfSteps == ConfInv /\ [ConfNext]_conf => ConfInv'
  <1> SUFFICES ASSUME ConfInv, [ConfNext]_conf
               PROVE  ConfInv'
    OBVIOUS
  <1>1. CASE UNCHANGED conf
    BY <1>1 DEF ConfInv
  <1>2. CASE ConfNext
    <2> DEFINE a == conf.small
               b == conf.whole
               Moved(r) == IF r.rc = "more" THEN Turn(r) ELSE Parsed(r)
    <2>1. PairOK(a, b) /\ a.rc # "too long"
      BY <1>2 DEF ConfInv, ConfNext, Reading
    <2>2. ReaderOK(a) /\ ReaderOK(b) /\ Agree(a, b) /\ b.size = Len(b.file) + 1
      BY <2>1 DEF PairOK, GivenUp
    <2>3. a.rc = b.rc
      BY <2>2 DEF Agree, SameWords
    <2>4. conf' = [reader \in {"small", "whole"} |-> Moved(conf[reader])]
      BY <1>2 DEF ConfNext
    <2>5. DOMAIN conf' = {"small", "whole"} /\ conf'.small = Moved(a) /\ conf'.whole = Moved(b)
      BY <2>4
    <2>6. PairOK(Moved(a), Moved(b))
      <3> HIDE DEF a, b
      <3>1. CASE a.rc = "more"
        BY <2>2, <2>3, <3>1, TurnSame
      <3>2. CASE a.rc # "more"
        BY <2>2, <2>3, <3>2, ParsedSame
      <3> QED
        BY <3>1, <3>2
    <2> HIDE DEF Moved, a, b
    <2>7. PairOK(conf'.small, conf'.whole)
      BY <2>5, <2>6
    <2> QED
      BY <2>5, <2>7 DEF ConfInv
  <1> QED
    BY <1>1, <1>2

(* The two readers of a file stand at the same place in every reachable    *)
(* state, whatever the size of the small buffer (ngx_conf_file.c:606).     *)
THEOREM ConfInvariance == ConfSpec => []ConfInv
  <1> QED
    BY ConfStarts, ConfSteps, PTL DEF ConfSpec

(* Words are whole wherever the buffer ends: for every file and every size *)
(* of the buffer, both readers understand the same until the small one     *)
(* says that a word is too long (ngx_conf_file.c:606, 608).                *)
THEOREM WordsStayWhole == ConfSpec => []WordsAreWhole
  <1>1. ConfInv => WordsAreWhole
    <2> SUFFICES ASSUME ConfInv
                 PROVE  WordsAreWhole
      OBVIOUS
    <2> DEFINE a == conf.small
               b == conf.whole
    <2>1. PairOK(a, b)
      BY DEF ConfInv
    <2>2. CASE GivenUp(a, b)
      BY <2>2 DEF WordsAreWhole, GivenUp
    <2>3. CASE Agree(a, b)
      <3>1. /\ a.rc # "too long" /\ a.rc = b.rc /\ a.args = b.args /\ a.told = b.told /\ a.depth = b.depth /\ a.line = b.line
        BY <2>3 DEF Agree, SameWords
      <3>2. SubSeq(a.buf, a.start + 1, a.pos) = SubSeq(b.buf, b.start + 1, b.pos)
        <4> HIDE DEF a, b
        <4> QED
          BY <2>1, <2>3, SameText DEF PairOK, Agree
      <3> QED
        BY <3>1, <3>2 DEF WordsAreWhole
    <2> QED
      BY <2>1, <2>2, <2>3 DEF PairOK
  <1> QED
    BY <1>1, ConfInvariance, PTL
=============================================================================
