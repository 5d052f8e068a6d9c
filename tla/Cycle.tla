-------------------------------- MODULE Cycle --------------------------------
(***************************************************************************)
(* The configuration cycle (ngx_cycle.c) with the listening sockets of     *)
(* ngx_connection.c: a process starts, reads its configuration anew, and   *)
(* takes over from the cycle before it, or leaves it as it was when a step *)
(* fails; a second program is started on the sockets of the first; a third *)
(* only tests a configuration.  Another program may hold an address.       *)
(*                                                                         *)
(* os is what the system keeps for all of them, proc[p] a process.  The    *)
(* functions below map a record s, with the system, the process and the    *)
(* new cycle, to the next; s.rc is what the code returns.  Line 127 tests  *)
(* prefix, which is not set yet, and means conf_prefix: taken as meant.    *)
(***************************************************************************)
EXTENDS Integers, Sequences, FiniteSets, SequencesExt, FiniteSetsExt

CONSTANTS
  CycleConfs,    (* listen, files, decls, pid *)
  UnixAddrs,     (* the addresses that are paths *)
  NoReuseTags,   (* the users of shared memory that never take it over *)
  FailedValues,  (* what the variable failed may hold that is read unset *)
  CycleOps       (* bound on starts and reloads *)

VARIABLES
  os,
  proc

cycleVars == << os, proc >>
Procs == {"first", "second"}
Workers == 2
DefaultBacklog == 1

NoCycle == [id |-> 0, ls |-> << >>, files |-> << >>, zones |-> << >>, pid |-> 0]
NoProc == [run |-> FALSE, single |-> FALSE, cycle |-> NoCycle, newBinary |-> FALSE,
           socks |-> {}, fds |-> {}, mem |-> {},    (* what the system keeps open for it *)
           old |-> << >>, cleaner |-> FALSE, conns |-> {}, destroyed |-> {}]

(* sock[i] is a socket, with the options that the kernel knows of it. *)
CycleInit ==
  /\ os = [sock |-> << >>, taken |-> {}, paths |-> {}, pids |-> {}, next |-> 1, ops |-> 0, upgraded |-> FALSE]
  /\ \E single \in BOOLEAN : proc = [p \in Procs |-> [NoProc EXCEPT !.single = single]]

-----------------------------------------------------------------------------
(* The configuration *)

(* ngx_create_listening() and ngx_clone_listening() *)
Listening(l) ==
  [addr |-> l.addr, udp |-> l.udp, buf |-> l.buf, backlog |-> l.backlog, defer |-> l.defer, reuse |-> l.reuse,
   sock |-> 0, worker |-> 0, ignore |-> FALSE, listen |-> FALSE, open |-> FALSE,
   addDefer |-> FALSE, delDefer |-> FALSE, addReuse |-> FALSE]
Clones(l) ==
  << Listening(l) >> \o (IF l.reuse THEN [n \in 1 .. Workers |-> [Listening(l) EXCEPT !.worker = n - 1]] ELSE << >>)
ListeningOf(conf) == FoldLeft(LAMBDA seen, l : seen \o Clones(l), << >>, conf.listen)

Conflict == << [name |-> "none", tag |-> "none", size |-> 0, mem |-> -1] >>

(* ngx_shared_memory_add(): the first declaration that has a size sets it. *)
SharedMemoryAdd(zones, d) ==
  LET same == {i \in DOMAIN zones : zones[i].name = d.name} IN
  IF zones = Conflict THEN zones
  ELSE IF same = {} THEN Append(zones, [name |-> d.name, tag |-> d.tag, size |-> d.size, mem |-> 0])
  ELSE LET i == CHOOSE i \in same : TRUE IN
       IF zones[i].tag # d.tag \/ (d.size # 0 /\ zones[i].size \notin {0, d.size}) THEN Conflict
       ELSE IF zones[i].size = 0 THEN [zones EXCEPT ![i].size = d.size] ELSE zones
ZonesOf(conf) == FoldLeft(SharedMemoryAdd, << >>, conf.decls)

-----------------------------------------------------------------------------
(* ngx_init_cycle(), in its order *)

Reusable(z, o) == z.name = o.name /\ z.tag = o.tag /\ z.size = o.size /\ z.tag \notin NoReuseTags

(* A new pidfile, and the old one is removed. *)
PidStep(s, fails) ==
  IF s.initial \/ s.conf.pid = s.me.cycle.pid THEN s
  ELSE IF fails THEN [s EXCEPT !.rc = "failed"]
  ELSE [s EXCEPT !.os.pids = (@ \ {s.me.cycle.pid}) \cup {s.conf.pid}]

(* The files; n of them open before one fails. *)
FilesStep(s, fails, n) ==
  LET names == IF fails THEN SubSeq(s.conf.files, 1, Min({n, Len(s.conf.files)})) ELSE s.conf.files
      fd(i) == s.os.next + i
  IN IF s.rc # "ok" THEN s
     ELSE [s EXCEPT !.new.files = [i \in DOMAIN names |-> fd(i)], !.os.next = @ + Len(names) + 1,
                    !.me.fds = @ \cup {fd(i) : i \in DOMAIN names}, !.rc = IF fails THEN "failed" ELSE @]

(* The zones: the memory of the old cycle, or new memory. *)
ZoneStep(s, z) ==
  LET olds == {o \in Range(s.me.cycle.zones) : Reusable(z, o)} IN
  IF s.rc # "ok" THEN s
  ELSE IF z.size = 0 THEN [s EXCEPT !.rc = "failed"]
  ELSE IF olds # {} THEN [s EXCEPT !.new.zones = Append(@, [z EXCEPT !.mem = (CHOOSE o \in olds : TRUE).mem])]
  ELSE [s EXCEPT !.new.zones = Append(@, [z EXCEPT !.mem = s.os.next]), !.me.mem = @ \cup {s.os.next},
                 !.os.next = @ + 1]
ZonesStep(s, zones, fails) ==
  LET t == FoldLeft(ZoneStep, s, zones) IN IF fails /\ s.rc = "ok" THEN [t EXCEPT !.rc = "failed"] ELSE t

(* A socket goes on under the new cycle; what differs is to be set anew. *)
TakeOver(l, o) ==
  [l EXCEPT !.sock = o.sock, !.listen = o.backlog # l.backlog,
            !.addDefer = l.defer /\ ~o.defer, !.delDefer = o.defer /\ ~l.defer, !.addReuse = l.reuse /\ ~o.reuse]

(* Fault of SameAddress: it looks at the first one with the address alone. *)
FirstAddress(olds, remain, l) ==
  {i \in DOMAIN olds \ remain : /\ ~olds[i].ignore /\ olds[i].udp = l.udp /\ olds[i].addr = l.addr
                               /\ \A j \in 1 .. i - 1 : olds[j].addr # l.addr}

(* The sockets of the old cycle that may serve an entry *)
SameAddress(olds, remain, l) ==
  {i \in DOMAIN olds \ remain : ~olds[i].ignore /\ olds[i].udp = l.udp /\ olds[i].addr = l.addr}

(* Each socket of the old cycle serves one entry. *)
InheritStep(s) ==
  LET olds == s.me.cycle.ls
      step(r, l) ==
        LET same == SameAddress(olds, r.remain, l)
            i == Min(same) IN
        IF same = {} THEN [r EXCEPT !.ls = Append(@, [l EXCEPT !.open = TRUE, !.addDefer = l.defer])]
        ELSE [remain |-> r.remain \cup {i}, ls |-> Append(r.ls, TakeOver(l, olds[i]))]
      done == FoldLeft(step, [remain |-> {}, ls |-> << >>], ListeningOf(s.conf))
  IN IF s.rc # "ok" THEN s ELSE [s EXCEPT !.new.ls = done.ls, !.remain = done.remain]

OpenSocks(s) == s.me.socks \cup s.others

(* bind() finds the address in use. *)
InUse(s, l) ==
  \/ l.addr \in s.os.taken \/ l.addr \in s.os.paths
  \/ \E i \in OpenSocks(s) :
       LET k == s.os.sock[i] IN k.addr = l.addr /\ k.udp = l.udp /\ ~(k.reuse /\ l.reuse /\ ~s.test)

(* socket(), bind() and listen() of one entry of ngx_open_listening_sockets() *)
OpenSocket(s, n) ==
  LET l == s.new.ls[n]
      t == IF l.addReuse THEN [s EXCEPT !.os.sock[l.sock].reuse = TRUE, !.new.ls[n].addReuse = FALSE] ELSE s
      i == Len(s.os.sock) + 1
  IN IF s.rc # "ok" THEN s
     ELSE IF l.sock # 0 THEN t
     ELSE IF s.noSocket = n THEN [s EXCEPT !.rc = "failed"]
     ELSE IF InUse(s, l) THEN [s EXCEPT !.failed = @ \/ ~s.test]
     ELSE [s EXCEPT !.os.sock = Append(@, [addr |-> l.addr, udp |-> l.udp, buf |-> 0,
                                           defer |-> FALSE, reuse |-> l.reuse /\ ~s.test,
                                           backlog |-> IF l.udp THEN 0 ELSE l.backlog]),
                    !.os.paths = IF l.addr \in UnixAddrs /\ ~s.test THEN @ \cup {l.addr} ELSE @,
                    !.me.socks = @ \cup {i}, !.new.ls[n].sock = i, !.new.ls[n].listen = ~l.udp]
OpenPass(s) == FoldLeft(OpenSocket, s, [n \in DOMAIN s.new.ls |-> n])

(* ngx_open_listening_sockets(): five passes, and what the others hold may *)
(* be free after the first; failed is never reset.                         *)
OpenListening(s, failed, freed) ==
  LET first == OpenPass([s EXCEPT !.failed = failed])
      next == OpenPass([first EXCEPT !.os.taken = IF freed THEN {} ELSE @])
  IN IF s.rc # "ok" THEN s
     ELSE IF first.rc # "ok" \/ ~first.failed THEN first
     ELSE [next EXCEPT !.rc = "failed"]

(* ngx_configure_listening_sockets(): buf stands for what is set whenever  *)
(* the configuration has it.                                               *)
ConfigureSocket(s, l) ==
  [s EXCEPT !.os.sock[l.sock] =
     [@ EXCEPT !.buf = IF l.buf # 0 THEN l.buf ELSE @,
               !.backlog = IF l.listen /\ ~l.udp THEN l.backlog ELSE @,
               !.defer = IF l.addDefer THEN TRUE ELSE IF l.delDefer THEN FALSE ELSE @]]
Configure(s) == IF s.rc # "ok" \/ s.test THEN s ELSE FoldLeft(ConfigureSocket, s, s.new.ls)

-----------------------------------------------------------------------------
(* The end of ngx_init_cycle() *)

(* What the old cycle has and the new one does not use is given back; its  *)
(* pool is kept while a single process has connections of it.              *)
Succeed(s) ==
  LET gone == {i \in DOMAIN s.me.cycle.ls : i \notin s.remain /\ s.me.cycle.ls[i].sock # 0}
      shut == {s.me.cycle.ls[i].sock : i \in gone}
      unused == {o.mem : o \in {x \in Range(s.me.cycle.zones) : ~\E z \in Range(s.new.zones) : Reusable(z, x)}}
      last == ~s.me.single \/ s.initial
  IN [s EXCEPT !.me.mem = @ \ unused, !.me.socks = @ \ shut,
               !.os.paths = @ \ {s.os.sock[i].addr : i \in shut},
               !.os.pids = IF s.initial /\ ~s.test THEN @ \cup {s.conf.pid} ELSE @,
               !.me.fds = @ \ Range(s.me.cycle.files),
               !.me.old = IF last THEN @ ELSE Append(@, s.me.cycle.id),
               !.me.cleaner = @ \/ ~last,
               !.me.destroyed = IF last THEN @ \cup {s.me.cycle.id} ELSE @,
               !.me.cycle = s.new, !.me.run = TRUE]

(* Fault of Fail: the sockets that were opened stay open. *)
FailLeavesSockets(s) == [s EXCEPT !.me.fds = @ \ Range(s.new.files)]

(* The label failed: the files and sockets that were opened are closed;    *)
(* the zones are not.                                                      *)
Fail(s) ==
  LET opened == {s.new.ls[n].sock : n \in {k \in DOMAIN s.new.ls : s.new.ls[k].open}} \ {0} IN
  [s EXCEPT !.me.fds = @ \ Range(s.new.files), !.me.socks = @ \ opened]

End(s) == IF s.rc = "ok" THEN Succeed(s) ELSE Fail(s)

-----------------------------------------------------------------------------
(* The processes *)

Fails == {"none", "conf", "pid", "files", "zones", "socket"}

Begin(p, conf, initial, test) ==
  [os |-> [os EXCEPT !.next = @ + 1, !.ops = @ + 1], me |-> proc[p], conf |-> conf, initial |-> initial, test |-> test,
   new |-> [NoCycle EXCEPT !.id = os.next, !.pid = conf.pid], rc |-> "ok", remain |-> {}, failed |-> FALSE,
   noSocket |-> 0, others |-> UNION {proc[q].socks : q \in Procs \ {p}}]

(* Where it fails, after how many files, and the luck of its sockets. *)
InitCycle(s, fails, n, failed, freed) ==
  LET zones == ZonesOf(s.conf)
      a == FilesStep(PidStep(s, fails = "pid"), fails = "files", n)
      b == InheritStep(ZonesStep(a, zones, fails = "zones"))
      c == OpenListening([b EXCEPT !.noSocket = IF fails = "socket" THEN n + 1 ELSE 0], failed, freed)
  IN IF fails = "conf" \/ zones = Conflict THEN [s EXCEPT !.rc = "failed"] ELSE End(Configure(c))

(* A process whose first cycle fails exits, and the system closes what it  *)
(* had.                                                                    *)
Become(p, s) ==
  /\ os' = s.os
  /\ proc' = [proc EXCEPT ![p] = IF s.me.run THEN s.me ELSE [NoProc EXCEPT !.single = proc[p].single]]

Runs(P(_)) ==
  /\ os.ops < CycleOps
  /\ \E conf \in CycleConfs, fails \in Fails, n \in {0, 1}, failed \in FailedValues, freed \in BOOLEAN :
       P([conf |-> conf, fails |-> fails, n |-> n, failed |-> failed, freed |-> freed])
Result(s, c) == InitCycle(s, c.fails, c.n, c.failed, c.freed)

Start ==
  /\ ~proc["first"].run
  /\ Runs(LAMBDA c : Become("first", Result(Begin("first", c.conf, TRUE, FALSE), c)))
Reload(p) ==
  /\ proc[p].run /\ ~proc[p].newBinary
  /\ Runs(LAMBDA c : Become(p, Result(Begin(p, c.conf, FALSE, FALSE), c)))

(* ngx_set_inherited_sockets(): what the kernel tells of each socket; one  *)
(* that it tells nothing of is ignored.                                    *)
InheritedSockets(socks, lost) ==
  [k \in 1 .. Len(socks) |->
     LET i == socks[k] IN
     [Listening(os.sock[i]) EXCEPT !.sock = i, !.backlog = DefaultBacklog, !.ignore = i \in lost]]

(* The first starts a new program, which is given its sockets. *)
Upgrade ==
  /\ proc["first"].run /\ ~proc["first"].newBinary /\ ~proc["first"].single /\ ~proc["second"].run
  /\ \E lost \in {{}} \cup {{i} : i \in proc["first"].socks} :
       LET socks == [k \in DOMAIN proc["first"].cycle.ls |-> proc["first"].cycle.ls[k].sock]
           me == [NoProc EXCEPT !.cycle.ls = InheritedSockets(socks, lost), !.socks = Range(socks)]
           begin(conf) == [Begin("second", conf, TRUE, FALSE) EXCEPT !.me = me]
       IN /\ os.ops < CycleOps
          /\ \E conf \in CycleConfs, fails \in {"none", "files"}, failed \in FailedValues :
               LET s == InitCycle(begin(conf), fails, 0, failed, FALSE) IN
               /\ os' = [s.os EXCEPT !.upgraded = @ \/ s.me.run]
               /\ proc' = [proc EXCEPT !["first"].newBinary = s.me.run, !["second"] = IF s.me.run THEN s.me ELSE NoProc]

(* A test of a configuration: its process ends, and its sockets with it.   *)
Test ==
  /\ os.ops < CycleOps
  /\ \E conf \in CycleConfs, fails \in {"none", "files"} :
       LET s == [Begin("second", conf, TRUE, TRUE) EXCEPT !.me = NoProc, !.others = UNION {proc[q].socks : q \in Procs}]
       IN os' = [InitCycle(s, fails, 0, FALSE, FALSE).os EXCEPT !.sock = os.sock]
  /\ UNCHANGED proc

(* ngx_close_listening_sockets(), and the process ends; a path is removed  *)
(* unless a new program is there.                                          *)
Quit(p) ==
  /\ proc[p].run
  /\ os' = [os EXCEPT !.paths = IF proc[p].newBinary THEN @ ELSE @ \ {l.addr : l \in Range(proc[p].cycle.ls)},
                      !.pids = @ \ {proc[p].cycle.pid}]
  /\ proc' = [proc EXCEPT ![p] = [NoProc EXCEPT !.single = proc[p].single],
                          !["first"].newBinary = IF p = "second" THEN FALSE ELSE proc["first"].newBinary /\ p # "first"]

(* ngx_reopen_files(): the files of bad cannot be opened and stay.         *)
Reopen(p) ==
  /\ proc[p].run /\ proc[p].cycle.files # << >> /\ os.ops < CycleOps
  /\ \E bad \in SUBSET DOMAIN proc[p].cycle.files :
       LET files == proc[p].cycle.files
           new == [i \in DOMAIN files |-> IF i \in bad THEN files[i] ELSE os.next + i]
       IN /\ os' = [os EXCEPT !.next = @ + Len(files) + 1, !.ops = @ + 1]
          /\ proc' = [proc EXCEPT ![p].cycle.files = new, ![p].fds = (@ \ Range(files)) \cup Range(new)]

(* Other programs bind addresses that are free, or give them up. *)
OthersBind ==
  /\ \E taken \in SUBSET UNION {{l.addr : l \in Range(c.listen)} \ UnixAddrs : c \in CycleConfs} :
       /\ taken # os.taken
       /\ \A p \in Procs : \A i \in proc[p].socks : os.sock[i].addr \notin taken
       /\ os' = [os EXCEPT !.taken = taken]
  /\ UNCHANGED proc

(* A single process has connections of its cycles. *)
ConnectionOpens ==
  /\ \E p \in Procs : proc[p].run /\ proc[p].single /\ proc' = [proc EXCEPT ![p].conns = @ \cup {proc[p].cycle.id}]
  /\ UNCHANGED os
ConnectionCloses ==
  /\ \E p \in Procs : \E c \in proc[p].conns : proc' = [proc EXCEPT ![p].conns = @ \ {c}]
  /\ UNCHANGED os

(* ngx_shutdown_timer_handler(): every connection is closed. *)
ShutdownTimer ==
  /\ \E p \in Procs : proc[p].conns # {} /\ proc' = [proc EXCEPT ![p].conns = {}]
  /\ UNCHANGED os

(* Fault of CleanOldCycles: it is not called again. *)
CleanOldCyclesOnce(p) ==
  /\ proc[p].cleaner
  /\ LET live == {c \in Range(proc[p].old) : c \in proc[p].conns} IN
     proc' = [proc EXCEPT ![p].cleaner = FALSE, ![p].old = SelectSeq(@, LAMBDA c : c \in live),
                          ![p].destroyed = @ \cup (Range(proc[p].old) \ live)]
  /\ UNCHANGED os

(* ngx_clean_old_cycles(), a timer *)
CleanOldCycles(p) ==
  /\ proc[p].cleaner
  /\ LET live == {c \in Range(proc[p].old) : c \in proc[p].conns} IN
     proc' = [proc EXCEPT ![p].cleaner = live # {}, ![p].old = SelectSeq(@, LAMBDA c : c \in live),
                          ![p].destroyed = @ \cup (Range(proc[p].old) \ live)]
  /\ UNCHANGED os

CycleNext ==
  \/ Start \/ Upgrade \/ Test \/ OthersBind \/ ConnectionOpens \/ ConnectionCloses \/ ShutdownTimer
  \/ \E p \in Procs : Reload(p) \/ Quit(p) \/ Reopen(p) \/ CleanOldCycles(p)

CycleFairness ==
  \A p \in Procs : []<>~(proc[p].cleaner /\ \E c \in Range(proc[p].old) : c \notin proc[p].conns)

-----------------------------------------------------------------------------

(* After a reload, a start, an upgrade or a failure at any step a process  *)
(* has open what its cycle has and nothing else: one socket for each entry *)
(* that it listens at, and its files; the memory of its zones and the path *)
(* of a socket are there, and a pidfile, unless a new program has changed   *)
(* them under the old one; the pool of a cycle is kept while connections of it   *)
(* are open (ngx_init_cycle, ngx_open_listening_sockets,                   *)
(* ngx_clean_old_cycles).                                                  *)
NothingIsLostOrLeft ==
  \A p \in Procs :
    LET me == proc[p]
        ls == [k \in DOMAIN me.cycle.ls |-> me.cycle.ls[k].sock] IN
    /\ me.run => /\ IsInjective(ls) /\ Range(ls) = me.socks
                 /\ me.fds = Range(me.cycle.files)
                 /\ \A z \in Range(me.cycle.zones) : z.mem \in me.mem
                 /\ ~os.upgraded => /\ \A l \in Range(me.cycle.ls) : l.addr \in UnixAddrs => l.addr \in os.paths
                                    /\ os.pids # {}
    /\ me.conns \cap me.destroyed = {}

(* The kernel has the options of each socket as the configuration says,    *)
(* also after they changed in a reload.  Two programs that share sockets   *)
(* share the options, and an inherited socket is taken to have the default *)
(* backlog, whatever it has (ngx_init_cycle,                               *)
(* ngx_configure_listening_sockets, ngx_set_inherited_sockets).            *)
SocketsFollowTheirConf ==
  \A p \in Procs : proc[p].run =>
    \A l \in Range(proc[p].cycle.ls) :
      LET k == os.sock[l.sock] IN
      /\ k.addr = l.addr /\ k.udp = l.udp /\ (l.reuse => k.reuse)
      /\ p = "second" \/ ~os.upgraded => l.buf \in {0, k.buf}
      /\ p = "second" \/ ~os.upgraded => k.defer = l.defer
      /\ ~l.udp /\ ~os.upgraded => k.backlog = l.backlog

(* What the process keeps open, and what the kernel knows of it, are what  *)
(* its configuration says, whatever failed on the way.                     *)
CycleIsSound == NothingIsLostOrLeft /\ SocketsFollowTheirConf

(* A reload closes no socket of an address, and frees no zone, that the    *)
(* new configuration has too: clients are not refused meanwhile and the    *)
(* data stays (ngx_init_cycle).                                            *)
ReloadKeepsWhatStays ==
  [][\A p \in Procs : proc[p].run /\ proc'[p].run =>
       LET now == proc[p].cycle
           then == proc'[p].cycle
           at(c, l) == {k \in DOMAIN c.ls : c.ls[k].addr = l.addr /\ c.ls[k].udp = l.udp}
       IN /\ \A l \in Range(now.ls) :
               LET kept == {k \in at(now, l) : \E m \in at(then, l) : then.ls[m].sock = now.ls[k].sock}
               IN Cardinality(kept) = Min({Cardinality(at(now, l)), Cardinality(at(then, l))})
          /\ \A o \in Range(now.zones), z \in Range(then.zones) : Reusable(z, o) => z.mem = o.mem]_cycleVars

(* An old cycle without connections is destroyed in the end. *)
OldCyclesEnd ==
  \A p \in Procs : [](proc[p].old # << >> => <>(\A c \in Range(proc[p].old) : c \in proc[p].conns))
=============================================================================
