------------------------------ MODULE MCServer ------------------------------
(* What a server goes through: the configuration cycle, a pipe from an     *)
(* upstream, an output chain, a TLS connection, the cache of sessions, the *)
(* keys of tickets, or one staple moves in a behaviour; they share no      *)
(* state.                                                                  *)
EXTENDS Cycle, EventPipe, OutputChain, TlsConnection, TlsSessions, Stapling
VARIABLES part

Conf(num, busy, cacheable, cyclic, single, threads, rate, fileMax, writeSize, length) ==
  [num |-> num, busy |-> busy, cacheable |-> cacheable, cyclic |-> cyclic, single |-> single, threads |-> threads,
   rate |-> rate, fileMax |-> fileMax, writeSize |-> writeSize, length |-> length, total |-> 7]
MCPipeConfs == {
  Conf(2, 2, FALSE, FALSE, FALSE, FALSE, FALSE, 0, 2, -1),
  Conf(2, 2, FALSE, TRUE, FALSE, FALSE, FALSE, 4, 2, 7),
  Conf(3, 4, FALSE, FALSE, TRUE, TRUE, FALSE, 6, 4, -1),
  Conf(2, 2, TRUE, FALSE, FALSE, TRUE, FALSE, 9, 4, -1),
  Conf(2, 2, TRUE, FALSE, FALSE, FALSE, TRUE, 9, 4, 7) }
ChainConf(num, sendfile, needMem, needTemp, directio) ==
  [num |-> num, size |-> 2, sendfile |-> sendfile, needMem |-> needMem, needTemp |-> needTemp, directio |-> directio]
MCChainConfs == {
  ChainConf(1, FALSE, FALSE, FALSE, FALSE), ChainConf(2, FALSE, FALSE, TRUE, FALSE),
  ChainConf(2, TRUE, TRUE, FALSE, FALSE), ChainConf(1, TRUE, FALSE, TRUE, TRUE), ChainConf(2, TRUE, FALSE, FALSE, TRUE) }
AConf == CHOOSE c \in MCPipeConfs : TRUE

Buffer(n, f) == [size |-> n, flush |-> f]
MCTlsPlans == { << Buffer(3, FALSE), Buffer(1, TRUE), Buffer(1, FALSE) >>, << Buffer(2, TRUE), Buffer(0, TRUE) >> }

Status(c) == << "H", "T", "T", "P", "/", "1", ".", "1", " ">> \o c
Good == Status(<< "2", "0", "0", " ", "o", "r", "n" >>)
MCOcspTexts == {
  Good \o << "a", ":", " ", "a", " ", "r", "n", "C", ":", " ", "o", "r", "n", "r", "n", "a" >>,
  Good \o << "C", ":", "o", "n", "n" >>,
  Good \o << "C", ":", "a", "r", "n", "r", "n", "a" >>,
  Good \o << "a", "r", "n", "n", "r", "n" >>,
  Status(<< "2", "0", "2", "n", "n", "a" >>),
  Status(<< "2", "r", "n", "n" >>) }

L(addr, udp, backlog, defer, reuse, buf) ==
  [buf |-> buf, addr |-> addr, udp |-> udp, backlog |-> backlog, defer |-> defer, reuse |-> reuse]
Z(name, tag, size) == [name |-> name, tag |-> tag, size |-> size]
MCCycleConfs == {
  [listen |-> << L("tcp", FALSE, 1, FALSE, FALSE, 0), L("unix", FALSE, 1, FALSE, FALSE, 0) >>, files |-> << "log" >>,
   decls |-> << Z("a", "cache", 0), Z("a", "cache", 1) >>, pid |-> 1],
  [listen |-> << L("tcp", FALSE, 2, TRUE, FALSE, 2), L("tcp", TRUE, 1, FALSE, FALSE, 0) >>, files |-> << "log", "err" >>,
   decls |-> << Z("a", "cache", 1), Z("b", "fresh", 1) >>, pid |-> 1],
  [listen |-> << L("tcp", FALSE, 1, FALSE, TRUE, 1) >>, files |-> << >>,
   decls |-> << Z("a", "cache", 2), Z("b", "fresh", 1) >>, pid |-> 2] }

sessionVars == << zone, lookup, wrong >>
streamVars == << pipe, chain >>
tlsVars == << tls, sessionVars, ticket, staple, ocsp >>
vars == << part, cycleVars, streamVars, tlsVars >>
APlan == CHOOSE p \in MCTlsPlans : TRUE

(* One of the parts moves, the others stay as they began. *)
Init ==
  /\ part \in {"cycle", "pipe", "chain", "tls", "sessions", "tickets", "staple"}
  /\ CycleInit /\ (part # "cycle" => \A p \in Procs : proc[p].single)
  /\ PipeInit /\ (part # "pipe" => pipe.conf = AConf /\ pipe.preread = 0)
  /\ ChainInit /\ (part # "chain" => chain.conf.num = 1 /\ ~chain.conf.sendfile)
  /\ TlsInit /\ (part # "tls" => tls = TlsFresh(APlan))
  /\ SessionsInit /\ (part # "sessions" => zone = SessionCacheInit(1))
  /\ TicketsInit
  /\ StaplingInit /\ (part # "staple" => staple = StaplingFile)
Next ==
  \/ part = "cycle" /\ CycleNext /\ UNCHANGED << part, streamVars, tlsVars >>
  \/ part = "pipe" /\ PipeNext /\ UNCHANGED << part, cycleVars, chain, tlsVars >>
  \/ part = "chain" /\ ChainNext /\ UNCHANGED << part, cycleVars, pipe, tlsVars >>
  \/ part = "tls" /\ TlsNext /\ UNCHANGED << part, cycleVars, streamVars, sessionVars, ticket, staple, ocsp >>
  \/ part = "sessions" /\ SessionsNext /\ UNCHANGED << part, cycleVars, streamVars, tls, ticket, staple, ocsp >>
  \/ part = "tickets" /\ TicketsNext /\ UNCHANGED << part, cycleVars, streamVars, tls, sessionVars, staple, ocsp >>
  \/ part = "staple" /\ StaplingNext /\ UNCHANGED << part, cycleVars, streamVars, tls, sessionVars, ticket >>
Spec == Init /\ [][Next]_vars /\ CycleFairness /\ PipeFairness /\ ChainFairness /\ TlsFairness /\ StaplingFairness

(* What is told to end ends: a TLS connection, a request for a staple, a   *)
(* cycle that was replaced.                                                *)
EverythingEnds == TlsEnds /\ RequestsEnd /\ OldCyclesEnd

(* What was given to the pipe or the chain leaves. *)
ResponsesArrive == PipeDelivers /\ ChainDrains

(* Every byte is somewhere, in order, and every buffer has one owner. *)
BuffersAreSound == PipeIsSound /\ ChainIsSound

(* A TLS connection, the sessions and tickets, and the staples. *)
TlsPartsAreSound == TlsIsSound /\ SessionsAreSound /\ StaplesAreGood
=============================================================================
