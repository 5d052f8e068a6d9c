--------------------------- MODULE TlsConnection ---------------------------
(***************************************************************************)
(* One TLS connection of ngx_event_openssl.c: the handshake, reading,      *)
(* writing through the output buffer, and the shutdown, between a caller   *)
(* with its read and write handlers and the OpenSSL library.               *)
(*                                                                         *)
(* OpenSSL may want to read in order to write and to write in order to     *)
(* read; ngx_ssl_write() and ngx_ssl_handle_recv() then exchange the       *)
(* handler of the other event for a time.  What OpenSSL and the peer do in *)
(* one call of a handler is the field net; the effects of the calls are    *)
(* functions from a state of the connection, the record s, to the next.    *)
(* OpenSSL is assumed to keep the direction it waits for until it is       *)
(* served: it never waits for both at once.                                *)
(*                                                                         *)
(* Bytes are numbered in the order in which the caller gives them.         *)
(***************************************************************************)
EXTENDS Integers, Sequences, FiniteSets, SequencesExt, FiniteSetsExt

CONSTANTS
  TlsPlans,    (* the sequences of buffers, [size, flush], that a caller sends *)
  TlsRoom,     (* ssl->buffer_size *)
  TlsLimits,   (* the limits of ngx_ssl_send_chain(); TlsMost stands for none *)
  TlsMost,
  MaxReads,    (* bound on the events that bring something to read *)
  MaxStalls    (* bound on the calls that OpenSSL refuses *)

VARIABLES
  tls          (* the connection, its ngx_ssl_connection_t and its caller *)

(* What OpenSSL does with the calls of one handler: the bytes it takes, its  *)
(* mood when it writes, the bytes it gives, and its mood after them.         *)
Flow == [room |-> TlsMost, sends |-> "flows", gives |-> 0, reads |-> "quiet"]

TlsFresh(plan) ==
  [state |-> "none", plan |-> plan, chain |-> << >>, given |-> 0,
   rh |-> "app", wh |-> "app", savedR |-> FALSE, savedW |-> FALSE,
   rready |-> FALSE, wready |-> TRUE, postedR |-> FALSE, postedW |-> FALSE,
   handshaked |-> FALSE, renegotiation |-> FALSE, last |-> "ok", noWait |-> FALSE, noSend |-> FALSE,
   timer |-> FALSE, timedout |-> FALSE,
   buffer |-> FALSE, buf |-> << >>, used |-> 0, flush |-> FALSE, buffered |-> FALSE,
   net |-> Flow, reads |-> 0, stalls |-> 0,
   out |-> 0,             (* history: the bytes that OpenSSL has taken *)
   refused |-> << >>,     (* the data that OpenSSL holds to be written again *)
   mark |-> 0,            (* history: the last byte before a flush *)
   bad |-> FALSE]         (* history: a call that OpenSSL does not allow, or bytes out of order *)

TlsInit == \E plan \in TlsPlans : tls = TlsFresh(plan)

-----------------------------------------------------------------------------
(* Writing *)

Failed == -1
Again == -2
Done == 0

Broken(s) == [s EXCEPT !.noWait = TRUE, !.noSend = TRUE]

(* OpenSSL wants a write that it refused again, with no less data. *)
SslWrite(s, data) ==
  LET t == [s EXCEPT !.bad = @ \/ ~IsPrefix(s.refused, data)]
      n == Min({Len(data), s.net.room}) IN
  CASE s.net.sends = "breaks" -> [n |-> Failed, to |-> Broken(t)]
    [] s.net.sends = "turns" ->
         [n |-> Again, to |-> [t EXCEPT !.rready = FALSE, !.rh = "swap", !.refused = data,
                                          !.savedR = TRUE, !.stalls = @ + 1]]
    [] s.net.sends = "flows" /\ n = 0 ->
         [n |-> Again, to |-> [t EXCEPT !.wready = FALSE, !.refused = data, !.stalls = @ + 1]]
    [] OTHER ->
         [n |-> n,
          to |-> [t EXCEPT !.net.room = @ - n, !.refused = << >>, !.out = @ + n,
                           !.bad = @ \/ SubSeq(data, 1, n) # [i \in 1 .. n |-> s.out + i],
                           !.rh = IF s.savedR THEN "app" ELSE @, !.savedR = FALSE,
                           !.rready = @ \/ s.savedR, !.postedR = @ \/ s.savedR]]

Rest(data, n) == SubSeq(data, n + 1, Len(data))
LessHead(chain, n) ==
  IF n = Len(Head(chain).data) THEN Tail(chain)
  ELSE << [Head(chain) EXCEPT !.data = Rest(@, n)] >> \o Tail(chain)

RECURSIVE SendPlain(_)
SendPlain(s) ==
  IF s.chain = << >> THEN [rc |-> "ok", to |-> s]
  ELSE IF Head(s.chain).data = << >> THEN SendPlain([s EXCEPT !.chain = Tail(@)])
  ELSE LET w == SslWrite(s, Head(s.chain).data) IN
       IF w.n \in {Failed, Again} THEN [rc |-> IF w.n = Failed THEN "error" ELSE "ok", to |-> w.to]
       ELSE SendPlain([w.to EXCEPT !.chain = LessHead(@, w.n)])

(* The loop that copies buffers into the output buffer; send counts what *)
(* this call has handled against its limit.                              *)
RECURSIVE Copied(_, _, _)
Copied(s, send, limit) ==
  IF s.chain = << >> \/ s.used = TlsRoom \/ send >= limit THEN [to |-> s, send |-> send]
  ELSE LET b == Head(s.chain)
           n == Min({Len(b.data), TlsRoom - s.used, limit - send})
       IN Copied([s EXCEPT !.flush = @ \/ b.flush, !.buf = @ \o SubSeq(b.data, 1, n), !.used = @ + n,
                           !.chain = LessHead(@, n),
                           !.mark = IF b.flush /\ n = Len(b.data) THEN s.out + Len(s.buf) + n ELSE @],
                 send + n, limit)

SetBuffered(s) == [s EXCEPT !.buffered = (s.buf # << >>)]

(* Fault of SendLoop: a flush is forgotten when OpenSSL refuses the data. *)
RECURSIVE SendLoopForgets(_, _, _)
SendLoopForgets(s, sent, limit) ==
  LET c == Copied(s, sent, limit) w == SslWrite(c.to, c.to.buf) IN
  IF ~c.to.flush /\ c.send < limit /\ c.to.used < TlsRoom THEN [rc |-> "ok", to |-> SetBuffered(c.to)]
  ELSE IF c.to.buf = << >> THEN [rc |-> "ok", to |-> [c.to EXCEPT !.flush = FALSE, !.buffered = FALSE]]
  ELSE IF w.n = Failed THEN [rc |-> "error", to |-> w.to]
  ELSE IF w.n = Again THEN [rc |-> "ok", to |-> SetBuffered([w.to EXCEPT !.flush = FALSE])]
  ELSE LET t == [w.to EXCEPT !.buf = << >>, !.used = 0, !.flush = FALSE] IN
       IF t.chain = << >> \/ c.send = limit THEN [rc |-> "ok", to |-> SetBuffered(t)]
       ELSE SendLoopForgets(t, c.send, limit)

RECURSIVE SendLoop(_, _, _)
SendLoop(s, sent, limit) ==
  LET c == Copied(s, sent, limit)
      w == SslWrite(c.to, c.to.buf) IN
  IF ~c.to.flush /\ c.send < limit /\ c.to.used < TlsRoom
  THEN [rc |-> "ok", to |-> SetBuffered(c.to)]
  ELSE IF c.to.buf = << >>
  THEN [rc |-> "ok", to |-> [c.to EXCEPT !.flush = FALSE, !.buffered = FALSE]]
  ELSE IF w.n = Failed THEN [rc |-> "error", to |-> w.to]
  ELSE IF w.n = Again THEN [rc |-> "ok", to |-> SetBuffered(w.to)]
  ELSE IF w.n < Len(c.to.buf)
  THEN [rc |-> "ok", to |-> SetBuffered([w.to EXCEPT !.buf = Rest(@, w.n)])]
  ELSE LET t == [w.to EXCEPT !.buf = << >>, !.used = 0, !.flush = FALSE] IN
       IF t.chain = << >> \/ c.send = limit THEN [rc |-> "ok", to |-> SetBuffered(t)]
       ELSE SendLoop(t, c.send, limit)

SendChain(s, limit) ==
  IF ~s.buffer THEN SendPlain(s)
  ELSE SendLoop([s EXCEPT !.flush = @ \/ s.chain = << >>], Len(s.buf), limit)

-----------------------------------------------------------------------------
(* Reading *)

RecvSize == 2

(* What SSL_read() reports after the bytes it gives; no more is asked when *)
(* they fill the space of the caller.                                      *)
HandleRecv(s, what) ==
  CASE s.renegotiation -> [Broken(s) EXCEPT !.last = "error"]
    [] what = "full"   -> [s EXCEPT !.last = "ok"]
    [] what = "quiet"  -> [s EXCEPT !.last = "again", !.rready = FALSE]
    [] what = "turns"  -> [s EXCEPT !.last = "again", !.wready = FALSE, !.wh = "swap", !.savedW = TRUE,
                                    !.stalls = @ + 1]
    [] what = "ends"   -> [Broken(s) EXCEPT !.last = "done"]
    [] what = "breaks" -> [Broken(s) EXCEPT !.last = "error"]

GotSome(s) ==
  [s EXCEPT !.wh = IF s.savedW THEN "app" ELSE @, !.savedW = FALSE,
            !.wready = @ \/ s.savedW, !.postedW = @ \/ s.savedW]

CodeOf(last) == CASE last = "error" -> Failed [] last = "done" -> Done [] last = "again" -> Again

SslRead(s, size) ==
  LET k == Min({s.net.gives, size})
      t == [s EXCEPT !.net.gives = @ - k]
  IN [n |-> k,
      to |-> HandleRecv(IF k > 0 /\ ~s.renegotiation THEN GotSome(t) ELSE t,
                        IF k = size THEN "full" ELSE s.net.reads)]

Recv(s, size) ==
  LET x == SslRead(s, size) IN
  IF s.last = "error" THEN [n |-> Failed, to |-> s]
  ELSE IF s.last = "done" THEN [n |-> Done, to |-> [s EXCEPT !.rready = FALSE]]
  ELSE IF x.n > 0
  THEN [n |-> x.n, to |-> IF x.to.last = "again" THEN x.to ELSE [x.to EXCEPT !.rready = TRUE]]
  ELSE [n |-> CodeOf(x.to.last), to |-> IF x.to.last = "done" THEN [x.to EXCEPT !.rready = FALSE] ELSE x.to]

(* A chain of buffers of one byte each. *)
RECURSIVE RecvChain(_, _, _)
RecvChain(s, bufs, bytes) ==
  LET x == Recv(s, 1) IN
  IF x.n > 0 /\ bufs > 1 THEN RecvChain(x.to, bufs - 1, bytes + 1)
  ELSE IF x.n > 0 THEN [n |-> bytes + 1, to |-> x.to]
  ELSE IF bytes > 0 THEN [n |-> bytes, to |-> IF x.n = Again THEN x.to ELSE [x.to EXCEPT !.rready = TRUE]]
  ELSE x

-----------------------------------------------------------------------------
(* The end *)

SslGone(s) ==
  [TlsFresh(<< >>) EXCEPT !.state = "gone", !.bad = s.bad, !.reads = s.reads, !.stalls = s.stalls]

QuietShutdown(s) == s.timedout \/ (s.noWait /\ s.noSend)

Shutdown(s) ==
  IF ~s.handshaked \/ QuietShutdown(s) \/ s.net.sends = "breaks" THEN SslGone(s)
  ELSE IF s.net.sends = "turns" THEN
    [s EXCEPT !.state = "shutdown", !.rh = "shutdown", !.wh = "shutdown", !.timer = TRUE, !.stalls = @ + 1]
  ELSE IF s.net.room = 0 THEN
    [s EXCEPT !.state = "shutdown", !.rh = "shutdown", !.wh = "shutdown", !.wready = FALSE, !.stalls = @ + 1]
  ELSE SslGone(s)

ShutdownHandler(s, timedout) == Shutdown([s EXCEPT !.timedout = @ \/ timedout])

-----------------------------------------------------------------------------
(* The handshake *)

CreateConnection(s, buffer) == [s EXCEPT !.state = "handshake", !.buffer = buffer]

(* c->ssl->handler of the caller sets its own handlers, or closes. *)
Handshake(s) ==
  LET waits == [s EXCEPT !.rh = "handshake", !.wh = "handshake", !.timer = TRUE, !.stalls = @ + 1] IN
  CASE s.net.reads = "quiet" -> [waits EXCEPT !.rready = FALSE]
    [] s.net.reads = "turns" -> [waits EXCEPT !.wready = FALSE]
    [] s.net.reads \in {"ends", "breaks"} -> Shutdown(Broken(s))
    [] s.net.reads = "full" ->
         [s EXCEPT !.state = "open", !.handshaked = TRUE, !.rh = "app", !.wh = "app", !.timer = FALSE,
                   !.rready = TRUE]

HandshakeHandler(s, timedout) == IF timedout THEN Shutdown(s) ELSE Handshake(s)

-----------------------------------------------------------------------------
(* The handlers of the caller *)

AppReads(s, chain) ==
  LET x == IF chain THEN RecvChain(s, RecvSize, 0) ELSE Recv(s, RecvSize) IN
  IF x.n \in {Failed, Done} THEN Shutdown(x.to) ELSE x.to

AppWrites(s, limit) ==
  IF s.chain = << >> /\ ~s.buffered THEN s
  ELSE LET x == SendChain(s, limit) IN IF x.rc = "error" THEN Shutdown(x.to) ELSE x.to

Dispatch(s, h, side, limit) ==
  CASE h = "handshake" -> Handshake(s)
    [] h = "shutdown"  -> ShutdownHandler(s, FALSE)
    [] h = "app" /\ side = "read"  -> AppReads(s, limit = 0)
    [] h = "app" /\ side = "write" -> AppWrites(s, limit)
    [] h = "swap" /\ side = "write" -> AppReads(s, limit = 0)            (* ngx_ssl_write_handler *)
    [] h = "swap" /\ side = "read"  -> AppWrites(s, limit)    (* ngx_ssl_read_handler *)

(* A limit of 0 stands for a caller that reads into a chain of buffers. *)
Writes(s, h, side) == (h = "app" /\ side = "write") \/ (h = "swap" /\ side = "read")

(* What a call of a handler may meet. *)
Moods(s, writes) ==
  {e \in [room : {0, 1, TlsMost}, sends : {"flows", "turns", "breaks"}, gives : 0 .. RecvSize,
          reads : {"full", "quiet", "turns", "ends", "breaks"}] :
     /\ e.reads = "full" => ~s.handshaked
     /\ writes => e.gives = 0 /\ e.reads = "quiet"
     /\ ~writes => e.room # 1
     /\ ~s.handshaked => e.gives = 0 /\ e.sends # "turns" /\ e.room # 1
     /\ s.handshaked => (e.gives > 0 => s.reads < MaxReads)
     /\ e.sends = "turns" => ~s.savedW /\ e.reads # "turns" /\ s.last \notin {"done", "error"}
     /\ e.reads = "turns" => ~s.savedR /\ ~s.renegotiation
     /\ s.stalls >= MaxStalls => e.room # 0 /\ e.sends # "turns" /\ e.reads # "turns"
     /\ s.stalls >= MaxStalls /\ ~s.handshaked => e.reads # "quiet"}

Settled(s) == [s EXCEPT !.net = Flow, !.reads = Min({MaxReads, s.reads + IF s.net.gives > 0 THEN 1 ELSE 0}),
                        !.mark = IF @ <= s.out THEN 0 ELSE @]

Live == tls.state \in {"handshake", "open", "shutdown"}

Call(s, h, side) ==
  \E e \in Moods(s, Writes(s, h, side)), limit \in IF Writes(s, h, side) THEN TlsLimits ELSE {0, TlsMost} :
    tls' = Settled(Dispatch([s EXCEPT !.net = e], h, side, limit))

TlsCreate ==
  /\ tls.state = "none"
  /\ \/ \E buffer \in BOOLEAN, e \in Moods(tls, FALSE) :
          tls' = Settled(Handshake([CreateConnection(tls, buffer) EXCEPT !.net = e]))
     \/ tls' = SslGone(tls)           (* SSL_new() and the like fail *)

ReadEvent ==
  /\ Live /\ ~tls.rready /\ tls.reads < MaxReads
  /\ Call([tls EXCEPT !.rready = TRUE, !.reads = @ + 1], tls.rh, "read")

WriteEvent ==
  /\ Live /\ ~tls.wready
  /\ Call([tls EXCEPT !.wready = TRUE], tls.wh, "write")

PostedRead == Live /\ tls.postedR /\ Call([tls EXCEPT !.postedR = FALSE], tls.rh, "read")
PostedWrite == Live /\ tls.postedW /\ Call([tls EXCEPT !.postedW = FALSE], tls.wh, "write")

(* The caller goes on while its event is ready. *)
ReadsOn == tls.state = "open" /\ tls.rh = "app" /\ tls.rready /\ Call(tls, "app", "read")
SendsOn ==
  /\ tls.state = "open" /\ tls.wh = "app" /\ tls.wready
  /\ tls.chain # << >> \/ tls.buffered
  /\ Call(tls, "app", "write")

(* The caller adds a buffer to its chain. *)
Gives ==
  /\ tls.state = "open" /\ tls.plan # << >>
  /\ LET b == Head(tls.plan) IN
     tls' = [tls EXCEPT !.plan = Tail(@), !.given = @ + b.size,
                        !.chain = Append(@, [data |-> [i \in 1 .. b.size |-> tls.given + i], flush |-> b.flush])]

(* The info callback of OpenSSL: a handshake starts on an open connection. *)
InfoCallback ==
  /\ tls.state = "open" /\ ~tls.renegotiation
  /\ tls' = [tls EXCEPT !.renegotiation = TRUE]

TlsTimer ==
  /\ Live /\ tls.timer
  /\ tls' = Settled(IF tls.state = "handshake" THEN HandshakeHandler(tls, TRUE) ELSE ShutdownHandler(tls, TRUE))

Closes ==
  /\ tls.state = "open"
  /\ \E e \in Moods(tls, FALSE) : tls' = Settled(Shutdown([tls EXCEPT !.net = e]))

TlsNext ==
  \/ TlsCreate \/ ReadEvent \/ WriteEvent \/ PostedRead \/ PostedWrite \/ ReadsOn \/ SendsOn
  \/ Gives \/ InfoCallback \/ TlsTimer \/ Closes

-----------------------------------------------------------------------------
(* Properties *)

PlanBytes(s) == FoldLeft(LAMBDA seen, b : seen \o b.data, << >>, s.chain)

(* What the caller gave has left in order, lies in the output buffer, or is *)
(* still in its chain; the connection is marked as buffered exactly when    *)
(* the output buffer holds something; data that a flush was asked for is    *)
(* never left to wait for more; a write that OpenSSL refused is repeated    *)
(* with no less data (ngx_ssl_send_chain); a handler is exchanged exactly   *)
(* while the one to put back is kept (ngx_ssl_write, ngx_ssl_handle_recv).  *)
TlsIsSound ==
  /\ ~tls.bad
  /\ Live =>
       /\ tls.buf \o PlanBytes(tls) = [i \in 1 .. tls.given - tls.out |-> tls.out + i]
       /\ Len(tls.buf) <= tls.used /\ tls.used <= TlsRoom
       /\ tls.buffered <=> tls.buf # << >>
       /\ tls.mark > tls.out => tls.flush
  /\ tls.state = "open" =>
       /\ tls.savedR <=> tls.rh = "swap"
       /\ tls.savedW <=> tls.wh = "swap"
       /\ tls.last \in {"done", "error"} => tls.rready

(* A connection that is being shut down, one whose peer has closed it or    *)
(* broken it, and one that never ends its handshake, is freed in the end.   *)
TlsEnds ==
  (tls.state \in {"handshake", "shutdown"} \/ tls.last \in {"done", "error"}) ~>
     (tls.state = "gone" \/ (tls.state = "open" /\ tls.last \notin {"done", "error"}))

(* The worker serves what is ready, and a socket can be written to in the   *)
(* end or reports the error that TCP meets.                                 *)
TlsFairness ==
  /\ []<>~(tls.state = "open" /\ tls.rh = "app" /\ tls.rready)
  /\ []<>~(Live /\ ~tls.wready)
  /\ []<>~(Live /\ tls.timer)
  /\ []<>~(Live /\ (tls.postedR \/ tls.postedW))
=============================================================================
