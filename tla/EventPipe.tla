----------------------------- MODULE EventPipe -----------------------------
(***************************************************************************)
(* The event pipe (ngx_event_pipe.c): what an upstream sends is read into  *)
(* a few raw buffers, passed on to a client, and kept in a temporary file  *)
(* while the client is slow.                                               *)
(*                                                                         *)
(* A buffer of the chains in, out and busy is a range of a raw buffer or   *)
(* of the temporary file: its bytes are read when they leave, so that a    *)
(* buffer or a part of the file that is used again too early shows.  Bytes *)
(* are numbered in the order in which the upstream sends them.             *)
(*                                                                         *)
(* The functions map a state of the pipe, the record p, to the next; what  *)
(* the two connections do in one call is the field net.                    *)
(***************************************************************************)
EXTENDS Integers, Sequences, FiniteSets, SequencesExt, FiniteSetsExt

CONSTANTS
  PipeConfs,    (* num, busy, cacheable, cyclic, single, threads, rate, fileMax, writeSize, length, total *)
  PipeBuf,      (* the size of a raw buffer *)
  PipeStalls    (* bound on the calls that the client refuses *)

VARIABLES
  pipe

AnyLength == -1

PipeInit ==
  \E conf \in PipeConfs, preread \in {0, 1} :
    pipe = [conf |-> conf, length |-> conf.length,
            freeRaw |-> << >>, raw |-> [i \in 0 .. conf.num |-> << >>], allocated |-> 0,
            preread |-> preread, in |-> << >>, writing |-> << >>, out |-> << >>, busy |-> << >>,
            file |-> << >>, offset |-> 0, at |-> 0, aio |-> FALSE,
            free |-> << >>,    (* p->free, of a cyclic file: where each buffer ended in the file, 0 in memory *)
            left |-> << >>,    (* the buffers that the output filter is done with, the last first *)
            read |-> FALSE, blocked |-> FALSE, upEof |-> FALSE, upError |-> FALSE, upDone |-> FALSE,
            downError |-> FALSE, downDone |-> FALSE, delayed |-> FALSE,
            upReady |-> FALSE, downReady |-> TRUE, rtimer |-> FALSE, wtimer |-> FALSE, rc |-> "ok",
            got |-> 0,         (* history: the bytes read *)
            sent |-> << >>,    (* history: the bytes the client has got *)
            freed |-> {},      (* the raw buffers whose memory was given back *)
            bad |-> FALSE,     (* history: nothing was there to be written to the file *)
            over |-> FALSE, stalls |-> 0, net |-> [room |-> 0, gives |-> 0, then |-> "quiet"]]

UpEnded(p) == p.upEof \/ p.upError \/ p.upDone

-----------------------------------------------------------------------------
(* Buffers *)

Mem(r, data) == [file |-> FALSE, raw |-> r, from |-> 1, to |-> Len(data), recycled |-> TRUE]
InFile(from, to) == [file |-> TRUE, raw |-> 0, from |-> from, to |-> to, recycled |-> FALSE]
Bytes(p, b) == SubSeq(IF b.file THEN p.file ELSE p.raw[b.raw], b.from, b.to)
SizeOf(b) == b.to - b.from + 1
BytesOf(p, bufs) == FoldLeft(LAMBDA seen, b : seen \o Bytes(p, b), << >>, bufs)

(* ngx_chain_get_free_buf() takes the first of p->free or a new one. *)
LessFree(free) == SubSeq(free, 2, Len(free))
Freed(p, ends) == IF p.conf.cyclic /\ ~p.conf.cacheable THEN [p EXCEPT !.free = ends \o @] ELSE p

(* Fault of AddFreeBuf: before a buffer that holds a part. *)
AddFreeBufFirst(p, r) == [p EXCEPT !.raw[r] = << >>, !.freeRaw = << r >> \o @]

(* ngx_event_pipe_add_free_buf(): after a buffer that holds a part. *)
AddFreeBuf(p, r) ==
  LET q == [p EXCEPT !.raw[r] = << >>] IN
  IF p.freeRaw = << >> \/ p.raw[Head(p.freeRaw)] = << >>
  THEN [q EXCEPT !.freeRaw = << r >> \o @]
  ELSE [q EXCEPT !.freeRaw = << Head(@), r >> \o Tail(@)]

(* ngx_event_pipe_copy_input_filter() *)
InputFilter(p, r) ==
  IF p.raw[r] = << >> THEN p
  ELSE [p EXCEPT !.in = Append(@, Mem(r, p.raw[r])), !.free = LessFree(@),
                 !.length = IF @ = AnyLength THEN @ ELSE @ - Len(p.raw[r])]

-----------------------------------------------------------------------------
(* The temporary file *)

RECURSIVE FileFits(_, _, _)
FileFits(p, bufs, size) ==
  IF bufs = << >> \/ size + SizeOf(Head(bufs)) > p.conf.writeSize
     \/ p.offset + size + SizeOf(Head(bufs)) > p.conf.fileMax
  THEN 0 ELSE 1 + FileFits(p, Tail(bufs), size + SizeOf(Head(bufs)))

WriteAt(file, offset, data) ==
  [i \in 1 .. Max({Len(file), offset + Len(data)}) |->
     IF i \in offset + 1 .. offset + Len(data) THEN data[i - offset] ELSE file[i]]

(* The end of a write, which began where the file ended when it was posted:*)
(* the range joins the last of out where it follows it, and the raw        *)
(* buffers are free.                                                       *)
Stored(p, bufs, data) ==
  LET n == Len(data)
      joins == p.out # << >> /\ Last(p.out).to = p.offset
      q == [p EXCEPT !.file = WriteAt(@, p.at, data), !.offset = @ + n, !.at = 0, !.writing = << >>,
                     !.free = IF n = 0 \/ joins THEN @ ELSE LessFree(@),
                     !.out = IF n = 0 THEN @
                             ELSE IF joins THEN Append(Front(@), [Last(@) EXCEPT !.to = @ + n])
                             ELSE Append(@, InFile(p.offset + 1, p.offset + n)),
                     !.rc = "ok"]
  IN FoldLeft(LAMBDA s, b : [s EXCEPT !.freeRaw = Append(@, b.raw), !.raw[b.raw] = << >>],
              Freed(q, [i \in DOMAIN bufs |-> 0]), bufs)
Written(p, bufs) == Stored(p, bufs, BytesOf(p, bufs))

WriteTempFile(p) ==
  LET k == IF p.conf.cacheable THEN Len(p.in) ELSE FileFits(p, p.in, 0)
      bufs == SubSeq(p.in, 1, k)
      q == [p EXCEPT !.in = SubSeq(@, k + 1, Len(@)), !.at = p.offset]
  IN IF p.writing # << >> THEN IF p.aio THEN [p EXCEPT !.rc = "again"] ELSE Written(p, p.writing)
     ELSE IF p.in = << >> THEN [p EXCEPT !.bad = TRUE, !.rc = "abort"]
     ELSE IF k = 0 THEN [p EXCEPT !.rc = "busy"]
     ELSE IF p.conf.threads THEN [q EXCEPT !.writing = bufs, !.aio = TRUE, !.rc = "again"]
     ELSE Written(q, bufs)

-----------------------------------------------------------------------------
(* Reading *)

DownIdle(p) == p.downReady

(* The bytes that were read fill the chain; the buffers that are full pass *)
(* the input filter, the others are free again.                            *)
RECURSIVE Fill(_, _, _)
Fill(p, chain, n) ==
  IF chain = << >> \/ n = 0 THEN [p EXCEPT !.freeRaw = chain]
  ELSE LET r == Head(chain)
           k == Min({n, PipeBuf - Len(p.raw[r])})
           q == [p EXCEPT !.raw[r] = @ \o [i \in 1 .. k |-> p.got + i], !.got = @ + k]
       IN IF Len(q.raw[r]) = PipeBuf THEN Fill(InputFilter(q, r), Tail(chain), n - k)
          ELSE Fill(q, chain, 0)

SpaceOf(p, chain) == FoldLeft(LAMBDA n, r : n + PipeBuf - Len(p.raw[r]), 0, chain)

(* After the loop of ngx_event_pipe_read_upstream(): the buffer with the   *)
(* last bytes of a response whose length is known passes the filter, the   *)
(* one with the rest before the end does, and what is to be cached goes to *)
(* the file.                                                               *)
LastPart(p) ==
  IF p.freeRaw # << >> /\ p.length # AnyLength /\ Len(p.raw[Head(p.freeRaw)]) >= p.length
  THEN InputFilter([p EXCEPT !.freeRaw = Tail(@)], Head(p.freeRaw)) ELSE p
WholeLength(p) == IF p.length = 0 THEN [p EXCEPT !.upDone = TRUE, !.read = TRUE] ELSE p
RestAtEnd(p) ==
  IF (p.upEof \/ p.upError) /\ p.freeRaw # << >>
  THEN [InputFilter(p, Head(p.freeRaw)) EXCEPT !.freeRaw = Tail(@), !.freed = @ \cup Range(Tail(p.freeRaw))]
  ELSE p
ToCache(p) == IF p.conf.cacheable /\ p.in # << >> THEN WriteTempFile(p) ELSE [p EXCEPT !.rc = "ok"]
ReadEnd(p) == ToCache(RestAtEnd(WholeLength(LastPart(p))))

(* One turn of the loop: it goes on, ends, or the function returns. *)
PipeTurn(next, p) == [next |-> next, to |-> p]

(* n bytes were read; with a limit of the rate the next read is delayed. *)
WithBytes(p, chain, n) ==
  LET q == [Fill(p, chain, n) EXCEPT !.read = TRUE, !.delayed = p.conf.rate] IN
  PipeTurn(IF p.conf.rate THEN "end" ELSE "on", q)

(* recv_chain() and what follows; rest is what stays in free_raw_bufs. *)
Received(p, chain) ==
  LET rest == SelectSeq(p.freeRaw, LAMBDA r : ~Contains(chain, r))
      n == Min({p.net.gives, SpaceOf(p, chain)})
      q == [p EXCEPT !.freeRaw = chain \o rest, !.net.gives = @ - n]
  IN IF n > 0 THEN WithBytes(q, q.freeRaw, n)
     ELSE PipeTurn("end", CASE p.net.then = "quiet" -> [q EXCEPT !.upReady = FALSE]
                            [] p.net.then = "ends"  -> [q EXCEPT !.upEof = TRUE, !.read = TRUE]
                            [] p.net.then = "breaks" -> [q EXCEPT !.upError = TRUE])

FreeBufs(p) == IF p.conf.single THEN << Head(p.freeRaw) >> ELSE p.freeRaw

(* After the temporary file was written to make room. *)
WithRoom(p) ==
  IF p.rc = "busy" THEN PipeTurn("end", p)
  ELSE IF p.rc # "ok" THEN PipeTurn("return", p) ELSE Received(p, FreeBufs(p))

ReadTurn(p) ==
  IF UpEnded(p) \/ (p.preread = 0 /\ ~p.upReady) THEN PipeTurn("end", p)
  ELSE IF p.preread > 0 THEN WithBytes([p EXCEPT !.preread = 0], << 0 >>, p.preread)
  ELSE IF p.delayed THEN PipeTurn("end", p)
  ELSE IF p.freeRaw # << >> THEN Received(p, FreeBufs(p))
  ELSE IF p.allocated < p.conf.num
  THEN Received([p EXCEPT !.allocated = @ + 1], << p.allocated + 1 >>)
  ELSE IF ~p.conf.cacheable /\ DownIdle(p) THEN PipeTurn("end", [p EXCEPT !.blocked = TRUE])
  ELSE IF p.conf.cacheable \/ p.offset < p.conf.fileMax THEN WithRoom(WriteTempFile(p))
  ELSE PipeTurn("end", p)

RECURSIVE ReadLoop(_)
ReadLoop(turn) ==
  CASE turn.next = "on" -> ReadLoop(ReadTurn(turn.to))
    [] turn.next = "end" -> ReadEnd(turn.to)
    [] turn.next = "return" -> turn.to

AfterWriting(p) == PipeTurn(IF p.rc = "ok" THEN "on" ELSE "return", p)
ReadUpstream(p) ==
  IF UpEnded(p) THEN [p EXCEPT !.rc = "ok"]
  ELSE IF p.aio THEN [p EXCEPT !.rc = "again"]
  ELSE ReadLoop(IF p.writing # << >> THEN AfterWriting(WriteTempFile(p)) ELSE PipeTurn("on", p))

-----------------------------------------------------------------------------
(* Writing *)

(* What the output filter holds is what the client takes next. *)
RECURSIVE OutputFilter(_)
OutputFilter(p) ==
  IF p.busy = << >> THEN p
  ELSE IF p.net.room = 0 THEN [p EXCEPT !.downReady = FALSE]
  ELSE LET b == Head(p.busy)
           k == Min({p.net.room, SizeOf(b)})
           q == [p EXCEPT !.net.room = @ - k, !.sent = @ \o SubSeq(Bytes(p, b), 1, k)]
       IN OutputFilter(
            IF k < SizeOf(b) THEN [q EXCEPT !.busy = << [b EXCEPT !.from = @ + k] >> \o Tail(@)]
            ELSE [q EXCEPT !.busy = Tail(@), !.left = << b >> \o @])

(* ngx_chain_update_chains() and the loop over p->free: raw buffers are    *)
(* free again, and a cyclic file begins anew.  A buffer that was freed     *)
(* earlier is looked at again.                                             *)
ResetOffset(p, end) == IF end = p.offset THEN [p EXCEPT !.offset = 0] ELSE p
Recycled(p) ==
  LET ends == [i \in DOMAIN p.left |-> IF p.left[i].file THEN p.left[i].to ELSE 0]
      q == FoldLeft(LAMBDA s, b : IF b.file THEN s ELSE AddFreeBuf(s, b.raw), [p EXCEPT !.left = << >>], p.left)
  IN FoldLeft(ResetOffset, Freed(q, ends), Freed(q, ends).free)
Flushed(p) == [OutputFilter(p) EXCEPT !.left = << >>]

(* ngx_event_pipe_drain_chains(); p->free plays no part after it. *)
Drain(p) ==
  LET q == [p EXCEPT !.busy = << >>, !.out = << >>, !.in = << >>] IN
  FoldLeft(LAMBDA s, b : IF b.file THEN s ELSE AddFreeBuf(s, b.raw), q, p.busy \o p.out \o p.in)

(* Buffers that share a raw buffer with the one before them count once. *)
BusySize(p) == PipeBuf * Cardinality({b.raw : b \in {x \in Range(p.busy) : x.recycled}})

(* How many buffers of in may follow while size bytes are busy. *)
RECURSIVE InFits(_, _, _)
InFits(p, bufs, size) ==
  IF bufs = << >> \/ (Head(bufs).recycled /\ size + PipeBuf > p.conf.busy) THEN 0
  ELSE 1 + InFits(p, Tail(bufs), size + IF Head(bufs).recycled THEN PipeBuf ELSE 0)

NotRecycled(bufs) == [i \in DOMAIN bufs |-> [bufs[i] EXCEPT !.recycled = FALSE]]

RECURSIVE WriteLoop(_, _)
WriteLoop(p, flushed) ==
  LET k == IF p.conf.cacheable \/ p.writing # << >> THEN 0 ELSE InFits(p, p.in, BusySize(p))
      flush == BusySize(p) >= p.conf.busy \/ (~p.conf.cacheable /\ p.writing = << >> /\ k < Len(p.in))
      full == BusySize(p) >= p.conf.busy
      out == IF full THEN << >> ELSE p.out \o SubSeq(p.in, 1, k)
      taken == IF full THEN p ELSE [p EXCEPT !.out = << >>, !.in = SubSeq(@, k + 1, Len(@))] IN
  IF p.downError THEN Drain(p)
  ELSE IF UpEnded(p) THEN
    IF p.writing # << >>
    THEN Flushed([p EXCEPT !.busy = NotRecycled(@) \o NotRecycled(p.out), !.out = << >>])
    ELSE [Flushed([p EXCEPT !.busy = NotRecycled(@) \o NotRecycled(p.out \o p.in),
                            !.out = << >>, !.in = << >>]) EXCEPT !.downDone = TRUE]
  ELSE IF ~DownIdle(p) \/ (out = << >> /\ ~flush) THEN p
  ELSE IF out = << >> /\ flushed > 10 THEN [p EXCEPT !.rc = "busy"]
  ELSE WriteLoop(Recycled(OutputFilter([taken EXCEPT !.busy = @ \o out])),
                 IF out = << >> THEN flushed + 1 ELSE flushed)

WriteToDownstream(p) ==
  WriteLoop([IF p.writing # << >> THEN WriteTempFile(p) ELSE p EXCEPT !.rc = "ok"], 0)

-----------------------------------------------------------------------------
(* ngx_event_pipe() *)

Timers(p) ==
  [p EXCEPT !.rtimer = IF p.delayed THEN TRUE ELSE ~p.upReady /\ ~UpEnded(p), !.wtimer = ~p.downReady]

RECURSIVE EventPipe(_, _)
AfterRead(p) ==
  IF p.rc = "abort" THEN p
  ELSE IF ~p.read /\ ~p.blocked THEN Timers(p) ELSE EventPipe(p, TRUE)
AfterWrite(p) ==
  IF p.rc = "busy" THEN p ELSE AfterRead(ReadUpstream([p EXCEPT !.read = FALSE, !.blocked = FALSE]))
EventPipe(p, doWrite) == AfterWrite(IF doWrite THEN WriteToDownstream(p) ELSE p)

Remaining == pipe.conf.total - pipe.got - pipe.preread

(* Both connections in one call. *)
PipeNets ==
  {e \in [room : {0, 1, 9}, gives : {0, 1, 3, Remaining}, then : {"quiet", "ends", "breaks"}] :
     /\ e.gives <= Remaining
     /\ e.then = "ends" => e.gives = Remaining
     /\ pipe.stalls >= PipeStalls => e.room = 9}
PipeRun(p, doWrite) ==
  \E e \in PipeNets :
    LET q == EventPipe([p EXCEPT !.net = e], doWrite) IN
    pipe' = [q EXCEPT !.rc = "ok", !.net = [room |-> 0, gives |-> 0, then |-> "quiet"],
                      !.stalls = IF q.downReady THEN @ ELSE Min({PipeStalls, @ + 1})]

PipeRuns == ~pipe.downDone /\ ~pipe.over /\ (pipe.downError => pipe.conf.cacheable /\ ~UpEnded(pipe))
UpstreamEvent ==
  PipeRuns /\ ~UpEnded(pipe) /\ ~pipe.delayed /\ PipeRun([pipe EXCEPT !.upReady = TRUE], FALSE)
DownstreamEvent ==
  PipeRuns /\ ~pipe.downReady /\ ~pipe.downError /\ PipeRun([pipe EXCEPT !.downReady = TRUE], TRUE)
ThreadDone ==
  PipeRuns /\ pipe.aio /\ PipeRun([pipe EXCEPT !.aio = FALSE], TRUE)
DelayOver ==
  PipeRuns /\ pipe.delayed /\ PipeRun([pipe EXCEPT !.delayed = FALSE, !.upReady = TRUE], TRUE)
UpstreamTimeout ==
  /\ PipeRuns /\ ~pipe.delayed /\ pipe.rtimer
  /\ pipe' = [pipe EXCEPT !.upError = TRUE, !.over = TRUE]
DownstreamTimeout ==
  /\ PipeRuns /\ pipe.wtimer /\ ~pipe.downError
  /\ pipe' = [pipe EXCEPT !.downError = TRUE]

(* What the filter still holds leaves when the response is finalized. *)
FilterEnds ==
  /\ pipe.downDone /\ pipe.busy # << >>
  /\ pipe' = [pipe EXCEPT !.sent = @ \o BytesOf(pipe, pipe.busy), !.busy = << >>]

PipeNext ==
  \/ UpstreamEvent \/ DownstreamEvent \/ ThreadDone \/ DelayOver \/ UpstreamTimeout \/ DownstreamTimeout
  \/ FilterEnds

-----------------------------------------------------------------------------

InOrder(seq) == seq = [i \in DOMAIN seq |-> i]

(* The client gets the bytes of the upstream in order and none of them     *)
(* twice; what is read and not yet sent is in a chain, the file or a raw   *)
(* buffer, also after raw buffers and the cyclic file were used again; a   *)
(* raw buffer is in one place and its memory is not given back while it is *)
(* in use; the file is written only when there is something to write; a    *)
(* response to be cached is in the file as a whole                         *)
(* (ngx_event_pipe_read_upstream, ngx_event_pipe_write_to_downstream,      *)
(* ngx_event_pipe_write_chain_to_temp_file).                               *)
PipeIsSound ==
  /\ ~pipe.bad
  /\ InOrder(pipe.sent)
  /\ ~pipe.downError =>
       LET bufs == pipe.busy \o pipe.out \o pipe.writing \o pipe.in
           part == IF pipe.freeRaw = << >> THEN << >> ELSE pipe.raw[Head(pipe.freeRaw)]
           raws == [i \in DOMAIN bufs |-> IF bufs[i].file THEN -1 ELSE bufs[i].raw]
       IN /\ InOrder(pipe.sent \o BytesOf(pipe, bufs) \o part)
          /\ Len(pipe.sent \o BytesOf(pipe, bufs) \o part) = pipe.got
          /\ IsInjective(SelectSeq(raws, LAMBDA r : r # -1) \o pipe.freeRaw)
          /\ \A r \in pipe.freed : ~Contains(raws, r)
  /\ pipe.conf.cacheable /\ pipe.downDone => Len(pipe.file) = pipe.got /\ InOrder(pipe.file)

(* The file begins anew only when all of its ranges were sent ("reset      *)
(* p->temp_offset if all bufs had been sent", ngx_event_pipe.c:706): a     *)
(* range that is still to be sent lies before the place of the next write. *)
FileIsPassedOn ==
  \A b \in Range(pipe.busy \o pipe.out) : b.file => b.to <= pipe.offset

(* A response that has ended reaches the client, as far as the client goes *)
(* on, also what the file holds.                                           *)
PipeDelivers ==
  []((pipe.upEof \/ pipe.upDone) /\ PipeRuns => <>(pipe.downError \/ Len(pipe.sent) = pipe.got))

PipeFairness ==
  /\ []<>~pipe.aio
  /\ []<>~(PipeRuns /\ ~pipe.downReady)
  /\ []<>~(pipe.downDone /\ pipe.busy # << >>)
=============================================================================
