---------------------------- MODULE OutputChain ----------------------------
(***************************************************************************)
(* The output chain (ngx_output_chain.c, ngx_buf.c): buffers on their way  *)
(* to a filter that takes a part of them at a time.  A buffer goes on as   *)
(* it is, or its bytes are copied into one of a few buffers of the chain,  *)
(* which wait for the filter in busy and come back to free.                *)
(*                                                                         *)
(* A buffer is the range from .. to of the bytes of the response, which    *)
(* are numbered; heap holds the buffers, the chains hold their places in   *)
(* it, so that a copy used again too early shows in what the filter sends. *)
(***************************************************************************)
EXTENDS Integers, Sequences, FiniteSets, SequencesExt, FiniteSetsExt

CONSTANTS
  ChainConfs,   (* num, size, sendfile, needMem, needTemp, directio *)
  ChainBytes,   (* bound on the bytes of a response *)
  ChainCalls    (* bound on the calls of ngx_output_chain() with buffers *)

VARIABLES
  chain

(* Directio reads are aligned to this many bytes. *)
Alignment == 2

EndMark == 0

ChainInit ==
  \E conf \in ChainConfs :
    chain = [conf |-> conf, heap |-> << >>, in |-> << >>, out |-> << >>, buf |-> 0, free |-> << >>,
             busy |-> << >>, allocated |-> 0, directio |-> FALSE, rc |-> "none",
             writer |-> << >>, room |-> 0,
             given |-> 0, calls |-> 0,
             sent |-> << >>,          (* history: the bytes, and the EndMark, that left *)
             unaligned |-> FALSE,     (* history: a directio read into aligned memory began elsewhere *)
             ended |-> FALSE]

Size(b) == b.to - b.from + 1
Special(b) == ~b.mem /\ ~b.file

-----------------------------------------------------------------------------
(* ngx_buf.c *)

(* Fault of UpdateChains: the buffers of this chain do not come back. *)
RECURSIVE UpdateChainsKeeps(_)
UpdateChainsKeeps(c) ==
  IF c.busy = << >> \/ Size(c.heap[Head(c.busy)]) # 0 THEN c
  ELSE UpdateChainsKeeps([c EXCEPT !.busy = Tail(@)])

(* ngx_chain_update_chains(): what the filter has taken leaves busy; a     *)
(* buffer of this chain is free again.                                     *)
RECURSIVE UpdateChains(_)
UpdateChains(c) ==
  IF c.busy = << >> \/ Size(c.heap[Head(c.busy)]) # 0 THEN c
  ELSE UpdateChains([c EXCEPT !.busy = Tail(@),
                              !.free = IF c.heap[Head(c.busy)].own THEN << Head(c.busy) >> \o @ ELSE @])

(* ngx_chain_update_sent(), for what the filter has room for. *)
RECURSIVE UpdateSent(_)
UpdateSent(c) ==
  IF c.writer = << >> THEN c
  ELSE LET i == Head(c.writer)
           b == c.heap[i]
           k == Min({c.room, Size(b)})
           q == [c EXCEPT !.room = @ - k, !.heap[i].from = @ + k,
                          !.sent = @ \o [j \in 1 .. k |-> b.from + j - 1]
                                     \o IF k = Size(b) /\ b.last THEN << EndMark >> ELSE << >>]
       IN IF k < Size(b) THEN q ELSE UpdateSent([q EXCEPT !.writer = Tail(@)])

-----------------------------------------------------------------------------
(* ngx_output_chain.c *)

(* ngx_output_chain_as_is() *)
AsIs(conf, b) ==
  \/ Special(b)
  \/ /\ ~(b.file /\ conf.directio)
     /\ ~conf.sendfile => b.mem
     /\ ~(conf.needMem /\ ~b.mem)
     /\ ~(conf.needTemp /\ b.mem /\ b.readOnly)

(* ngx_output_chain_align_file_buf(): the size of the buffer that takes    *)
(* the bytes up to the next boundary, or a rest that fills no buffer.      *)
AlignSize(c, b) ==
  LET off == (b.from - 1) % Alignment IN
  IF ~b.file \/ ~c.conf.directio \/ (off = 0 /\ Size(b) >= c.conf.size) THEN 0
  ELSE IF off = 0 THEN Size(b) ELSE Min({Alignment - off, Size(b)})

NewBuf(c, size, own) ==
  [c EXCEPT !.heap = Append(@, [mem |-> TRUE, file |-> FALSE, readOnly |-> FALSE, from |-> 1, to |-> 0,
                                last |-> FALSE, inChain |-> FALSE, own |-> own, space |-> size]),
            !.buf = Len(c.heap) + 1]

(* ngx_output_chain_get_buf() *)
GetBuf(c, b) ==
  LET whole == b.inChain /\ (Size(b) < c.conf.size
                             \/ (~c.directio /\ c.conf.num = 1 /\ 4 * Size(b) < 5 * c.conf.size))
  IN [NewBuf(c, IF whole THEN Size(b) ELSE c.conf.size, TRUE) EXCEPT !.allocated = @ + 1]

(* ngx_output_chain_copy_buf(), and the buffer joins out. *)
CopyBuf(c) ==
  LET i == Head(c.in)
      src == c.heap[i]
      dst == c.heap[c.buf]
      n == Min({Size(src), dst.space})
      done == n = Size(src)
  IN [c EXCEPT !.heap[i].from = @ + n,
               !.heap[c.buf] = [@ EXCEPT !.from = src.from, !.to = src.from + n - 1,
                                         !.last = IF done THEN src.last ELSE @],
               !.in = IF done THEN Tail(@) ELSE @,
               !.out = Append(@, c.buf), !.buf = 0,
               !.unaligned = @ \/ (~src.mem /\ c.conf.directio /\ dst.own /\ (src.from - 1) % Alignment # 0)]

(* The inner loop of ngx_output_chain(): in moves to out until the chain   *)
(* has no buffer for a copy.                                               *)
RECURSIVE Collect(_)
Collect(c) ==
  LET i == Head(c.in)
      b == c.heap[i]
      rest == [c EXCEPT !.in = Tail(@)] IN
  IF c.in = << >> THEN c
  ELSE IF Size(b) = 0 /\ ~Special(b) THEN Collect(rest)
  ELSE IF AsIs(c.conf, b) THEN Collect([rest EXCEPT !.out = Append(@, i), !.heap[i].file = @ /\ (c.conf.sendfile \/ ~b.mem)])
  ELSE LET d == [c EXCEPT !.directio = @ \/ (b.file /\ c.conf.directio)] IN
       IF AlignSize(c, b) # 0 THEN Collect(CopyBuf(NewBuf(d, AlignSize(c, b), FALSE)))
       ELSE IF c.free # << >> THEN Collect(CopyBuf([d EXCEPT !.buf = Head(d.free), !.free = Tail(@)]))
       ELSE IF c.out # << >> \/ c.allocated = c.conf.num THEN d
       ELSE Collect(CopyBuf(GetBuf(d, b)))

(* The filter keeps what it has no room for (external). *)
Filter(c, bufs) ==
  LET q == UpdateSent([c EXCEPT !.writer = @ \o bufs]) IN
  [q EXCEPT !.rc = IF q.writer = << >> THEN "ok" ELSE "again"]

RECURSIVE Output(_)
Output(c) ==
  LET d == Collect(c)
      f == Filter(d, d.out)
  IN IF d.out = << >> /\ d.rc # "none" THEN IF d.in # << >> THEN [d EXCEPT !.rc = "again"] ELSE d
     ELSE Output(UpdateChains([f EXCEPT !.busy = @ \o d.out, !.out = << >>]))

(* ngx_output_chain(); new are the places of the buffers of the caller. *)
OutputChain(c, new) ==
  LET one == Len(new) = 1 /\ AsIs(c.conf, c.heap[new[1]]) IN
  IF c.in = << >> /\ c.busy = << >> /\ (new = << >> \/ one) THEN Filter(c, new)
  ELSE Output([c EXCEPT !.in = @ \o new, !.rc = "none"])

-----------------------------------------------------------------------------
(* The caller *)

Rooms == {0, 1, 99}

Kinds == {"temp", "memory", "file", "both", "last"}
BufOf(kind, from, n, last, inChain) ==
  [mem |-> kind \in {"temp", "memory", "both"}, file |-> kind \in {"file", "both"},
   readOnly |-> kind = "memory", from |-> from, to |-> from + n - 1, last |-> last, inChain |-> inChain,
   own |-> FALSE, space |-> 0]

Give ==
  /\ ~chain.ended /\ chain.calls < ChainCalls /\ chain.rc # "again"
  /\ \E bytes \in {s \in SeqOf({0, 1, 3}, 2) : s # << >>}, kind \in Kinds, room \in Rooms, last \in BOOLEAN :
       /\ \A i \in DOMAIN bytes : (bytes[i] = 0) <=> (kind = "last" \/ (last /\ i = Len(bytes) /\ i > 1))
       /\ kind = "last" => last /\ Len(bytes) = 1
       /\ chain.given + FoldSeq(+, 0, bytes) <= ChainBytes
       /\ LET n == Len(bytes)
              at(i) == chain.given + FoldSeq(+, 0, SubSeq(bytes, 1, i - 1)) + 1
              new == [i \in 1 .. n |->
                        BufOf(IF bytes[i] = 0 THEN "last" ELSE kind, at(i), bytes[i], last /\ i = n, i = n)]
              c == [chain EXCEPT !.heap = @ \o new, !.given = at(n) + bytes[n] - 1,
                                 !.calls = @ + 1, !.ended = last, !.room = room]
          IN chain' = OutputChain(c, [i \in 1 .. n |-> Len(chain.heap) + i])

(* The connection is writable again. *)
Flush ==
  /\ chain.rc = "again"
  /\ \E room \in Rooms \ {0} : chain' = OutputChain([chain EXCEPT !.room = room], << >>)

ChainNext == Give \/ Flush

-----------------------------------------------------------------------------

Pending(c, places) ==
  FoldLeft(LAMBDA seen, i : seen \o [j \in 1 .. Size(c.heap[i]) |-> c.heap[i].from + j - 1], << >>, places)

(* The response leaves in order, no byte of it is lost, doubled or         *)
(* overwritten while a copy waits in busy, and its end is told once and    *)
(* after the last byte; the chain never has more buffers than bufs.num,    *)
(* and a directio read into them begins at a boundary (ngx_output_chain,   *)
(* ngx_output_chain_get_buf, ngx_chain_update_chains).                     *)
ChainIsSound ==
  LET bytes == SelectSeq(chain.sent, LAMBDA x : x # EndMark) \o Pending(chain, chain.writer \o chain.in) IN
  /\ bytes = [i \in 1 .. chain.given |-> i]
  /\ Contains(chain.sent, EndMark) => chain.ended /\ chain.sent = Append([i \in 1 .. chain.given |-> i], EndMark)
  /\ chain.ended /\ chain.in = << >> /\ chain.writer = << >> => Contains(chain.sent, EndMark)
  /\ chain.allocated <= chain.conf.num
  /\ ~chain.unaligned

(* What was given leaves as long as the filter takes something now and     *)
(* then: the chain never waits for a buffer of its own that no one frees   *)
(* (ngx_output_chain).                                                     *)
ChainDrains == [](chain.ended => <>Contains(chain.sent, EndMark))

(* A connection that is not writable becomes so: weak fairness of Flush.   *)
ChainFairness == []<>(chain.rc # "again") \/ []<><<Flush>>_chain
=============================================================================
