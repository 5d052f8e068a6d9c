-------------------------------- MODULE Slab --------------------------------
(***************************************************************************)
(* The slab allocator of a zone of shared memory (ngx_slab.c), by the      *)
(* descriptors of its pages and the pointers between them.                 *)
(*                                                                         *)
(* Pages are numbered; a list runs through the descriptors and a head,     *)
(* FreeList or the Slot of a class of chunks.  The two low bits of the field   *)
(* prev are the variable type.  The field slab holds a number of pages,    *)
(* with or without a mark, or belongs to a page that is cut into chunks;   *)
(* then busy stands for its bitmap, wherever the code keeps it.  Addresses *)
(* count from pool->start.  The callers hold the mutex of the pool, so     *)
(* that a call is one step.                                                *)
(***************************************************************************)
EXTENDS Integers, FiniteSets, FiniteSetsExt

CONSTANTS
  Pages,       (* the number of pages of the pool *)
  PageSize,    (* ngx_pagesize *)
  MinSize,     (* pool->min_size *)
  Byte,        (* the number of bits of a byte *)
  Word,        (* the number of bits of uintptr_t *)
  SlabRequests,    (* bound: the sizes that callers ask for *)
  MaxLive      (* bound on the number of blocks that are handed out *)

PageNos == 0 .. Pages - 1
NULL == -1
FreeList == -2
Slot(size) == -2 - size

Sizes == {size \in MinSize .. PageSize \div 2 :
            \E k \in 0 .. PageSize \div MinSize : size = MinSize * 2^k}

(* The greatest chunks are halves of pages: there are as many slots as     *)
(* ngx_pagesize_shift - pool->min_shift.                                   *)
ASSUME SlabAssumption ==
  /\ Pages \in Nat \ {0} /\ PageSize \in Nat \ {0} /\ MinSize \in Nat \ {0}
  /\ Byte \in Nat \ {0} /\ Word \in Nat \ {0}
  /\ PageSize % MinSize = 0 /\ PageSize % Word = 0
  /\ PageSize \div 2 \in Sizes
  /\ SlabRequests \subseteq Nat \ {0} /\ MaxLive \in Nat

Heads == {FreeList} \cup {Slot(size) : size \in Sizes}
Nodes == PageNos \cup Heads

VARIABLES
  next, prev,   (* page->next, page->prev *)
  type,         (* ngx_slab_page_type(page) *)
  slab,         (* page->slab *)
  busy,         (* the bits set in the bitmap of a page of chunks *)
  total, used,  (* pool->stats[slot] *)
  pfree,        (* pool->pfree *)
  live,         (* history: the blocks that are handed out *)
  unfreed          (* history: how many allocations were not freed *)

desc == << next, prev, type, slab, busy >>
stats == << total, used >>
slabVars == << desc, stats, pfree, live, unfreed >>

(* The descriptors as one value, for the steps of a call. *)
Memory == [next |-> next, prev |-> prev, type |-> type, slab |-> slab, busy |-> busy]
MemoryIs(m) ==
  /\ next' = m.next /\ prev' = m.prev /\ type' = m.type
  /\ slab' = m.slab /\ busy' = m.busy

Run(n) == [tag |-> "run", n |-> n]          (* n pages from here are free *)
Start(n) == [tag |-> "start", n |-> n]      (* n | NGX_SLAB_PAGE_START *)
RunTail == [tag |-> "tail", n |-> 0]           (* NGX_SLAB_PAGE_BUSY *)
Chunks(size) == [tag |-> "chunks", n |-> size]

(* ngx_slab_init *)
SlabInit ==
  /\ next = [p \in Nodes |->
               IF p = 0 THEN FreeList ELSE IF p = FreeList THEN 0
               ELSE IF p \in Heads THEN p ELSE NULL]
  /\ prev = [p \in Nodes |-> IF p = 0 THEN FreeList ELSE NULL]
  /\ type = [p \in PageNos |-> "page"]
  /\ slab = [p \in PageNos |-> Run(IF p = 0 THEN Pages ELSE 0)]
  /\ busy = [p \in PageNos |-> {}]
  /\ total = [size \in Sizes |-> 0] /\ used = [size \in Sizes |-> 0]
  /\ pfree = Pages
  /\ live = {} /\ unfreed = 0

-----------------------------------------------------------------------------
(* Runs of pages. *)

Unlink(m, p) ==
  [m EXCEPT !.next[m.prev[p]] = m.next[p], !.prev[m.next[p]] = m.prev[p]]

(* The descriptor of a page that is in no list. *)
Plain(m, p, s) ==
  [m EXCEPT !.slab[p] = s, !.next[p] = NULL, !.prev[p] = NULL,
            !.type[p] = "page", !.busy[p] = {}]

PlainAll(m, ps, s) ==
  [next |-> [p \in DOMAIN m.next |-> IF p \in ps THEN NULL ELSE m.next[p]],
   prev |-> [p \in DOMAIN m.prev |-> IF p \in ps THEN NULL ELSE m.prev[p]],
   type |-> [p \in PageNos |-> IF p \in ps THEN "page" ELSE m.type[p]],
   slab |-> [p \in PageNos |-> IF p \in ps THEN s ELSE m.slab[p]],
   busy |-> [p \in PageNos |-> IF p \in ps THEN {} ELSE m.busy[p]]]

(* What a walk through the list of a head comes by before it stops: the    *)
(* least set of its nodes that cannot be left.                             *)
Walk(h, stops) ==
  {x \in PageNos \cup {h} :
     \A S \in SUBSET (PageNos \cup {h}) :
       next[h] \in S /\ (\A y \in S \ stops : next[y] \in S) => x \in S}

(* The first run of the free list that has n pages: a walk stops there. *)
FirstRun(n) ==
  LET long == {p \in PageNos : slab[p].n >= n}
      found == long \cap Walk(FreeList, {FreeList} \cup long)
  IN IF found = {} THEN NULL ELSE CHOOSE p \in found : TRUE

(* The pages of the run after the first n take its place in the free list. *)
Split(m, p, n) ==
  [m EXCEPT !.prev[p + m.slab[p].n - 1] = p + n,
            !.slab[p + n] = Run(m.slab[p].n - n),
            !.next[p + n] = m.next[p], !.prev[p + n] = m.prev[p],
            !.next[m.prev[p]] = p + n, !.prev[m.next[p]] = p + n]

(* ngx_slab_alloc_pages, once the run p is found *)
TakeRun(m, p, n) ==
  LET rest == IF m.slab[p].n > n THEN Split(m, p, n) ELSE Unlink(m, p)
  IN PlainAll(Plain(rest, p, Start(n)), p + 1 .. p + n - 1, RunTail)

(* A run takes up the free run that follows it. *)
JoinRight(m, p) ==
  LET q == p + m.slab[p].n
  IN IF q < Pages /\ m.type[q] = "page" /\ m.next[q] # NULL
     THEN Plain(Unlink([m EXCEPT !.slab[p] = Run(@.n + m.slab[q].n)], q), q, Run(0))
     ELSE m

(* Fault of LeftOf: only a run of one page is recognised. *)
LeftOfNear(m, p) == IF p > 0 /\ m.type[p - 1] = "page" THEN p - 1 ELSE NULL

(* The first page of the run to the left: the last page of a free run      *)
(* points to it.                                                           *)
LeftOf(m, p) ==
  IF p > 0 /\ m.type[p - 1] = "page"
  THEN IF m.slab[p - 1] = Run(0) THEN m.prev[p - 1] ELSE p - 1
  ELSE NULL

(* The free run to the left, if there is one, takes up the run p. *)
First(m, p) ==
  LET q == LeftOf(m, p) IN IF q # NULL /\ m.next[q] # NULL THEN q ELSE p
JoinLeft(m, p) ==
  LET q == First(m, p)
  IN IF q = p THEN m
     ELSE Plain(Unlink([m EXCEPT !.slab[q] = Run(@.n + m.slab[p].n)], q), p, Run(0))

(* The run p becomes the first of the free list. *)
Push(m, p) ==
  LET n == m.slab[p].n
      told == IF n > 1 THEN [m EXCEPT !.prev[p + n - 1] = p] ELSE m
  IN [told EXCEPT !.prev[p] = FreeList, !.type[p] = "page", !.busy[p] = {},
                  !.next[p] = m.next[FreeList], !.prev[m.next[FreeList]] = p,
                  !.next[FreeList] = p]

(* ngx_slab_free_pages *)
FreePages(m, p, n) ==
  LET run == PlainAll([m EXCEPT !.slab[p] = Run(n)], p + 1 .. p + n - 1, Run(0))
      alone == IF m.next[p] # NULL THEN Unlink(run, p) ELSE run
      right == JoinRight(alone, p)
  IN Push(JoinLeft(right, p), First(right, p))

-----------------------------------------------------------------------------
(* Chunks. *)

SizeOf(request) == Min({size \in Sizes : size >= request})

NumberOf(size) == PageSize \div size

TypeFor(size) ==
  IF NumberOf(size) > Word THEN "small"
  ELSE IF NumberOf(size) = Word THEN "exact" ELSE "big"

(* The chunks that hold the bitmap of a page of small ones. *)
Reserved(size) ==
  IF TypeFor(size) # "small" THEN 0
  ELSE Max({1, NumberOf(size) \div (size * Byte)})

(* Fault of FirstBits: without the one requested. *)
FirstBitsReserved(size) == 0 .. Reserved(size) - 1

(* The bits of ((uintptr_t) 2 << n) - 1.  Processors take the count of a   *)
(* shift modulo the width of the word.                                     *)
FirstBits(size) == 0 .. Reserved(size) % Word

Whole(size) == 0 .. NumberOf(size) - 1

(* A page that has no chunk left leaves the list of its slot. *)
DropFull(m, p, size) ==
  IF m.busy[p] # Whole(size) THEN m
  ELSE [Unlink(m, p) EXCEPT !.next[p] = NULL, !.prev[p] = NULL]

HandOut(addr, len) ==
  /\ live' = live \cup {[addr |-> addr, len |-> len]}
  /\ unfreed' = unfreed + 1
HandOutChunk(p, c, size) == HandOut(p * PageSize + c * size, size)

(* The first chunk of the page whose bit is clear. *)
TakeChunk(p, size) ==
  LET c == Min(Whole(size) \ busy[p])
  IN /\ MemoryIs(DropFull([Memory EXCEPT !.busy[p] = @ \cup {c}], p, size))
     /\ HandOutChunk(p, c, size)
     /\ used' = [used EXCEPT ![size] = @ + 1] /\ UNCHANGED << total, pfree >>

(* A page is cut into chunks, the first of which is handed out. *)
OpenPage(p, size) ==
  LET m == TakeRun(Memory, p, 1)
  IN /\ MemoryIs([m EXCEPT !.slab[p] = Chunks(size), !.busy[p] = FirstBits(size),
                           !.next[p] = Slot(size), !.prev[p] = Slot(size),
                           !.type[p] = TypeFor(size), !.next[Slot(size)] = p])
     /\ HandOutChunk(p, Reserved(size), size)
     /\ total' = [total EXCEPT ![size] = @ + NumberOf(size) - Reserved(size)]
     /\ used' = [used EXCEPT ![size] = @ + 1]
     /\ pfree' = pfree - 1

(* ngx_slab_alloc_locked for at most half a page.  A failure changes       *)
(* nothing but the number of failures.                                     *)
AllocChunk(request) ==
  /\ request <= PageSize \div 2
  /\ unfreed < MaxLive
  /\ LET size == SizeOf(request)
         p == next[Slot(size)]
     IN \/ p # Slot(size) /\ TakeChunk(p, size)
        \/ /\ p = Slot(size) /\ FirstRun(1) # NULL
           /\ OpenPage(FirstRun(1), size)

(* ngx_slab_alloc_locked for more *)
AllocPages(request) ==
  LET n == (request + PageSize - 1) \div PageSize
      p == FirstRun(n)
  IN /\ request > PageSize \div 2
     /\ unfreed < MaxLive
     /\ p # NULL
     /\ MemoryIs(TakeRun(Memory, p, n))
     /\ pfree' = pfree - n
     /\ HandOut(p * PageSize, n * PageSize)
     /\ UNCHANGED stats

-----------------------------------------------------------------------------
(* ngx_slab_free_locked *)

(* What callers free: a block they have, or by mistake one they had: any   *)
(* other chunk of a page, or the start of any other page.                  *)
Freeable ==
  {p * PageSize : p \in {q \in PageNos : type[q] = "page"}} \cup
  UNION {{p * PageSize + c * slab[p].n :
            c \in Reserved(slab[p].n) .. NumberOf(slab[p].n) - 1} :
           p \in {q \in PageNos : type[q] # "page"}}

Freed(addr) ==
  /\ live' = {b \in live : b.addr # addr}
  /\ unfreed' = IF \E b \in live : b.addr = addr THEN unfreed - 1 ELSE unfreed

(* A full page returns to the list of its slot. *)
Return(m, p, size) ==
  IF m.next[p] # NULL THEN m
  ELSE [m EXCEPT !.next[p] = m.next[Slot(size)], !.prev[p] = Slot(size),
                 !.prev[m.next[Slot(size)]] = p, !.next[Slot(size)] = p]

(* A chunk; the page is given back with its last chunk. *)
FreeChunk(addr) ==
  LET p == addr \div PageSize
      size == slab[p].n
      c == (addr % PageSize) \div size
      m == [Return(Memory, p, size) EXCEPT !.busy[p] = @ \ {c}]
  IN /\ type[p] # "page"
     /\ addr % size = 0 /\ c \in busy[p]
     /\ IF m.busy[p] \ (0 .. Reserved(size) - 1) # {}
        THEN MemoryIs(m) /\ UNCHANGED << total, pfree >>
        ELSE /\ MemoryIs(FreePages(m, p, 1))
             /\ total' = [total EXCEPT ![size] = @ - (NumberOf(size) - Reserved(size))]
             /\ pfree' = pfree + 1
     /\ used' = [used EXCEPT ![size] = @ - 1]
     /\ Freed(addr)

(* Pages. *)
FreeRun(addr) ==
  LET p == addr \div PageSize
  IN /\ type[p] = "page"
     /\ addr % PageSize = 0 /\ slab[p].tag = "start"
     /\ MemoryIs(FreePages(Memory, p, slab[p].n))
     /\ pfree' = pfree + slab[p].n
     /\ Freed(addr)
     /\ UNCHANGED stats

SlabNext ==
  \/ \E request \in SlabRequests : AllocChunk(request) \/ AllocPages(request)
  \/ \E addr \in Freeable : FreeChunk(addr) \/ FreeRun(addr)

SlabSpec == SlabInit /\ [][SlabNext]_slabVars

-----------------------------------------------------------------------------
SlabTypeOK ==
  /\ next \in [Nodes -> Nodes \cup {NULL}]
  /\ prev \in [Nodes -> Nodes \cup {NULL}]
  /\ type \in [PageNos -> {"page", "small", "exact", "big"}]
  /\ slab \in [PageNos -> [tag : {"run", "start", "tail", "chunks"}, n : 0 .. Pages * PageSize]]
  /\ busy \in [PageNos -> SUBSET (0 .. PageSize)]
  /\ total \in [Sizes -> Nat] /\ used \in [Sizes -> Nat]
  /\ pfree \in 0 .. Pages
  /\ unfreed \in 0 .. MaxLive

OnList(h) == Walk(h, {h}) \ {h}

Span(p) == p .. p + slab[p].n - 1

(* The pages that blocks or the chunks around them occupy. *)
Occupied ==
  {p \in PageNos : type[p] # "page"} \cup
  UNION {b.addr \div PageSize .. (b.addr + b.len - 1) \div PageSize : b \in live}

(* The runs of the free list are the pages that nothing occupies, each as  *)
(* long as it can be: neighbours that are free are one run, so that an     *)
(* allocation fails only if there are not so many free pages in a row      *)
(* (ngx_slab.c:1062-1113).                                                 *)
RunsAreMaximal ==
  /\ LET free == OnList(FreeList)
     IN /\ UNION {Span(p) : p \in free} = PageNos \ Occupied
        /\ \A p, q \in free : p # q => p + slab[p].n # q /\ Span(p) \cap Span(q) = {}
  /\ pfree = Cardinality(PageNos \ Occupied)

(* Each list can be walked both ways, and the last page of a free run      *)
(* leads to the first, which is how the run is found from the right        *)
(* (ngx_slab.c:1094, 1118).                                                *)
ListsAreLinked ==
  /\ \A p \in OnList(FreeList) \cup UNION {OnList(Slot(size)) : size \in Sizes} :
       next[prev[p]] = p /\ (next[p] \in PageNos => prev[next[p]] = p)
  /\ \A p \in OnList(FreeList) :
       p > 0 /\ slab[p].n > 1 /\ slab[p].n < Pages => prev[p + slab[p].n - 1] = p

(* A page is in the list of its slot exactly while it has a chunk to give  *)
(* (ngx_slab.c:400, 438, 476, 711, 773, 824): otherwise memory would be    *)
(* lost, or the search would end in "page is busy".                        *)
SlotsOfferRoom ==
  \A size \in Sizes :
    OnList(Slot(size)) =
      {p \in PageNos : /\ type[p] # "page" /\ slab[p].n = size
                       /\ busy[p] # Whole(size)}

(* The bits of the bitmap are those of the blocks, and of the chunks that  *)
(* hold the bitmap itself: "n" elements for bitmap, plus one requested     *)
(* (ngx_slab.c:519).                                                       *)
BitmapIsReserved ==
  \A p \in PageNos : type[p] # "page" =>
    busy[p] = (0 .. Reserved(slab[p].n) - 1)
                \cup {(b.addr % PageSize) \div b.len :
                        b \in {b \in live : b.addr \div PageSize = p}}

(* The counters of a slot agree with its pages and blocks. *)
StatsAreTrue ==
  \A size \in Sizes :
    /\ used[size] = Cardinality({b \in live : b.len = size})
    /\ total[size] = (NumberOf(size) - Reserved(size))
                       * Cardinality({p \in PageNos : type[p] # "page" /\ slab[p].n = size})

(* What the next call relies on: links, bitmaps and counters agree, the    *)
(* free list has all that is free in runs as long as they can be, and each *)
(* slot offers the pages that have room.                                   *)
SlabIsSound ==
  /\ SlabTypeOK /\ ListsAreLinked /\ BitmapIsReserved /\ StatsAreTrue
  /\ RunsAreMaximal /\ SlotsOfferRoom

(* Blocks never overlap and lie in the pool; freeing the same block twice  *)
(* frees nothing else.                                                     *)
A == INSTANCE Allocator WITH Limit <- Pages * PageSize, held <- unfreed
ImplementsAllocator == A!Spec
=============================================================================
