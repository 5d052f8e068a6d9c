-------------------------------- MODULE Pool --------------------------------
(***************************************************************************)
(* Memory pools (ngx_palloc.c): small pieces are cut from a list of        *)
(* blocks, large ones come from malloc() and are listed; everything is     *)
(* freed with the pool, after its cleanup handlers have run.               *)
(*                                                                         *)
(* A block has PoolSize units and begins with its header; blocks that      *)
(* malloc() gives are numbered.                                            *)
(***************************************************************************)
EXTENDS Integers, Sequences, FiniteSets, Functions

CONSTANTS
  PoolSize,    (* the units of a block *)
  PoolFails,   (* the failures after which a block is passed over: 4 in ngx_palloc_block() *)
  PoolOps      (* bound on the operations on the pool *)

VARIABLES
  pool

(* The units of ngx_pool_t and of the header of a further block, and the   *)
(* boundary that ngx_palloc() aligns to.                                   *)
PoolHeader == 3
DataHeader == 1
Align(n) == n + (n % 2)

MaxSmall == PoolSize - PoolHeader

(* NGX_MIN_POOL_SIZE: the header and the nodes of two large pieces. *)
ASSUME PoolAssumption ==
  PoolSize \in Nat /\ PoolSize >= PoolHeader + 2 /\ PoolFails \in Nat /\ PoolOps \in Nat

(* ngx_create_pool() *)
PoolInit ==
  pool = [blocks |-> << [last |-> PoolHeader, failed |-> 0] >>, current |-> 1,
          large |-> << >>,       (* the list; 0 stands for memory that is free again *)
          cleanup |-> << >>,
          heap |-> {},           (* the memory that malloc() has given *)
          next |-> 1, ops |-> 0, alive |-> TRUE,
          pieces |-> << >>,         (* history: what the callers hold in the blocks *)
          ran |-> {}, again |-> {}] (* history: the cleanup handlers that ran, and those that ran twice *)

-----------------------------------------------------------------------------

(* Fault of FitsIn: the room is measured before the alignment. *)
FitsInUnaligned(p, b, size, align) == PoolSize - p.blocks[b].last >= size

StartOf(p, b, align) == IF align THEN Align(p.blocks[b].last) ELSE p.blocks[b].last
FitsIn(p, b, size, align) == PoolSize - StartOf(p, b, align) >= size

Cut(p, b, from, size) ==
  [p EXCEPT !.blocks[b].last = from + size,
            !.pieces = Append(@, [block |-> b, from |-> from, to |-> from + size - 1])]

(* ngx_palloc_block(): every block passed over has failed once more, and   *)
(* the search begins after the last of those that failed too often.        *)
PassedOver(p) == p.current .. Len(p.blocks) - 1
CurrentAfter(p) ==
  LET worn == {b \in PassedOver(p) : p.blocks[b].failed > PoolFails}
  IN IF worn = {} THEN p.current ELSE 1 + CHOOSE b \in worn : \A o \in worn : o <= b
FailedOnceMore(p) ==
  [b \in DOMAIN p.blocks |-> IF b \in PassedOver(p) THEN [p.blocks[b] EXCEPT !.failed = @ + 1] ELSE p.blocks[b]]
AddBlock(p) ==
  [p EXCEPT !.blocks = Append(FailedOnceMore(p), [last |-> DataHeader, failed |-> 0]),
            !.current = CurrentAfter(p)]
PallocBlock(p, size) == Cut(AddBlock(p), Len(p.blocks) + 1, Align(DataHeader), size)

PallocSmall(p, size, align) ==
  LET roomy == {b \in p.current .. Len(p.blocks) : FitsIn(p, b, size, align)}
      first == CHOOSE b \in roomy : \A o \in roomy : b <= o
  IN IF roomy = {} THEN PallocBlock(p, size) ELSE Cut(p, first, StartOf(p, first, align), size)

(* The memory joins the list, its node is a piece of a block. *)
ListLarge(p) ==
  [PallocSmall(p, 1, TRUE) EXCEPT !.large = << p.next >> \o @, !.heap = @ \cup {p.next}, !.next = @ + 1]

(* ngx_palloc_large(): one of the first five nodes may be free again. *)
PallocLarge(p) ==
  LET empty == {i \in DOMAIN p.large : i <= 5 /\ p.large[i] = 0}
      first == CHOOSE i \in empty : \A o \in empty : i <= o
  IN IF empty = {} THEN ListLarge(p)
     ELSE [p EXCEPT !.large[first] = p.next, !.heap = @ \cup {p.next}, !.next = @ + 1]

Palloc(p, size, align) == IF size <= MaxSmall THEN PallocSmall(p, size, align) ELSE PallocLarge(p)

-----------------------------------------------------------------------------

Op == pool.alive /\ pool.ops < PoolOps
Does(q) == pool' = [q EXCEPT !.ops = @ + 1]

(* The handlers of the files fds run. *)
RunCleanup(p, fds) == [p EXCEPT !.again = @ \cup (p.ran \cap fds), !.ran = @ \cup fds]

(* ngx_palloc(), ngx_pcalloc() and ngx_pnalloc() *)
Alloc == Op /\ \E size \in 1 .. MaxSmall + 1, align \in BOOLEAN : Does(Palloc(pool, size, align))

(* ngx_pmemalign() *)
Pmemalign == Op /\ Does(ListLarge(pool))

(* ngx_pfree() *)
Pfree ==
  Op /\ \E m \in pool.heap :
    Does([pool EXCEPT !.heap = @ \ {m}, !.large = [i \in DOMAIN @ |-> IF @[i] = m THEN 0 ELSE @[i]]])

(* ngx_pool_cleanup_add() and a handler that closes the file fd *)
CleanupAdd ==
  Op /\ Does([PallocSmall(PallocSmall(pool, 2, TRUE), 1, TRUE) EXCEPT
                 !.cleanup = << [fd |-> pool.next, handler |-> TRUE] >> \o @, !.next = @ + 1])

(* ngx_pool_run_cleanup_file(); its loop does not advance, it returns when *)
(* the first of the list is the one.                                       *)
RunCleanupFile ==
  /\ Op /\ pool.cleanup # << >> /\ pool.cleanup[1].handler
  /\ Does([RunCleanup(pool, {pool.cleanup[1].fd}) EXCEPT !.cleanup[1].handler = FALSE])

(* ngx_reset_pool(), of a pool without cleanup handlers *)
ResetPool ==
  /\ Op /\ pool.cleanup = << >>
  /\ Does([pool EXCEPT !.heap = @ \ Range(pool.large), !.large = << >>, !.current = 1, !.pieces = << >>,
                       !.blocks = [b \in DOMAIN @ |-> [last |-> PoolHeader, failed |-> 0]]])

(* ngx_destroy_pool() *)
DestroyPool ==
  /\ pool.alive
  /\ pool' = [RunCleanup(pool, {c.fd : c \in {d \in Range(pool.cleanup) : d.handler}})
               EXCEPT !.alive = FALSE, !.heap = @ \ Range(pool.large), !.large = << >>,
                      !.cleanup = << >>, !.blocks = << >>, !.pieces = << >>]

PoolNext ==
  Alloc \/ Pmemalign \/ Pfree \/ CleanupAdd \/ RunCleanupFile \/ ResetPool \/ DestroyPool

PoolSpec == PoolInit /\ [][PoolNext]_pool

-----------------------------------------------------------------------------

(* What a pool has handed out never overlaps, also not with a header,      *)
(* after an alignment or a reset, and lies within its block; the memory of *)
(* malloc() is listed once each until it is freed, so that none is left    *)
(* when the pool is gone; a cleanup handler runs once (ngx_palloc_small,   *)
(* ngx_palloc_large, ngx_pfree, ngx_destroy_pool).                         *)
PoolIsSound ==
  /\ \A i \in DOMAIN pool.pieces :
       LET x == pool.pieces[i] IN
       /\ x.from >= (IF x.block = 1 THEN PoolHeader ELSE DataHeader) /\ x.to < PoolSize
       /\ \A j \in 1 .. i - 1 :
            LET y == pool.pieces[j] IN x.block = y.block => x.to < y.from \/ y.to < x.from
  /\ pool.heap = Range(pool.large) \ {0}
  /\ \A i, j \in DOMAIN pool.large : pool.large[i] = pool.large[j] /\ pool.large[i] # 0 => i = j
  /\ pool.again = {}
=============================================================================
