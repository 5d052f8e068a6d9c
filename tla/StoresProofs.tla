---------------------------- MODULE StoresProofs ----------------------------
(***************************************************************************)
(* Proofs about Pool, for blocks of any size and any number of operations, *)
(* and about OpenFileCache, for any names, requests and descriptors.       *)
(***************************************************************************)
EXTENDS Pool, OpenFileCache, FiniteSetTheorems, WellFoundedInduction, TLAPS

-----------------------------------------------------------------------------

Places == [last : Nat, failed : Nat]
Piece == [block : Nat, from : Nat, to : Nat]
Handlers == [fd : Nat, handler : BOOLEAN]

Pools == [blocks : Seq(Places), current : Nat, large : Seq(Nat), cleanup : Seq(Handlers),
          heap : SUBSET Nat, next : Nat, ops : Nat, alive : BOOLEAN, pieces : Seq(Piece),
          ran : SUBSET Nat, again : SUBSET Nat]

HeaderOf(b) == IF b = 1 THEN PoolHeader ELSE DataHeader

(* `last` lies in each block, and nothing has been handed out after it.    *)
BlocksOK(p) ==
  /\ p.alive => p.current \in DOMAIN p.blocks
  /\ \A b \in DOMAIN p.blocks : HeaderOf(b) <= p.blocks[b].last /\ p.blocks[b].last <= PoolSize

PieceLies(p, x) ==
  x.block \in DOMAIN p.blocks /\ x.from >= HeaderOf(x.block) /\ x.to < p.blocks[x.block].last

(* The pieces of a block were handed out from left to right.               *)
PiecesOK(p) ==
  /\ \A i \in DOMAIN p.pieces : PieceLies(p, p.pieces[i])
  /\ \A i, j \in DOMAIN p.pieces :
       j < i /\ p.pieces[j].block = p.pieces[i].block => p.pieces[j].to < p.pieces[i].from

(* Large pieces, with numbers that no later one will have.                 *)
LargeOK(p) ==
  /\ p.heap = Range(p.large) \ {0}
  /\ \A i, j \in DOMAIN p.large : p.large[i] = p.large[j] /\ p.large[i] # 0 => i = j
  /\ \A i \in DOMAIN p.large : p.large[i] < p.next

(* Of each file, one handler is listed; one that ran is not left in place. *)
CleanupOK(p) ==
  /\ \A i, j \in DOMAIN p.cleanup : p.cleanup[i].fd = p.cleanup[j].fd => i = j
  /\ \A i \in DOMAIN p.cleanup :
       p.cleanup[i].fd < p.next /\ (p.cleanup[i].handler => p.cleanup[i].fd \notin p.ran)
  /\ \A fd \in p.ran : fd < p.next
  /\ p.again = {}

Laid(p) == p \in Pools /\ BlocksOK(p) /\ PiecesOK(p)

Whole(p) == Laid(p) /\ p.next > 0 /\ LargeOK(p) /\ CleanupOK(p)

PoolInv == Whole(pool)

-----------------------------------------------------------------------------
(* Pieces of blocks. *)

(* The rest of the pool. *)
Kept(q, p) ==
  /\ q.large = p.large /\ q.cleanup = p.cleanup /\ q.heap = p.heap /\ q.next = p.next
  /\ q.ops = p.ops /\ q.alive = p.alive /\ q.ran = p.ran /\ q.again = p.again

(* The next piece of a block begins where the last ended, or later. *)
LEMMA CutLies ==
  ASSUME NEW p, Laid(p), NEW b \in DOMAIN p.blocks, NEW from \in Nat, NEW size \in Nat \ {0},
         p.blocks[b].last <= from, from + size <= PoolSize
  PROVE  Laid(Cut(p, b, from, size)) /\ Kept(Cut(p, b, from, size), p)
  <1> DEFINE q == Cut(p, b, from, size)
             x == [block |-> b, from |-> from, to |-> from + size - 1]
  <1>1. /\ p \in Pools /\ p.blocks \in Seq(Places) /\ p.pieces \in Seq(Piece)
        /\ Len(p.blocks) \in Nat /\ Len(p.pieces) \in Nat /\ b \in 1 .. Len(p.blocks)
        /\ DOMAIN p.pieces = 1 .. Len(p.pieces) /\ DOMAIN p.blocks = 1 .. Len(p.blocks)
    BY DEF Laid, Pools
  <1>2. from + size \in Nat /\ from + size - 1 \in Nat /\ from < from + size
        /\ from + size - 1 < from + size /\ PoolSize \in Nat
    BY PoolAssumption
  <1>3. PICK place : place = [p.blocks[b] EXCEPT !.last = from + size]
    OBVIOUS
  <1>a. p.blocks[b] \in Places
    BY <1>1
  <1>b. place \in Places /\ place.last = from + size
    BY <1>2, <1>3, <1>a DEF Places
  <1>c. PICK blocks : blocks = [p.blocks EXCEPT ![b] = place]
    OBVIOUS
  <1>4. /\ blocks \in Seq(Places) /\ DOMAIN blocks = DOMAIN p.blocks
        /\ blocks[b].last = from + size
        /\ \A a \in DOMAIN p.blocks : a # b => blocks[a] = p.blocks[a]
    BY <1>1, <1>b, <1>c
  <1>5. PICK pieces : pieces = Append(p.pieces, x)
    OBVIOUS
  <1>6. x \in Piece
    BY <1>1, <1>2 DEF Piece
  <1>7. /\ pieces \in Seq(Piece) /\ DOMAIN pieces = 1 .. Len(p.pieces) + 1
        /\ pieces[Len(p.pieces) + 1] = x
        /\ \A i \in DOMAIN p.pieces : pieces[i] = p.pieces[i]
    BY <1>1, <1>5, <1>6
  <1>8. q = [p EXCEPT !.blocks = blocks, !.pieces = pieces]
    BY <1>1, <1>3, <1>5, <1>c DEF Cut, Pools
  <1>9. q \in Pools /\ q.blocks = blocks /\ q.pieces = pieces /\ q.current = p.current /\ Kept(q, p)
    BY <1>1, <1>4, <1>7, <1>8 DEF Pools, Kept
  <1> HIDE DEF q, x
  <1>10. p.blocks[b].last \in Nat /\ HeaderOf(b) \in Nat
    BY <1>a DEF Places, HeaderOf, PoolHeader, DataHeader
  <1>11. HeaderOf(b) <= p.blocks[b].last
    BY DEF Laid, BlocksOK
  <1>12. HeaderOf(b) <= from /\ HeaderOf(b) <= from + size
    BY <1>2, <1>10, <1>11
  <1>13. BlocksOK(q)
    BY <1>4, <1>9, <1>12 DEF Laid, BlocksOK, Kept
  <1>14. x.block = b /\ x.from = from /\ x.to = from + size - 1
    BY DEF x
  <1>15. \A i \in DOMAIN p.pieces : p.pieces[i] \in Piece /\ PieceLies(p, p.pieces[i])
    BY <1>1 DEF Laid, PiecesOK
  <1>16. ASSUME NEW i \in DOMAIN p.pieces
         PROVE  /\ PieceLies(q, p.pieces[i])
                /\ p.pieces[i].block = b => p.pieces[i].to < from
    <2>1. p.pieces[i] \in Piece /\ PieceLies(p, p.pieces[i])
      BY <1>15
    <2>2. CASE p.pieces[i].block = b
      <3>1. p.pieces[i].to \in Nat /\ p.pieces[i].to < p.blocks[b].last
        BY <2>1, <2>2 DEF Piece, PieceLies
      <3>2. p.pieces[i].to < from /\ p.pieces[i].to < from + size
        BY <1>2, <1>10, <3>1
      <3> QED
        BY <1>4, <1>9, <2>1, <2>2, <3>2 DEF PieceLies
    <2>3. CASE p.pieces[i].block # b
      BY <1>4, <1>9, <2>1, <2>3 DEF PieceLies
    <2> QED
      BY <2>2, <2>3
  <1>17. PieceLies(q, x)
    BY <1>2, <1>4, <1>9, <1>12, <1>14 DEF PieceLies
  <1>18. ASSUME NEW i \in DOMAIN pieces
         PROVE  PieceLies(q, pieces[i])
    <2>1. i \in DOMAIN p.pieces \/ i = Len(p.pieces) + 1
      BY <1>1, <1>7
    <2> QED
      BY <1>7, <1>16, <1>17, <2>1
  <1>19. ASSUME NEW i \in DOMAIN pieces, NEW j \in DOMAIN pieces, j < i,
                pieces[j].block = pieces[i].block
         PROVE  pieces[j].to < pieces[i].from
    <2> \A n \in Nat : \A k, m \in 1 .. n + 1 : m < k => m \in 1 .. n /\ (k \in 1 .. n \/ k = n + 1)
      OBVIOUS
    <2>1. j \in DOMAIN p.pieces /\ (i \in DOMAIN p.pieces \/ i = Len(p.pieces) + 1)
      BY <1>1, <1>7, <1>19, Zenon
    <2>2. CASE i \in DOMAIN p.pieces
      BY <1>7, <1>19, <2>1, <2>2 DEF Laid, PiecesOK
    <2>3. CASE i = Len(p.pieces) + 1
      BY <1>7, <1>14, <1>16, <1>19, <2>1, <2>3
    <2> QED
      BY <2>1, <2>2, <2>3
  <1>20. PiecesOK(q)
    BY <1>9, <1>18, <1>19 DEF PiecesOK
  <1> QED
    BY <1>9, <1>13, <1>20 DEF Laid, q

(* The least element of a set of numbers, which stands for induction. *)
LEMMA LeastNumber ==
  ASSUME NEW T \in SUBSET Nat, T # {}
  PROVE  \E x \in T : \A y \in T : x <= y
  <1> DEFINE Upto == {1 .. x : x \in T}
             R == StrictSubsetOrdering(Nat)
  <1>1. Upto \subseteq FiniteSubsetsOf(Nat) /\ Upto # {}
    <2>1. \A x \in T : 1 .. x \in SUBSET Nat /\ IsFiniteSet(1 .. x)
      BY FS_Interval
    <2> QED
      BY <2>1 DEF FiniteSubsetsOf
  <1>2. IsWellFoundedOn(R, FiniteSubsetsOf(Nat))
    BY FS_StrictSubsetOrderingWellFounded
  <1>3. \E U \in Upto : \A V \in Upto : ~ << V, U >> \in R
    <2> HIDE DEF Upto, R
    <2> QED
      BY <1>1, <1>2, WFMin
  <1>4. PICK x \in T : \A y \in T : << 1 .. y, 1 .. x >> \notin R
    BY <1>3
  <1>5. ASSUME NEW y \in T, y < x
        PROVE  FALSE
    <2>1. 1 .. y \subseteq 1 .. x /\ x \in 1 .. x /\ x \notin 1 .. y
      BY <1>5
    <2>2. << 1 .. y, 1 .. x >> \in R
      BY <2>1 DEF StrictSubsetOrdering
    <2> QED
      BY <1>4, <2>2
  <1> QED
    BY <1>5

(* A set of numbers below a bound has a largest one. *)
LEMMA LargestNumber ==
  ASSUME NEW n \in Nat, NEW T \in SUBSET (0 .. n), T # {}
  PROVE  \E x \in T : \A y \in T : y <= x
  <1> DEFINE U == {n - x : x \in T}
  <1>1. U \in SUBSET Nat /\ U # {}
    OBVIOUS
  <1> HIDE DEF U
  <1>2. PICK u \in U : \A v \in U : u <= v
    BY <1>1, LeastNumber
  <1>3. PICK x \in T : u = n - x
    BY <1>2 DEF U
  <1>4. \A y \in T : n - x <= n - y
    BY <1>2, <1>3 DEF U
  <1>5. \A y \in T : y <= x
    BY <1>4
  <1> QED
    BY <1>5

(* A further block changes nothing of the blocks before it, but the counts *)
(* of their failures.                                                      *)
LEMMA BlockLies ==
  ASSUME NEW p, Laid(p), p.alive, NEW size \in 1 .. MaxSmall
  PROVE  Laid(PallocBlock(p, size)) /\ Kept(PallocBlock(p, size), p)
  <1> DEFINE n == Len(p.blocks)
             worn == {b \in PassedOver(p) : p.blocks[b].failed > PoolFails}
             current == CurrentAfter(p)
             head == FailedOnceMore(p)
             new == [last |-> DataHeader, failed |-> 0]
             blocks == Append(head, new)
             q == AddBlock(p)
  <1>1. /\ p \in Pools /\ p.blocks \in Seq(Places) /\ p.pieces \in Seq(Piece)
        /\ p.current \in 1 .. n /\ n \in Nat /\ DOMAIN p.blocks = 1 .. n
    BY DEF Laid, Pools, BlocksOK
  <1>2. current \in 1 .. n
    <2>1. CASE worn = {}
      BY <1>1, <2>1 DEF CurrentAfter
    <2>2. CASE worn # {}
      <3>1. worn \in SUBSET (0 .. n)
        BY <1>1 DEF PassedOver
      <3>2. \E b \in worn : \A o \in worn : o <= b
        <4> HIDE DEF worn
        <4> QED
          BY <1>1, <2>2, <3>1, LargestNumber
      <3>3. (CHOOSE b \in worn : \A o \in worn : o <= b) \in worn
        BY <3>2
      <3>4. (CHOOSE b \in worn : \A o \in worn : o <= b) \in p.current .. n - 1
        BY <3>3 DEF PassedOver
      <3>5. \A b \in p.current .. n - 1 : 1 + b \in 1 .. n
        BY <1>1
      <3> QED
        BY <2>2, <3>4, <3>5 DEF CurrentAfter
    <2> QED
      BY <2>1, <2>2
  <1>3. \A b \in 1 .. n : head[b] \in Places /\ head[b].last = p.blocks[b].last
    <2> SUFFICES ASSUME NEW b \in 1 .. n
                 PROVE  head[b] \in Places /\ head[b].last = p.blocks[b].last
      OBVIOUS
    <2>1. p.blocks[b] \in Places
      BY <1>1
    <2>2. /\ [p.blocks[b] EXCEPT !.failed = @ + 1] \in Places
          /\ [p.blocks[b] EXCEPT !.failed = @ + 1].last = p.blocks[b].last
      BY <2>1 DEF Places
    <2> QED
      BY <1>1, <2>1, <2>2, Zenon DEF FailedOnceMore
  <1>4. head \in Seq(Places) /\ Len(head) = n /\ DOMAIN head = 1 .. n
    <2>1. DOMAIN head = 1 .. n /\ head = [b \in 1 .. n |-> head[b]]
      BY <1>1 DEF FailedOnceMore
    <2> HIDE DEF head
    <2>2. head \in [1 .. n -> Places]
      BY <1>3, <2>1
    <2>3. \A m \in Nat : \A f \in [1 .. m -> Places] : f \in Seq(Places) /\ Len(f) = m
      OBVIOUS
    <2> QED
      BY <1>1, <2>1, <2>2, <2>3
  <1>5. new \in Places /\ new.last = DataHeader
    BY DEF Places, DataHeader
  <1> HIDE DEF head, new
  <1>6. /\ blocks \in Seq(Places) /\ Len(blocks) = n + 1 /\ DOMAIN blocks = 1 .. n + 1
        /\ blocks[n + 1] = new /\ \A b \in 1 .. n : blocks[b] = head[b]
    BY <1>1, <1>4, <1>5
  <1> HIDE DEF blocks, current
  <1>7. q \in Pools /\ q.blocks = blocks /\ q.current = current /\ q.pieces = p.pieces /\ Kept(q, p)
    <2>1. current \in Nat
      BY <1>1, <1>2
    <2> HIDE DEF worn
    <2> QED
      BY <1>1, <1>6, <2>1 DEF Pools, Kept, AddBlock, blocks, head, new, current
  <1> HIDE DEF q
  <1>8. \A b \in 1 .. n : b \in 1 .. n + 1 /\ b # n + 1 /\ blocks[b].last = p.blocks[b].last
    BY <1>1, <1>3, <1>6
  <1>9. n + 1 # 1 /\ n + 1 \in 1 .. n + 1 /\ HeaderOf(n + 1) = DataHeader
    BY <1>1 DEF HeaderOf
  <1>10. BlocksOK(q)
    <2>1. q.current \in DOMAIN q.blocks
      BY <1>1, <1>2, <1>6, <1>7
    <2>2. ASSUME NEW b \in 1 .. n + 1
          PROVE  HeaderOf(b) <= blocks[b].last /\ blocks[b].last <= PoolSize
      <3>1. CASE b \in 1 .. n
        BY <1>1, <1>8, <3>1 DEF Laid, BlocksOK
      <3>2. CASE b = n + 1
        BY <1>5, <1>6, <1>9, <3>2, PoolAssumption DEF DataHeader, PoolHeader
      <3> QED
        BY <1>1, <3>1, <3>2
    <2> QED
      BY <1>6, <1>7, <2>1, <2>2 DEF BlocksOK
  <1>11. PiecesOK(q)
    BY <1>1, <1>6, <1>7, <1>8 DEF Laid, PiecesOK, PieceLies
  <1>12. Align(DataHeader) = 2 /\ size \in Nat \ {0} /\ 2 + size <= PoolSize
    BY PoolAssumption DEF Align, DataHeader, MaxSmall, PoolHeader
  <1>13. Laid(q) /\ n + 1 \in DOMAIN q.blocks /\ q.blocks[n + 1].last <= 2
    BY <1>5, <1>6, <1>7, <1>9, <1>10, <1>11 DEF Laid, DataHeader
  <1>14. Laid(Cut(q, n + 1, 2, size)) /\ Kept(Cut(q, n + 1, 2, size), q)
    BY <1>12, <1>13, CutLies
  <1>15. PallocBlock(p, size) = Cut(q, n + 1, 2, size)
    BY <1>12 DEF PallocBlock, q
  <1> QED
    BY <1>7, <1>14, <1>15 DEF Kept

(* ngx_palloc_small(): a piece goes into the first block with room, or     *)
(* into a new one.                                                         *)
LEMMA SmallLies ==
  ASSUME NEW p, Laid(p), p.alive, NEW size \in 1 .. MaxSmall, NEW align \in BOOLEAN
  PROVE  Laid(PallocSmall(p, size, align)) /\ Kept(PallocSmall(p, size, align), p)
  <1> DEFINE roomy == {b \in p.current .. Len(p.blocks) : FitsIn(p, b, size, align)}
             first == CHOOSE b \in roomy : \A o \in roomy : b <= o
             from == StartOf(p, first, align)
  <1>1. /\ p \in Pools /\ p.blocks \in Seq(Places) /\ Len(p.blocks) \in Nat
        /\ p.current \in 1 .. Len(p.blocks) /\ DOMAIN p.blocks = 1 .. Len(p.blocks)
    BY DEF Laid, Pools, BlocksOK
  <1>2. CASE roomy = {}
    BY <1>2, BlockLies DEF PallocSmall
  <1>3. CASE roomy # {}
    <2>1. roomy \in SUBSET Nat
      BY <1>1
    <2>2. first \in roomy
      <3>1. \E b \in roomy : \A o \in roomy : b <= o
        <4> HIDE DEF roomy
        <4> QED
          BY <1>3, <2>1, LeastNumber
      <3> QED
        BY <3>1
    <2>3. first \in DOMAIN p.blocks /\ FitsIn(p, first, size, align)
      BY <1>1, <2>2
    <2>4. PallocSmall(p, size, align) = Cut(p, first, from, size)
      BY <1>3 DEF PallocSmall
    <2> HIDE DEF roomy, first
    <2>5. p.blocks[first] \in Places
      BY <1>1, <2>3
    <2>6. p.blocks[first].last \in Nat /\ size \in Nat \ {0} /\ PoolSize \in Nat
      BY <2>5, PoolAssumption DEF Places, MaxSmall
    <2>7. \A k \in Nat : Align(k) \in Nat /\ k <= Align(k)
      BY DEF Align
    <2>8. from \in Nat /\ p.blocks[first].last <= from
      BY <2>6, <2>7 DEF StartOf
    <2>9. from + size <= PoolSize
      <3>1. PoolSize - from >= size
        BY <2>3 DEF FitsIn
      <3> QED
        BY <2>6, <2>8, <3>1
    <2> HIDE DEF from
    <2> QED
      BY <2>3, <2>4, <2>6, <2>8, <2>9, CutLies
  <1> QED
    BY <1>2, <1>3

(* A small piece lets the large pieces and the cleanups be.                *)
LEMMA SmallKeeps ==
  ASSUME NEW p, Whole(p), p.alive, NEW size \in 1 .. MaxSmall, NEW align \in BOOLEAN
  PROVE  Whole(PallocSmall(p, size, align)) /\ Kept(PallocSmall(p, size, align), p)
  <1> DEFINE q == PallocSmall(p, size, align)
  <1>1. Laid(q) /\ Kept(q, p)
    BY SmallLies DEF Whole
  <1> HIDE DEF q
  <1>2. q.next > 0 /\ LargeOK(q) /\ CleanupOK(q)
    BY <1>1 DEF Kept, Whole, LargeOK, CleanupOK
  <1> QED
    BY <1>1, <1>2 DEF Whole, q

-----------------------------------------------------------------------------
(* Large pieces and cleanup handlers. *)

(* A list with one more element at its head.                               *)
LEMMA PrependedIs ==
  ASSUME NEW S, NEW s \in Seq(S), NEW x \in S
  PROVE  /\ << x >> \o s \in Seq(S) /\ DOMAIN (<< x >> \o s) = 1 .. Len(s) + 1
         /\ (<< x >> \o s)[1] = x
         /\ \A i \in DOMAIN (<< x >> \o s) : i # 1 => /\ i - 1 \in DOMAIN s
                                                    /\ (<< x >> \o s)[i] = s[i - 1]
         /\ Range(<< x >> \o s) = Range(s) \cup {x}
  <1> DEFINE r == << x >> \o s
  <1>1. r \in Seq(S) /\ DOMAIN r = 1 .. Len(s) + 1 /\ r[1] = x /\ DOMAIN s = 1 .. Len(s) /\ Len(s) \in Nat
    OBVIOUS
  <1>2. \A i \in 1 .. Len(s) + 1 : i # 1 => i - 1 \in DOMAIN s /\ r[i] = s[i - 1]
    OBVIOUS
  <1>3. \A i \in 1 .. Len(s) : i + 1 \in DOMAIN r /\ r[i + 1] = s[i]
    OBVIOUS
  <1> HIDE DEF r
  <1>4. 1 \in DOMAIN r
    BY <1>1
  <1>5. Range(r) = Range(s) \cup {x}
    <2>1. ASSUME NEW i \in DOMAIN r
          PROVE  r[i] \in Range(s) \cup {x}
      BY <1>1, <1>2, Zenon DEF Range
    <2>2. \A i \in DOMAIN s : s[i] \in Range(r)
      BY <1>1, <1>3, Zenon DEF Range
    <2>3. x \in Range(r)
      BY <1>1, <1>4, Zenon DEF Range
    <2> QED
      BY <2>1, <2>2, <2>3 DEF Range
  <1> QED
    BY <1>1, <1>2, <1>5 DEF r

(* The lists of p with another memory, and q with the list of p that has a *)
(* new number.                                                             *)
Listed(q, p, large) ==
  /\ q.large = large /\ q.heap = p.heap \cup {p.next} /\ q.next = p.next + 1
  /\ q.cleanup = p.cleanup /\ q.ran = p.ran /\ q.again = p.again

(* The list of large pieces may lose zeros and get the piece with the next *)
(* number.                                                                 *)
LEMMA ListedOK ==
  ASSUME NEW p, Whole(p), NEW q, NEW large \in Seq(Nat), Listed(q, p, large),
         NEW k \in DOMAIN large, large[k] = p.next,
         \A i, j \in DOMAIN large \ {k} : large[i] = large[j] /\ large[i] # 0 => i = j,
         \A i \in DOMAIN large \ {k} : large[i] < p.next,
         Range(large) \ {0} = (Range(p.large) \ {0}) \cup {p.next}
  PROVE  q.next > 0 /\ LargeOK(q) /\ CleanupOK(q)
  <1>1. p.next \in Nat /\ p.next > 0 /\ p.ran \in SUBSET Nat /\ p.cleanup \in Seq(Handlers)
    BY DEF Whole, Laid, Pools
  <1>2. q.next = p.next + 1 /\ q.next > 0
    BY <1>1 DEF Listed
  <1>3. LargeOK(q)
    <2>1. q.heap = Range(q.large) \ {0}
      BY DEF Listed, Whole, LargeOK
    <2>2. \A i \in DOMAIN large : large[i] \in Nat /\ large[i] < p.next + 1
      BY <1>1
    <2>3. \A i \in DOMAIN large : i # k => large[i] # p.next
      BY <1>1
    <2>4. \A i, j \in DOMAIN large : large[i] = large[j] /\ large[i] # 0 => i = j
      BY <2>3
    <2> QED
      BY <2>1, <2>2, <2>4 DEF Listed, LargeOK
  <1>4. CleanupOK(q)
    <2>1. \A i \in DOMAIN p.cleanup : p.cleanup[i] \in Handlers
      BY <1>1
    <2>2. \A n \in Nat : n < p.next => n < p.next + 1
      BY <1>1
    <2>3. CleanupOK(p)
      BY DEF Whole
    <2>4. \A i \in DOMAIN p.cleanup : p.cleanup[i].fd < p.next + 1
      BY <2>1, <2>2, <2>3 DEF CleanupOK, Handlers
    <2>5. \A fd \in p.ran : fd < p.next + 1
      BY <1>1, <2>2, <2>3 DEF CleanupOK
    <2> QED
      BY <1>2, <2>3, <2>4, <2>5 DEF CleanupOK, Listed
  <1> QED
    BY <1>2, <1>3, <1>4

(* ngx_palloc_large() and ngx_pmemalign(): a new element of the list is a  *)
(* small piece itself.                                                     *)
LEMMA ListLargeLies ==
  ASSUME NEW p, Whole(p), p.alive
  PROVE  Whole(ListLarge(p)) /\ ListLarge(p).alive
  <1> DEFINE r == PallocSmall(p, 1, TRUE)
             large == << p.next >> \o r.large
             q == ListLarge(p)
  <1>1. 1 \in 1 .. MaxSmall
    BY PoolAssumption DEF MaxSmall, PoolHeader
  <1>2. Whole(r) /\ Kept(r, p)
    BY <1>1, SmallKeeps
  <1>3. q = [r EXCEPT !.large = large, !.heap = r.heap \cup {p.next}, !.next = r.next + 1]
    BY DEF ListLarge
  <1> HIDE DEF r, q
  <1>4. /\ r \in Pools /\ p.next = r.next /\ r.next \in Nat /\ r.next > 0 /\ r.large \in Seq(Nat)
        /\ r.next + 1 \in Nat /\ r.alive
    BY <1>2 DEF Kept, Whole, Laid, Pools
  <1>5. /\ large \in Seq(Nat) /\ DOMAIN large = 1 .. Len(r.large) + 1 /\ large[1] = r.next
        /\ \A i \in DOMAIN large : i # 1 => i - 1 \in DOMAIN r.large /\ large[i] = r.large[i - 1]
        /\ Range(large) = Range(r.large) \cup {r.next}
    BY <1>4, PrependedIs
  <1>6. 1 \in DOMAIN large
    BY <1>4, <1>5
  <1> HIDE DEF large
  <1>7. q \in Pools /\ Listed(q, r, large) /\ q.alive /\ q.blocks = r.blocks /\ q.pieces = r.pieces /\ q.current = r.current
    BY <1>3, <1>4, <1>5 DEF Pools, Listed
  <1>8. Laid(q)
    BY <1>2, <1>4, <1>7 DEF Whole, Laid, BlocksOK, PiecesOK, PieceLies
  <1>9. LargeOK(r)
    BY <1>2 DEF Whole
  <1>10. \A i, j \in DOMAIN large \ {1} : large[i] = large[j] /\ large[i] # 0 => i = j
    <2> SUFFICES ASSUME NEW i \in DOMAIN large \ {1}, NEW j \in DOMAIN large \ {1},
                        large[i] = large[j], large[i] # 0
                 PROVE  i = j
      OBVIOUS
    <2>1. i - 1 = j - 1
      BY <1>5, <1>9 DEF LargeOK
    <2>2. i \in Int /\ j \in Int
      BY <1>5
    <2> QED
      BY <2>1, <2>2
  <1>11. \A i \in DOMAIN large \ {1} : large[i] < r.next
    BY <1>5, <1>9 DEF LargeOK
  <1>12. Range(large) \ {0} = (Range(r.large) \ {0}) \cup {r.next}
    BY <1>4, <1>5
  <1>13. q.next > 0 /\ LargeOK(q) /\ CleanupOK(q)
    BY <1>2, <1>5, <1>6, <1>7, <1>10, <1>11, <1>12, ListedOK
  <1> QED
    BY <1>7, <1>8, <1>13 DEF Whole, q

(* ngx_palloc_large(): the first empty element of the first five is used,  *)
(* or a new one.                                                           *)
LEMMA LargeLies ==
  ASSUME NEW p, Whole(p), p.alive
  PROVE  Whole(PallocLarge(p))
  <1> DEFINE empty == {i \in DOMAIN p.large : i <= 5 /\ p.large[i] = 0}
             first == CHOOSE i \in empty : \A o \in empty : i <= o
             large == [p.large EXCEPT ![first] = p.next]
             q == [p EXCEPT !.large[first] = p.next, !.heap = @ \cup {p.next}, !.next = @ + 1]
  <1>1. CASE empty = {}
    BY <1>1, ListLargeLies DEF PallocLarge
  <1>2. CASE empty # {}
    <2>1. PallocLarge(p) = q
      BY <1>2 DEF PallocLarge
    <2>2. /\ p \in Pools /\ p.large \in Seq(Nat) /\ p.next \in Nat /\ p.next > 0
          /\ DOMAIN p.large = 1 .. Len(p.large)
      BY DEF Whole, Laid, Pools
    <2>3. first \in DOMAIN p.large /\ p.large[first] = 0
      <3>1. empty \in SUBSET Nat
        BY <2>2
      <3>2. \E i \in empty : \A o \in empty : i <= o
        <4> HIDE DEF empty
        <4> QED
          BY <1>2, <3>1, LeastNumber
      <3>3. first \in empty
        BY <3>2
      <3> QED
        BY <3>3
    <2> HIDE DEF first
    <2>4. /\ large \in Seq(Nat) /\ DOMAIN large = DOMAIN p.large /\ large[first] = p.next
          /\ \A i \in DOMAIN large : i # first => large[i] = p.large[i]
      BY <2>2, <2>3
    <2>5. /\ q \in Pools /\ Listed(q, p, large) /\ q.blocks = p.blocks /\ q.pieces = p.pieces
          /\ q.current = p.current /\ q.alive = p.alive
      <3>1. q = [p EXCEPT !.large = large, !.heap = p.heap \cup {p.next}, !.next = p.next + 1]
        BY <2>2 DEF Pools
      <3>2. p.next + 1 \in Nat
        BY <2>2
      <3> HIDE DEF q, large
      <3> QED
        BY <2>2, <2>4, <3>1, <3>2 DEF Pools, Listed
    <2> HIDE DEF q, large
    <2>6. Laid(q)
      BY <2>2, <2>5 DEF Whole, Laid, BlocksOK, PiecesOK, PieceLies
    <2>7. LargeOK(p)
      BY DEF Whole
    <2>8. \A i, j \in DOMAIN large \ {first} : large[i] = large[j] /\ large[i] # 0 => i = j
      BY <2>4, <2>7 DEF LargeOK
    <2>9. \A i \in DOMAIN large \ {first} : large[i] < p.next
      BY <2>4, <2>7 DEF LargeOK
    <2>10. Range(large) \ {0} = (Range(p.large) \ {0}) \cup {p.next}
      <3>1. \A i \in DOMAIN large : large[i] = p.next \/ large[i] \in Range(p.large)
        BY <2>4 DEF Range
      <3>2. p.next \in Range(large) /\ p.next # 0
        BY <2>2, <2>3, <2>4 DEF Range
      <3>3. \A i \in DOMAIN p.large : p.large[i] # 0 => p.large[i] \in Range(large)
        BY <2>3, <2>4 DEF Range
      <3>4. Range(large) \subseteq Range(p.large) \cup {p.next}
        BY <3>1 DEF Range
      <3>5. Range(p.large) \ {0} \subseteq Range(large)
        BY <3>3 DEF Range
      <3> QED
        BY <3>2, <3>4, <3>5
    <2>11. q.next > 0 /\ LargeOK(q) /\ CleanupOK(q)
      BY <2>3, <2>4, <2>5, <2>8, <2>9, <2>10, ListedOK
    <2> QED
      BY <2>1, <2>6, <2>11 DEF Whole
  <1> QED
    BY <1>1, <1>2

-----------------------------------------------------------------------------
(* The operations. *)

(* Counting an operation changes nothing else. *)
LEMMA DoesKeeps ==
  ASSUME NEW q, Whole(q), pool' = [q EXCEPT !.ops = @ + 1]
  PROVE  PoolInv'
  <1>1. q \in Pools
    BY DEF Whole, Laid
  <1>a. q.ops \in Nat
    BY <1>1 DEF Pools
  <1>b. PICK n \in Nat : n = q.ops + 1
    BY <1>a
  <1>2. PICK p : p = [q EXCEPT !.ops = n]
    OBVIOUS
  <1>3. /\ p \in Pools /\ p.blocks = q.blocks /\ p.pieces = q.pieces /\ p.current = q.current
        /\ p.alive = q.alive /\ p.next = q.next /\ p.large = q.large /\ p.heap = q.heap
        /\ p.cleanup = q.cleanup /\ p.ran = q.ran /\ p.again = q.again
    BY <1>1, <1>2 DEF Pools
  <1>4. Whole(p)
    BY <1>3 DEF Whole, Laid, BlocksOK, PiecesOK, PieceLies, LargeOK, CleanupOK
  <1>5. pool' = p
    BY <1>2, <1>b
  <1> QED
    BY <1>4, <1>5 DEF PoolInv, Whole, Laid, BlocksOK, PiecesOK, PieceLies, LargeOK, CleanupOK

(* ngx_create_pool()                                                       *)
LEMMA InitSound == PoolInit => PoolInv
  <1> SUFFICES ASSUME PoolInit
               PROVE  PoolInv
    OBVIOUS
  <1> DEFINE place == [last |-> PoolHeader, failed |-> 0]
  <1>1. place \in Places /\ PoolHeader \in Nat /\ PoolHeader <= PoolSize /\ place.last = PoolHeader
    BY PoolAssumption DEF Places, PoolHeader
  <1>2. /\ pool.blocks = << place >> /\ pool.current = 1 /\ pool.large = << >> /\ pool.cleanup = << >>
        /\ pool.heap = {} /\ pool.next = 1 /\ pool.pieces = << >> /\ pool.ran = {} /\ pool.again = {}
    BY DEF PoolInit
  <1>3. pool \in Pools
    <2> HIDE DEF place
    <2>1. << place >> \in Seq(Places)
      BY <1>1
    <2>2. << >> \in Seq(Nat) /\ << >> \in Seq(Handlers) /\ << >> \in Seq(Piece)
      OBVIOUS
    <2>3. pool = [blocks |-> << place >>, current |-> 1, large |-> << >>, cleanup |-> << >>,
                  heap |-> {}, next |-> 1, ops |-> 0, alive |-> TRUE, pieces |-> << >>,
                  ran |-> {}, again |-> {}]
      BY DEF PoolInit, place
    <2> QED
      BY <2>1, <2>2, <2>3 DEF Pools
  <1>4. BlocksOK(pool)
    BY <1>1, <1>2 DEF BlocksOK, HeaderOf
  <1>5. PiecesOK(pool) /\ LargeOK(pool) /\ CleanupOK(pool) /\ pool.next > 0
    BY <1>2 DEF PiecesOK, LargeOK, CleanupOK, Range
  <1> QED
    BY <1>3, <1>4, <1>5 DEF PoolInv, Whole, Laid

(* ngx_palloc() and ngx_pnalloc() keep the invariant.                      *)
LEMMA AllocStep ==
  ASSUME PoolInv, Alloc
  PROVE  PoolInv'
  <1>1. PICK size \in 1 .. MaxSmall + 1, align \in BOOLEAN :
          pool' = [Palloc(pool, size, align) EXCEPT !.ops = @ + 1]
    BY DEF Alloc, Does
  <1>2. Whole(pool) /\ pool.alive
    BY DEF Alloc, Op, PoolInv
  <1>3. CASE size <= MaxSmall
    <2>1. MaxSmall \in Nat
      BY PoolAssumption DEF MaxSmall, PoolHeader
    <2>2. size \in 1 .. MaxSmall
      BY <1>3, <2>1
    <2>3. Whole(Palloc(pool, size, align))
      BY <1>2, <1>3, <2>2, SmallKeeps DEF Palloc
    <2> QED
      BY <1>1, <2>3, DoesKeeps
  <1>4. CASE ~ (size <= MaxSmall)
    <2>1. Whole(Palloc(pool, size, align))
      BY <1>2, <1>4, LargeLies DEF Palloc
    <2> QED
      BY <1>1, <2>1, DoesKeeps
  <1> QED
    BY <1>3, <1>4

(* So does ngx_pmemalign().                                                *)
LEMMA PmemalignStep ==
  ASSUME PoolInv, Pmemalign
  PROVE  PoolInv'
  <1>1. Whole(ListLarge(pool))
    BY ListLargeLies DEF Pmemalign, Op, PoolInv
  <1> QED
    BY <1>1, DoesKeeps DEF Pmemalign, Does

(* So does ngx_pfree(), which empties the element of the piece and keeps   *)
(* it in the list.                                                         *)
LEMMA PfreeStep ==
  ASSUME PoolInv, Pfree
  PROVE  PoolInv'
  <1>1. PICK m \in pool.heap :
          Does([pool EXCEPT !.heap = @ \ {m}, !.large = [i \in DOMAIN @ |-> IF @[i] = m THEN 0 ELSE @[i]]])
    BY DEF Pfree
  <1>2. PICK p : p = pool
    OBVIOUS
  <1>3. Whole(p) /\ p \in Pools /\ p.large \in Seq(Nat) /\ LargeOK(p) /\ m \in p.heap
    BY <1>1, <1>2 DEF PoolInv, Whole, Laid, Pools
  <1>4. PICK large : large = [i \in DOMAIN p.large |-> IF p.large[i] = m THEN 0 ELSE p.large[i]]
    OBVIOUS
  <1>5. /\ large \in Seq(Nat) /\ DOMAIN large = DOMAIN p.large
        /\ \A i \in DOMAIN p.large : large[i] = IF p.large[i] = m THEN 0 ELSE p.large[i]
    <2>1. DOMAIN p.large = 1 .. Len(p.large) /\ Len(p.large) \in Nat
      BY <1>3
    <2>2. large \in [1 .. Len(p.large) -> Nat]
      BY <1>3, <1>4, <2>1
    <2>3. \A n \in Nat : \A f \in [1 .. n -> Nat] : f \in Seq(Nat)
      OBVIOUS
    <2> QED
      BY <1>4, <2>1, <2>2, <2>3
  <1>6. PICK q : q = [p EXCEPT !.heap = @ \ {m}, !.large = large]
    OBVIOUS
  <1>7. /\ q \in Pools /\ q.heap = p.heap \ {m} /\ q.large = large
        /\ q.blocks = p.blocks /\ q.pieces = p.pieces /\ q.current = p.current /\ q.alive = p.alive
        /\ q.next = p.next /\ q.cleanup = p.cleanup /\ q.ran = p.ran /\ q.again = p.again
    BY <1>3, <1>5, <1>6 DEF Pools
  <1>8. LargeOK(q)
    <2>1. \A i \in DOMAIN large : large[i] \in Range(p.large) \/ large[i] = 0
      BY <1>5 DEF Range
    <2>2. \A i \in DOMAIN large : large[i] = m => m = 0
      BY <1>5
    <2>3. m # 0
      BY <1>3 DEF LargeOK
    <2>4. Range(large) \ {0} \subseteq (Range(p.large) \ {0}) \ {m}
      BY <2>1, <2>2, <2>3 DEF Range
    <2>5. \A i \in DOMAIN p.large : p.large[i] # m => p.large[i] \in Range(large)
      BY <1>5 DEF Range
    <2>6. (Range(p.large) \ {0}) \ {m} \subseteq Range(large) \ {0}
      BY <2>5 DEF Range
    <2>7. q.heap = Range(q.large) \ {0}
      BY <1>3, <1>7, <2>4, <2>6 DEF LargeOK
    <2>8. \A i, j \in DOMAIN large : large[i] = large[j] /\ large[i] # 0 => i = j
      BY <1>3, <1>5 DEF LargeOK
    <2>9. p.next \in Nat /\ p.next > 0
      BY <1>3 DEF Whole, Pools
    <2>10. \A i \in DOMAIN large : large[i] < p.next
      BY <1>3, <1>5, <2>9 DEF LargeOK
    <2> QED
      BY <1>7, <2>7, <2>8, <2>10 DEF LargeOK
  <1>9. Whole(q)
    BY <1>3, <1>7, <1>8 DEF Whole, Laid, BlocksOK, PiecesOK, PieceLies, CleanupOK
  <1>10. pool' = [q EXCEPT !.ops = @ + 1]
    BY <1>1, <1>2, <1>4, <1>6 DEF Does
  <1> QED
    BY <1>9, <1>10, DoesKeeps

(* So does ngx_pool_cleanup_add(), with the small pieces for the handler   *)
(* and for its data.                                                       *)
LEMMA CleanupAddStep ==
  ASSUME PoolInv, CleanupAdd
  PROVE  PoolInv'
  <1>1. PICK p : p = pool
    OBVIOUS
  <1>2. Whole(p) /\ p.alive
    BY <1>1 DEF PoolInv, CleanupAdd, Op
  <1>3. 1 \in 1 .. MaxSmall /\ 2 \in 1 .. MaxSmall
    BY PoolAssumption DEF MaxSmall, PoolHeader
  <1>4. PICK r : r = PallocSmall(PallocSmall(p, 2, TRUE), 1, TRUE)
    OBVIOUS
  <1>5. Whole(r) /\ Kept(r, p)
    <2>1. Whole(PallocSmall(p, 2, TRUE)) /\ Kept(PallocSmall(p, 2, TRUE), p)
      BY <1>2, <1>3, SmallKeeps
    <2>2. PallocSmall(p, 2, TRUE).alive
      BY <1>2, <2>1 DEF Kept
    <2>3. Whole(r) /\ Kept(r, PallocSmall(p, 2, TRUE))
      BY <1>3, <1>4, <2>1, <2>2, SmallKeeps
    <2> QED
      BY <2>1, <2>3 DEF Kept
  <1>6. r \in Pools /\ r.next \in Nat /\ r.next > 0 /\ r.cleanup \in Seq(Handlers) /\ p.next = r.next
        /\ r.next + 1 \in Nat /\ r.ran \in SUBSET Nat /\ r.large \in Seq(Nat)
    BY <1>5 DEF Whole, Laid, Pools, Kept
  <1>7. PICK h : h = [fd |-> p.next, handler |-> TRUE]
    OBVIOUS
  <1>8. h \in Handlers /\ h.fd = r.next
    BY <1>6, <1>7 DEF Handlers
  <1>9. PICK cleanup : cleanup = << h >> \o r.cleanup
    OBVIOUS
  <1>10. /\ cleanup \in Seq(Handlers) /\ DOMAIN cleanup = 1 .. Len(r.cleanup) + 1 /\ cleanup[1] = h
         /\ \A i \in DOMAIN cleanup : i # 1 => i - 1 \in DOMAIN r.cleanup /\ cleanup[i] = r.cleanup[i - 1]
    BY <1>6, <1>8, <1>9, PrependedIs
  <1>11. PICK q : q = [r EXCEPT !.cleanup = cleanup, !.next = @ + 1]
    OBVIOUS
  <1>12. /\ q \in Pools /\ q.cleanup = cleanup /\ q.next = r.next + 1
         /\ q.blocks = r.blocks /\ q.pieces = r.pieces /\ q.current = r.current /\ q.alive = r.alive
         /\ q.large = r.large /\ q.heap = r.heap /\ q.ran = r.ran /\ q.again = r.again
    BY <1>6, <1>10, <1>11 DEF Pools
  <1>13. \A n \in Nat : n < r.next => n < r.next + 1 /\ n # r.next
    BY <1>6
  <1>14. CleanupOK(r) /\ LargeOK(r)
    BY <1>5 DEF Whole
  <1>15. LargeOK(q)
    <2>1. \A i \in DOMAIN r.large : r.large[i] < r.next + 1
      BY <1>6, <1>13, <1>14 DEF LargeOK
    <2> QED
      BY <1>12, <1>14, <2>1 DEF LargeOK
  <1>16. CleanupOK(q)
    <2>1. \A i \in DOMAIN r.cleanup : r.cleanup[i] \in Handlers
      BY <1>6
    <2>2. \A i \in DOMAIN r.cleanup :
            /\ r.cleanup[i].fd < r.next + 1 /\ r.cleanup[i].fd # r.next
            /\ r.cleanup[i].handler => r.cleanup[i].fd \notin r.ran
      BY <1>13, <1>14, <2>1 DEF CleanupOK, Handlers
    <2>3. \A fd \in r.ran : fd < r.next + 1 /\ fd # r.next
      BY <1>6, <1>13, <1>14 DEF CleanupOK
    <2>4. r.next < r.next + 1
      BY <1>6
    <2>5. ASSUME NEW i \in DOMAIN cleanup
          PROVE  cleanup[i].fd < r.next + 1 /\ (cleanup[i].handler => cleanup[i].fd \notin r.ran)
      <3>1. CASE i = 1
        BY <1>8, <1>10, <2>3, <2>4, <3>1
      <3>2. CASE i # 1
        BY <1>10, <2>2, <3>2
      <3> QED
        BY <3>1, <3>2
    <2>6. ASSUME NEW i \in DOMAIN cleanup, NEW j \in DOMAIN cleanup, cleanup[i].fd = cleanup[j].fd
          PROVE  i = j
      <3>1. i \in Int /\ j \in Int
        BY <1>10
      <3>2. CASE i = 1
        BY <1>8, <1>10, <2>2, <2>6, <3>2
      <3>3. CASE j = 1
        BY <1>8, <1>10, <2>2, <2>6, <3>3
      <3>4. CASE i # 1 /\ j # 1
        <4>1. i - 1 = j - 1
          BY <1>10, <1>14, <2>6, <3>4 DEF CleanupOK
        <4> QED
          BY <3>1, <4>1
      <3> QED
        BY <3>2, <3>3, <3>4
    <2> QED
      BY <1>12, <1>14, <2>3, <2>5, <2>6 DEF CleanupOK
  <1>17. Whole(q)
    <2>1. Laid(q)
      BY <1>5, <1>12 DEF Whole, Laid, BlocksOK, PiecesOK, PieceLies
    <2> QED
      BY <1>6, <1>12, <1>15, <1>16, <2>1 DEF Whole
  <1>18. pool' = [q EXCEPT !.ops = @ + 1]
    BY <1>1, <1>4, <1>7, <1>9, <1>11, Zenon DEF CleanupAdd, Does
  <1> QED
    BY <1>17, <1>18, DoesKeeps

(* So does ngx_pool_run_cleanup_file(), which calls one handler and takes  *)
(* it away.                                                                *)
LEMMA RunCleanupFileStep ==
  ASSUME PoolInv, RunCleanupFile
  PROVE  PoolInv'
  <1>1. PICK p : p = pool
    OBVIOUS
  <1>2. /\ Whole(p) /\ p \in Pools /\ p.cleanup \in Seq(Handlers) /\ p.cleanup # << >>
        /\ p.cleanup[1].handler /\ p.ran \in SUBSET Nat /\ CleanupOK(p)
    BY <1>1 DEF PoolInv, Whole, Laid, Pools, RunCleanupFile
  <1>3. 1 \in DOMAIN p.cleanup
    BY <1>2
  <1>4. PICK h : h = p.cleanup[1]
    OBVIOUS
  <1>5. h \in Handlers /\ h.fd \in Nat /\ h.fd \notin p.ran /\ h.fd < p.next
    <2>1. h \in Handlers
      BY <1>2, <1>3, <1>4
    <2> QED
      BY <1>2, <1>3, <1>4, <2>1 DEF CleanupOK, Handlers
  <1>6. PICK g : g = [h EXCEPT !.handler = FALSE]
    OBVIOUS
  <1>7. g \in Handlers /\ g.fd = h.fd /\ g.handler = FALSE
    BY <1>5, <1>6 DEF Handlers
  <1>8. PICK cleanup : cleanup = [p.cleanup EXCEPT ![1] = g]
    OBVIOUS
  <1>9. /\ cleanup \in Seq(Handlers) /\ DOMAIN cleanup = DOMAIN p.cleanup /\ cleanup[1] = g
        /\ \A i \in DOMAIN cleanup : i # 1 => cleanup[i] = p.cleanup[i]
    BY <1>2, <1>3, <1>7, <1>8
  <1>10. PICK q : q = [p EXCEPT !.again = p.again \cup (p.ran \cap {h.fd}), !.ran = p.ran \cup {h.fd},
                               !.cleanup = cleanup]
    OBVIOUS
  <1>11. /\ q \in Pools /\ q.cleanup = cleanup /\ q.ran = p.ran \cup {h.fd}
         /\ q.again = p.again \cup (p.ran \cap {h.fd})
         /\ q.blocks = p.blocks /\ q.pieces = p.pieces /\ q.current = p.current /\ q.alive = p.alive
         /\ q.large = p.large /\ q.heap = p.heap /\ q.next = p.next
    BY <1>2, <1>5, <1>9, <1>10 DEF Pools
  <1>12. CleanupOK(q)
    <2>1. \A i \in DOMAIN cleanup : cleanup[i].fd = p.cleanup[i].fd
      BY <1>3, <1>4, <1>7, <1>9
    <2>2. \A i \in DOMAIN cleanup : i # 1 => p.cleanup[i].fd # h.fd
      BY <1>2, <1>3, <1>4, <1>9 DEF CleanupOK
    <2>3. ASSUME NEW i \in DOMAIN cleanup, cleanup[i].handler
          PROVE  cleanup[i].fd \notin p.ran \cup {h.fd}
      <3>1. i # 1
        BY <1>7, <1>9, <2>3
      <3> QED
        BY <1>2, <1>9, <2>2, <2>3, <3>1 DEF CleanupOK
    <2>4. q.again = {}
      BY <1>2, <1>5, <1>11 DEF CleanupOK
    <2> QED
      BY <1>2, <1>5, <1>9, <1>11, <2>1, <2>3, <2>4 DEF CleanupOK
  <1>13. Whole(q)
    BY <1>2, <1>11, <1>12 DEF Whole, Laid, BlocksOK, PiecesOK, PieceLies, LargeOK
  <1>14. pool' = [q EXCEPT !.ops = @ + 1]
    <2>1. [RunCleanup(p, {h.fd}) EXCEPT !.cleanup[1].handler = FALSE] = q
      BY <1>2, <1>3, <1>4, <1>6, <1>8, <1>10 DEF RunCleanup, Pools
    <2> QED
      BY <1>1, <1>4, <2>1 DEF RunCleanupFile, Does
  <1> QED
    BY <1>13, <1>14, DoesKeeps

(* So does ngx_reset_pool(): all blocks are empty and all large pieces are *)
(* freed.                                                                  *)
LEMMA ResetPoolStep ==
  ASSUME PoolInv, ResetPool
  PROVE  PoolInv'
  <1>1. PICK p : p = pool
    OBVIOUS
  <1>2. /\ Whole(p) /\ p \in Pools /\ p.alive /\ p.blocks \in Seq(Places) /\ p.current \in DOMAIN p.blocks
        /\ CleanupOK(p) /\ LargeOK(p)
    BY <1>1 DEF PoolInv, Whole, Laid, Pools, ResetPool, Op, BlocksOK
  <1>3. PICK place : place = [last |-> PoolHeader, failed |-> 0]
    OBVIOUS
  <1>4. place \in Places /\ place.last = PoolHeader /\ PoolHeader <= PoolSize
    BY <1>3, PoolAssumption DEF Places, PoolHeader
  <1>5. PICK blocks : blocks = [b \in DOMAIN p.blocks |-> place]
    OBVIOUS
  <1>6. /\ blocks \in Seq(Places) /\ DOMAIN blocks = DOMAIN p.blocks /\ 1 \in DOMAIN blocks
        /\ \A b \in DOMAIN blocks : blocks[b] = place
    <2>1. DOMAIN p.blocks = 1 .. Len(p.blocks) /\ Len(p.blocks) \in Nat
      BY <1>2
    <2>2. blocks \in [1 .. Len(p.blocks) -> Places]
      BY <1>4, <1>5, <2>1
    <2>3. \A n \in Nat : \A f \in [1 .. n -> Places] : f \in Seq(Places)
      OBVIOUS
    <2>4. 1 \in DOMAIN p.blocks
      BY <1>2, <2>1
    <2> QED
      BY <1>5, <2>1, <2>2, <2>3, <2>4
  <1>7. << >> \in Seq(Nat) /\ << >> \in Seq(Piece)
    OBVIOUS
  <1>8. PICK q : q = [p EXCEPT !.heap = p.heap \ Range(p.large), !.large = << >>, !.current = 1,
                               !.pieces = << >>, !.blocks = blocks]
    OBVIOUS
  <1>9. /\ q \in Pools /\ q.heap = p.heap \ Range(p.large) /\ q.large = << >> /\ q.current = 1
        /\ q.pieces = << >> /\ q.blocks = blocks /\ q.alive = p.alive /\ q.next = p.next
        /\ q.cleanup = p.cleanup /\ q.ran = p.ran /\ q.again = p.again
    BY <1>2, <1>6, <1>7, <1>8 DEF Pools
  <1>10. BlocksOK(q)
    BY <1>4, <1>6, <1>9 DEF BlocksOK, HeaderOf, PoolHeader, DataHeader
  <1>11. PiecesOK(q)
    BY <1>9 DEF PiecesOK
  <1>12. LargeOK(q)
    BY <1>2, <1>9 DEF LargeOK, Range
  <1>13. Whole(q)
    BY <1>2, <1>9, <1>10, <1>11, <1>12 DEF Whole, Laid, CleanupOK
  <1>14. pool' = [q EXCEPT !.ops = @ + 1]
    BY <1>1, <1>3, <1>5, <1>8 DEF ResetPool, Does
  <1> QED
    BY <1>13, <1>14, DoesKeeps

(* So does ngx_destroy_pool(), which calls each handler that is still      *)
(* there.                                                                  *)
LEMMA DestroyPoolStep ==
  ASSUME PoolInv, DestroyPool
  PROVE  PoolInv'
  <1>1. PICK p : p = pool
    OBVIOUS
  <1>2. Whole(p) /\ p \in Pools /\ p.cleanup \in Seq(Handlers) /\ CleanupOK(p) /\ LargeOK(p) /\ p.ran \in SUBSET Nat
    BY <1>1 DEF PoolInv, Whole, Laid, Pools
  <1>3. PICK fds : fds = {c.fd : c \in {d \in Range(p.cleanup) : d.handler}}
    OBVIOUS
  <1>4. fds \in SUBSET Nat /\ fds \cap p.ran = {} /\ \A fd \in fds : fd < p.next
    <2>1. \A i \in DOMAIN p.cleanup : p.cleanup[i] \in Handlers
      BY <1>2
    <2>2. \A c \in Range(p.cleanup) : c \in Handlers /\ c.fd < p.next /\ (c.handler => c.fd \notin p.ran)
      BY <1>2, <2>1 DEF CleanupOK, Range
    <2> QED
      BY <1>3, <2>2 DEF Handlers
  <1>5. << >> \in Seq(Nat) /\ << >> \in Seq(Piece) /\ << >> \in Seq(Places) /\ << >> \in Seq(Handlers)
    OBVIOUS
  <1>6. PICK q : q = [p EXCEPT !.again = p.again \cup (p.ran \cap fds), !.ran = p.ran \cup fds,
                               !.alive = FALSE, !.heap = p.heap \ Range(p.large), !.large = << >>,
                               !.cleanup = << >>, !.blocks = << >>, !.pieces = << >>]
    OBVIOUS
  <1>7. /\ q \in Pools /\ q.again = p.again \cup (p.ran \cap fds) /\ q.ran = p.ran \cup fds
        /\ q.alive = FALSE /\ q.heap = p.heap \ Range(p.large) /\ q.large = << >> /\ q.cleanup = << >>
        /\ q.blocks = << >> /\ q.pieces = << >> /\ q.next = p.next
    BY <1>2, <1>4, <1>5, <1>6 DEF Pools
  <1>8. BlocksOK(q) /\ PiecesOK(q)
    BY <1>7 DEF BlocksOK, PiecesOK
  <1>9. LargeOK(q)
    BY <1>2, <1>7 DEF LargeOK, Range
  <1>10. CleanupOK(q)
    <2>1. q.again = {}
      BY <1>2, <1>4, <1>7 DEF CleanupOK
    <2>2. \A fd \in q.ran : fd < q.next
      BY <1>2, <1>4, <1>7 DEF CleanupOK
    <2>3. DOMAIN q.cleanup = {}
      BY <1>7
    <2> QED
      BY <2>1, <2>2, <2>3 DEF CleanupOK
  <1>11. Whole(q)
    BY <1>2, <1>7, <1>8, <1>9, <1>10 DEF Whole, Laid
  <1>12. pool' = q
    BY <1>1, <1>3, <1>6 DEF DestroyPool, RunCleanup
  <1> QED
    BY <1>11, <1>12 DEF PoolInv, Whole, Laid, BlocksOK, PiecesOK, PieceLies, LargeOK, CleanupOK

(* The invariant holds throughout, for blocks of any size.                 *)
THEOREM PoolInvariance == PoolSpec => []PoolInv
  <1>1. PoolInit => PoolInv
    BY InitSound
  <1>2. PoolInv /\ [PoolNext]_pool => PoolInv'
    <2> SUFFICES ASSUME PoolInv, [PoolNext]_pool
                 PROVE  PoolInv'
      OBVIOUS
    <2>1. CASE PoolNext
      BY <2>1, AllocStep, PmemalignStep, PfreeStep, CleanupAddStep, RunCleanupFileStep,
         ResetPoolStep, DestroyPoolStep DEF PoolNext
    <2>2. CASE UNCHANGED pool
      BY <2>2 DEF PoolInv, Whole, Laid, BlocksOK, PiecesOK, PieceLies, LargeOK, CleanupOK
    <2> QED
      BY <2>1, <2>2
  <1> QED
    BY <1>1, <1>2, PTL DEF PoolSpec

(* Pieces of a pool never overlap, neither with each other nor with the    *)
(* headers and the ends of their blocks, whatever was aligned or reset;    *)
(* the large ones are listed once each until they are freed, and no        *)
(* cleanup handler runs twice (ngx_palloc.c).                              *)
THEOREM PiecesAreApart == PoolSpec => []PoolIsSound
  <1>1. PoolInv => PoolIsSound
    <2> SUFFICES ASSUME PoolInv
                 PROVE  PoolIsSound
      OBVIOUS
    <2>1. /\ pool \in Pools /\ pool.pieces \in Seq(Piece) /\ pool.blocks \in Seq(Places)
          /\ DOMAIN pool.pieces = 1 .. Len(pool.pieces) /\ Len(pool.pieces) \in Nat
          /\ BlocksOK(pool) /\ PiecesOK(pool) /\ LargeOK(pool) /\ CleanupOK(pool)
      BY DEF PoolInv, Whole, Laid, Pools
    <2>2. ASSUME NEW i \in DOMAIN pool.pieces
          PROVE  LET x == pool.pieces[i] IN
                 /\ x.from >= (IF x.block = 1 THEN PoolHeader ELSE DataHeader) /\ x.to < PoolSize
                 /\ \A j \in 1 .. i - 1 :
                      LET y == pool.pieces[j] IN x.block = y.block => x.to < y.from \/ y.to < x.from
      <3>1. PICK x : x = pool.pieces[i]
        OBVIOUS
      <3>2. x \in Piece /\ PieceLies(pool, x)
        BY <2>1, <3>1 DEF PiecesOK
      <3>3. pool.blocks[x.block] \in Places /\ pool.blocks[x.block].last <= PoolSize
        BY <2>1, <3>2 DEF PieceLies, BlocksOK
      <3>4. x.to \in Nat /\ pool.blocks[x.block].last \in Nat /\ x.to < pool.blocks[x.block].last
        BY <3>2, <3>3 DEF Piece, Places, PieceLies
      <3>5. x.to < PoolSize
        BY <3>3, <3>4, PoolAssumption
      <3>6. x.from >= HeaderOf(x.block)
        BY <3>2 DEF PieceLies
      <3>7. \A j \in 1 .. i - 1 : j \in DOMAIN pool.pieces /\ j < i
        <4> \A n \in Nat : \A k \in 1 .. n : \A j \in 1 .. k - 1 : j \in 1 .. n /\ j < k
          OBVIOUS
        <4> QED
          BY <2>1
      <3>8. \A j \in 1 .. i - 1 : pool.pieces[j].block = x.block => pool.pieces[j].to < x.from
        BY <2>1, <3>1, <3>7 DEF PiecesOK
      <3> QED
        BY <3>1, <3>5, <3>6, <3>8 DEF HeaderOf
    <2> QED
      BY <2>1, <2>2 DEF PoolIsSound, LargeOK, CleanupOK
  <1> QED
    BY <1>1, PoolInvariance, PTL

-----------------------------------------------------------------------------
(* Entries and descriptors of the cache of open files. *)

Fd == [name : Names \cup {None}, ino : Inodes \cup {0}, stale : 0 .. Valid]
Handle == [entry : Entries, fd : Fds, ino : Inodes, minUses : MinUses]
States == [file : [Entries -> File], tree : SUBSET Entries, queue : Seq(Entries), current : Nat,
           fds : [Fds -> Fd]]

Users(H, e) == {r \in Requests : H[r].entry = e}

(* S stands for the state in the middle of a call, H for what the requests *)
(* hold, L for the descriptors that no entry has, and x for the entry that *)
(* the call has in its hands: it is in the tree, and not in the queue.     *)
ListsOK(S, x) ==
  /\ ToSet(S.queue) = S.tree \ {x} /\ IsInjective(S.queue)
  /\ S.current = Cardinality(S.tree) /\ S.current <= MaxFiles
  /\ \A e, f \in S.tree : S.file[e].name = S.file[f].name => e = f

(* Who is neither cached nor used is free. *)
UserOK(f, cached, users) ==
  /\ f.count = Cardinality(users)
  /\ cached \/ users # {} => f.name \in Names /\ (f.close <=> ~ cached)
  /\ ~ cached /\ users = {} => f = Free
  /\ users # {} => f.fd # 0

UsersOK(S, H) == \A e \in Entries : UserOK(S.file[e], e \in S.tree, Users(H, e))

TableOK(S) ==
  \A d \in Fds : S.fds[d] = Closed \/ (S.fds[d].name \in Names /\ S.fds[d].ino \in Inodes)

(* What an entry knows of its descriptor, which is its own. *)
OwnerOK(S, L, f) ==
  /\ f.fd \in Fds \ L /\ S.fds[f.fd].ino = f.uniq /\ f.uniq # 0 /\ S.fds[f.fd].name = f.name
  /\ f.err = FALSE /\ f.dir = FALSE

OwnersOK(S, L) ==
  /\ \A e \in Entries : S.file[e].fd # 0 => OwnerOK(S, L, S.file[e])
  /\ \A e, f \in Entries : S.file[e].fd = S.file[f].fd /\ S.file[e].fd # 0 => e = f
  /\ \A d \in Fds \ L : S.fds[d].ino # 0 => \E e \in Entries : S.file[e].fd = d
  /\ L \subseteq Fds /\ \A d \in L : S.fds[d].ino # 0

HandleOK(S, L, h) ==
  /\ S.fds[h.fd].ino = h.ino
  /\ h.fd \in L \/ S.file[h.entry].fd = h.fd

HandlesOK(S, H, L) ==
  /\ H \in [Requests -> Handle \cup {Nothing}]
  /\ \A r \in Requests : H[r] = Nothing \/ HandleOK(S, L, H[r])

(* The name was the file of the descriptor when the entry was tested. *)
FreshOK(S) ==
  \A e \in S.tree : S.file[e].fd # 0 => S.fds[S.file[e].fd].stale <= S.file[e].created

Consistent(S, H, L, x) ==
  /\ S \in States /\ ListsOK(S, x) /\ UsersOK(S, H) /\ TableOK(S) /\ OwnersOK(S, L)
  /\ HandlesOK(S, H, L) /\ FreshOK(S)

(* The number of a directory is not that of an open file. *)
DirsApart(D, S) ==
  \A n \in Names : D[n] # None /\ D[n].dir => \A d \in Fds : S.fds[d].ino # D[n].ino

CacheInv ==
  /\ CacheTypeOK
  /\ exited = FALSE => Consistent(st, held, lost, None) /\ DirsApart(disk, st)
  /\ exited = TRUE => CacheIsSound

-----------------------------------------------------------------------------

(* What the constants are.                                                 *)
LEMMA CacheBasics ==
  /\ MaxFd \in Nat /\ Fds \subseteq Nat /\ 0 \notin Fds /\ MaxFiles \in Nat /\ MaxFiles > 0 /\ Valid \in Nat
  /\ None \notin Names /\ None \notin Entries /\ 0 \notin Inodes
  /\ None \notin [ino : Inodes, dir : BOOLEAN] /\ Nothing.entry = None /\ Nothing.fd = 0
  /\ IsFiniteSet(Entries) /\ IsFiniteSet(Requests)
  /\ Closed.ino = 0 /\ Closed.name = None /\ Free.fd = 0 /\ Free.count = 0 /\ Free.name = None
  <1>1. Fds \subseteq Nat /\ 0 \notin Fds
    BY OpenFileCacheAssumption DEF Fds
  <1> QED
    BY <1>1, OpenFileCacheAssumption DEF Nothing, Closed, Free

(* The requests that use an entry are finitely many.                       *)
LEMMA UsersAre ==
  ASSUME NEW H, NEW e
  PROVE  /\ IsFiniteSet(Users(H, e)) /\ Cardinality(Users(H, e)) \in 0 .. Cardinality(Requests)
         /\ Cardinality(Users(H, e)) = 0 <=> Users(H, e) = {}
  <1>1. Users(H, e) \subseteq Requests
    BY DEF Users
  <1>2. IsFiniteSet(Requests)
    BY OpenFileCacheAssumption
  <1>3. IsFiniteSet(Users(H, e)) /\ Cardinality(Users(H, e)) <= Cardinality(Requests)
    BY <1>1, <1>2, FS_Subset
  <1>4. Cardinality(Users(H, e)) \in Nat /\ Cardinality(Requests) \in Nat
    BY <1>2, <1>3, FS_CardinalityType
  <1>5. Cardinality(Users(H, e)) = 0 <=> Users(H, e) = {}
    BY <1>3, FS_EmptySet
  <1> QED
    BY <1>3, <1>4, <1>5

(* Queues, in which nothing occurs twice. *)

(* A sequence without its element at k.                                    *)
LEMMA RemoveAtIs ==
  ASSUME NEW S, NEW s \in Seq(S), NEW k \in 1 .. Len(s)
  PROVE  /\ RemoveAt(s, k) \in Seq(S) /\ Len(RemoveAt(s, k)) = Len(s) - 1
         /\ \A j \in 1 .. Len(s) - 1 :
              RemoveAt(s, k)[j] = IF j < k THEN s[j] ELSE s[j + 1]
  <1> DEFINE a == SubSeq(s, 1, k - 1)
             b == SubSeq(s, k + 1, Len(s))
  <1>1. Len(s) \in Nat /\ k \in Nat /\ k <= Len(s) /\ k >= 1
    OBVIOUS
  <1>2. a \in Seq(S) /\ Len(a) = k - 1 /\ \A j \in 1 .. k - 1 : a[j] = s[j]
    BY <1>1
  <1>3. b \in Seq(S) /\ Len(b) = Len(s) - k /\ \A j \in 1 .. Len(s) - k : b[j] = s[k + j]
    BY <1>1
  <1> HIDE DEF a, b
  <1>4. a \o b \in Seq(S) /\ Len(a \o b) = Len(s) - 1
    <2> \A p, q \in Seq(S) : p \o q \in Seq(S) /\ Len(p \o q) = Len(p) + Len(q)
      OBVIOUS
    <2>1. a \o b \in Seq(S) /\ Len(a \o b) = Len(a) + Len(b)
      BY <1>2, <1>3, Zenon
    <2>2. \A m, n \in Int : (m - 1) + (n - m) = n - 1
      OBVIOUS
    <2>3. (k - 1) + (Len(s) - k) = Len(s) - 1
      BY <1>1, <2>2
    <2> QED
      BY <1>2, <1>3, <2>1, <2>3, Zenon
  <1>5. ASSUME NEW j \in 1 .. Len(s) - 1
        PROVE  (a \o b)[j] = IF j < k THEN s[j] ELSE s[j + 1]
    <2>1. CASE j < k
      BY <1>1, <1>2, <1>3, <2>1
    <2>2. CASE ~ (j < k)
      <3>1. (a \o b)[j] = b[j - Len(a)]
        BY <1>1, <1>2, <1>3, <2>2
      <3>2. j - Len(a) \in 1 .. Len(s) - k /\ k + (j - Len(a)) = j + 1
        BY <1>1, <1>2, <2>2
      <3> QED
        BY <1>3, <2>2, <3>1, <3>2
    <2> QED
      BY <2>1, <2>2
  <1> QED
    BY <1>4, <1>5 DEF RemoveAt, a, b

(* ngx_queue_remove takes out what it is given, and nothing else. *)
LEMMA UnqueuedIs ==
  ASSUME NEW S, NEW s \in Seq(S), IsInjective(s), NEW x
  PROVE  /\ Unqueued(s, x) \in Seq(S) /\ IsInjective(Unqueued(s, x))
         /\ ToSet(Unqueued(s, x)) = ToSet(s) \ {x}
  <1>1. DOMAIN s = 1 .. Len(s) /\ Len(s) \in Nat
    OBVIOUS
  <1>2. CASE \E i \in DOMAIN s : s[i] = x
    <2> DEFINE k == CHOOSE i \in DOMAIN s : s[i] = x
               r == RemoveAt(s, k)
               f(j) == IF j < k THEN j ELSE j + 1
    <2>1. k \in 1 .. Len(s) /\ s[k] = x
      BY <1>1, <1>2
    <2> HIDE DEF k
    <2>2. /\ r \in Seq(S) /\ Len(r) = Len(s) - 1
          /\ \A j \in 1 .. Len(s) - 1 : r[j] = IF j < k THEN s[j] ELSE s[j + 1]
      BY <2>1, RemoveAtIs
    <2>3. DOMAIN r = 1 .. Len(s) - 1
      BY <2>2
    <2> HIDE DEF r
    <2>4. \A j \in DOMAIN r : f(j) \in DOMAIN s /\ r[j] = s[f(j)] /\ f(j) # k
      <3> SUFFICES ASSUME NEW j \in 1 .. Len(s) - 1
                   PROVE  f(j) \in 1 .. Len(s) /\ r[j] = s[f(j)] /\ f(j) # k
        BY <1>1, <2>3
      <3>1. r[j] = IF j < k THEN s[j] ELSE s[j + 1]
        BY <2>2
      <3>2. f(j) \in 1 .. Len(s) /\ f(j) # k
        BY <1>1, <2>1
      <3>3. r[j] = s[f(j)]
        BY <3>1, Zenon
      <3> QED
        BY <3>2, <3>3
    <2>5. \A i, j \in DOMAIN r : f(i) = f(j) => i = j
      BY <1>1, <2>1, <2>3
    <2>6. \A i \in DOMAIN s : i # k => \E j \in DOMAIN r : f(j) = i
      <3> SUFFICES ASSUME NEW i \in 1 .. Len(s), i # k
                   PROVE  \E j \in 1 .. Len(s) - 1 : f(j) = i
        BY <1>1, <2>3
      <3>1. CASE i < k
        <4>1. i \in 1 .. Len(s) - 1 /\ f(i) = i
          BY <1>1, <2>1, <3>1
        <4> QED
          BY <4>1
      <3>2. CASE i > k
        <4>1. i - 1 \in 1 .. Len(s) - 1 /\ f(i - 1) = i
          BY <1>1, <2>1, <3>2
        <4> QED
          BY <4>1
      <3> QED
        BY <2>1, <3>1, <3>2
    <2> HIDE DEF f
    <2>7. IsInjective(r)
      BY <2>4, <2>5 DEF IsInjective
    <2>8. ToSet(r) \subseteq ToSet(s) \ {x}
      BY <1>1, <2>1, <2>4 DEF ToSet, IsInjective
    <2>9. ToSet(s) \ {x} \subseteq ToSet(r)
      BY <2>1, <2>4, <2>6 DEF ToSet
    <2>10. Unqueued(s, x) = r
      BY <1>2 DEF Unqueued, r, k
    <2> QED
      BY <2>2, <2>7, <2>8, <2>9, <2>10
  <1>3. CASE ~ \E i \in DOMAIN s : s[i] = x
    <2>1. Unqueued(s, x) = s
      BY <1>3 DEF Unqueued
    <2>2. x \notin ToSet(s)
      BY <1>3 DEF ToSet
    <2> QED
      BY <2>1, <2>2
  <1> QED
    BY <1>2, <1>3

(* The last of a queue is taken out. *)
LEMMA FrontIs ==
  ASSUME NEW S, NEW s \in Seq(S), IsInjective(s), s # << >>
  PROVE  /\ Front(s) \in Seq(S) /\ IsInjective(Front(s))
         /\ Last(s) \in ToSet(s) /\ ToSet(Front(s)) = ToSet(s) \ {Last(s)}
  <1>1. Len(s) \in Nat /\ Len(s) > 0 /\ DOMAIN s = 1 .. Len(s) /\ Len(s) \in DOMAIN s
    OBVIOUS
  <1>2. PICK r : r = Front(s)
    OBVIOUS
  <1>3. r \in Seq(S) /\ DOMAIN r = 1 .. Len(s) - 1 /\ \A i \in 1 .. Len(s) - 1 : r[i] = s[i]
    BY <1>1, <1>2 DEF Front
  <1>4. /\ \A i \in DOMAIN r : i \in DOMAIN s /\ i # Len(s) /\ r[i] = s[i]
        /\ \A i \in DOMAIN s : i # Len(s) => i \in DOMAIN r
    BY <1>1, <1>3
  <1>5. IsInjective(r)
    BY <1>4 DEF IsInjective
  <1>6. Last(s) = s[Len(s)] /\ Last(s) \in ToSet(s)
    BY <1>1 DEF Last, ToSet
  <1>7. ToSet(r) \subseteq ToSet(s) \ {s[Len(s)]}
    BY <1>1, <1>4 DEF ToSet, IsInjective
  <1>8. ToSet(s) \ {s[Len(s)]} \subseteq ToSet(r)
    BY <1>4 DEF ToSet
  <1> QED
    BY <1>2, <1>3, <1>5, <1>6, <1>7, <1>8

(* A queue with a new element at its head.                                 *)
LEMMA AtHeadIs ==
  ASSUME NEW S, NEW s \in Seq(S), IsInjective(s), NEW x \in S, x \notin ToSet(s)
  PROVE  /\ << x >> \o s \in Seq(S) /\ IsInjective(<< x >> \o s)
         /\ ToSet(<< x >> \o s) = ToSet(s) \cup {x}
  <1> DEFINE r == << x >> \o s
  <1>1. /\ r \in Seq(S) /\ DOMAIN r = 1 .. Len(s) + 1 /\ r[1] = x
        /\ \A i \in DOMAIN r : i # 1 => i - 1 \in DOMAIN s /\ r[i] = s[i - 1]
        /\ Range(r) = Range(s) \cup {x}
    BY PrependedIs
  <1>2. \A i \in DOMAIN r : i \in Int
    BY <1>1
  <1> HIDE DEF r
  <1>3. ASSUME NEW i \in DOMAIN r, NEW j \in DOMAIN r, r[i] = r[j]
        PROVE  i = j
    <2>1. \A k \in DOMAIN s : s[k] # x
      BY DEF ToSet
    <2>2. CASE i = 1 \/ j = 1
      BY <1>1, <1>3, <2>1, <2>2
    <2>3. CASE i # 1 /\ j # 1
      <3>1. i - 1 = j - 1
        BY <1>1, <1>3, <2>3 DEF IsInjective
      <3> QED
        BY <1>2, <3>1
    <2> QED
      BY <2>2, <2>3
  <1>4. IsInjective(r)
    BY <1>3 DEF IsInjective
  <1>5. ToSet(r) = Range(r) /\ ToSet(s) = Range(s)
    BY DEF ToSet, Range
  <1> QED
    BY <1>1, <1>4, <1>5 DEF r

(* What the tests for consistency look at. *)
Alike(f, g) ==
  /\ f.name = g.name /\ f.fd = g.fd /\ f.uniq = g.uniq /\ f.err = g.err /\ f.dir = g.dir
  /\ f.count = g.count /\ f.close = g.close /\ (g = Free => f = Free)
SameFds(F, G) ==
  \A d \in Fds : F[d].name = G[d].name /\ F[d].ino = G[d].ino /\ (G[d] = Closed => F[d] = Closed)

(* Moving in the queue, counting uses and time. *)
LEMMA Moved ==
  ASSUME NEW S, NEW T \in States, NEW H, NEW L, NEW x, NEW y, Consistent(S, H, L, x),
         T.tree = S.tree, T.current = S.current,
         ToSet(T.queue) = T.tree \ {y}, IsInjective(T.queue),
         \A a \in Entries : Alike(T.file[a], S.file[a]),
         SameFds(T.fds, S.fds), FreshOK(T)
  PROVE  Consistent(T, H, L, y)
  <1>1. S \in States /\ S.tree \subseteq Entries
    BY DEF Consistent, States
  <1>2. ListsOK(T, y)
    BY <1>1 DEF Consistent, ListsOK, Alike
  <1>3. UsersOK(T, H)
    BY DEF Consistent, UsersOK, UserOK, Alike
  <1>4. TableOK(T)
    BY DEF Consistent, TableOK, SameFds
  <1>5. OwnersOK(T, L)
    <2>1. \A e \in Entries : T.file[e].fd # 0 => OwnerOK(T, L, T.file[e])
      BY DEF Consistent, OwnersOK, OwnerOK, Alike, SameFds
    <2> QED
      BY <2>1 DEF Consistent, OwnersOK, Alike, SameFds
  <1>6. HandlesOK(T, H, L)
    BY DEF Consistent, HandlesOK, HandleOK, Handle, Alike, SameFds
  <1> QED
    BY <1>2, <1>3, <1>4, <1>5, <1>6 DEF Consistent

(* A descriptor that no entry has is closed. *)
LEMMA ClosedFd ==
  ASSUME NEW S, NEW T \in States, NEW H, NEW L, NEW x, Consistent(S, H, L, x), NEW d \in L,
         \A r \in Requests : H[r].fd # d,
         T = [S EXCEPT !.fds[d] = Closed]
  PROVE  Consistent(T, H, L \ {d}, x)
  <1>1. /\ S \in States /\ S.tree \subseteq Entries /\ L \subseteq Fds
    BY DEF Consistent, States, OwnersOK
  <1>2. /\ T.file = S.file /\ T.tree = S.tree /\ T.queue = S.queue /\ T.current = S.current
        /\ T.fds[d] = Closed /\ \A c \in Fds : c # d => T.fds[c] = S.fds[c]
    BY <1>1 DEF States
  <1>3. \A e \in Entries : S.file[e].fd # 0 => S.file[e].fd \in Fds /\ S.file[e].fd # d
    BY DEF Consistent, OwnersOK, OwnerOK
  <1>4. ListsOK(T, x) /\ UsersOK(T, H)
    BY <1>2 DEF Consistent, ListsOK, UsersOK
  <1>5. TableOK(T)
    BY <1>2 DEF Consistent, TableOK
  <1>6. OwnersOK(T, L \ {d})
    <2>1. \A e \in Entries : T.file[e].fd # 0 => OwnerOK(T, L \ {d}, T.file[e])
      BY <1>1, <1>2, <1>3 DEF Consistent, OwnersOK, OwnerOK
    <2>2. T.fds[d].ino = 0
      BY <1>2 DEF Closed
    <2>3. \A c \in Fds \ (L \ {d}) : T.fds[c].ino # 0 => \E e \in Entries : T.file[e].fd = c
      BY <1>2, <2>2 DEF Consistent, OwnersOK
    <2>4. \A c \in L \ {d} : T.fds[c].ino # 0
      BY <1>1, <1>2 DEF Consistent, OwnersOK
    <2>5. \A e, f \in Entries : T.file[e].fd = T.file[f].fd /\ T.file[e].fd # 0 => e = f
      BY <1>2 DEF Consistent, OwnersOK
    <2> QED
      BY <1>1, <2>1, <2>3, <2>4, <2>5 DEF OwnersOK
  <1>7. HandlesOK(T, H, L \ {d})
    BY <1>2 DEF Consistent, HandlesOK, HandleOK, Handle
  <1>8. FreshOK(T)
    BY <1>1, <1>2, <1>3 DEF Consistent, FreshOK
  <1> QED
    BY <1>4, <1>5, <1>6, <1>7, <1>8 DEF Consistent

(* A descriptor is opened that no entry has yet. *)
OpenedBy(T, S, d) ==
  /\ T \in States /\ T.file = S.file /\ T.tree = S.tree /\ T.queue = S.queue /\ T.current = S.current
  /\ S.fds[d] = Closed /\ T.fds[d].name \in Names /\ T.fds[d].ino \in Inodes
  /\ \A c \in Fds : c # d => /\ T.fds[c].name = S.fds[c].name /\ T.fds[c].ino = S.fds[c].ino
                             /\ T.fds[c].stale <= S.fds[c].stale
                             /\ S.fds[c] = Closed => T.fds[c] = Closed

(* That no request has a descriptor yet follows.                           *)
LEMMA OpenedFd ==
  ASSUME NEW S, NEW H, NEW L, NEW x, Consistent(S, H, L, x), NEW d \in Fds, NEW T, OpenedBy(T, S, d)
  PROVE  Consistent(T, H, L \cup {d}, x) /\ \A r \in Requests : H[r].fd # d
  <1> /\ T \in States /\ S.fds[d] = Closed /\ T.fds[d].name \in Names /\ T.fds[d].ino \in Inodes
      /\ T.file = S.file /\ T.tree = S.tree /\ T.queue = S.queue /\ T.current = S.current
    BY DEF OpenedBy
  <1> \A c \in Fds : c # d =>
        /\ T.fds[c].name = S.fds[c].name /\ T.fds[c].ino = S.fds[c].ino
        /\ T.fds[c].stale <= S.fds[c].stale /\ (S.fds[c] = Closed => T.fds[c] = Closed)
    BY DEF OpenedBy
  <1>1. /\ S \in States /\ S.tree \subseteq Entries /\ L \subseteq Fds /\ S.fds[d].ino = 0 /\ d \notin L
    BY CacheBasics DEF Consistent, States, OwnersOK
  <1>2. \A r \in Requests : H[r].fd # d
    BY <1>1, CacheBasics DEF Consistent, HandlesOK, HandleOK, Handle
  <1>3. \A e \in Entries : S.file[e].fd # 0 => S.file[e].fd \in Fds /\ S.file[e].fd # d
    BY <1>1 DEF Consistent, OwnersOK, OwnerOK
  <1>4. ListsOK(T, x) /\ UsersOK(T, H)
    BY DEF Consistent, ListsOK, UsersOK
  <1>5. TableOK(T)
    BY DEF Consistent, TableOK
  <1>6. OwnersOK(T, L \cup {d})
    <2>1. \A e \in Entries : T.file[e].fd # 0 => OwnerOK(T, L \cup {d}, T.file[e])
      BY <1>1, <1>3 DEF Consistent, OwnersOK, OwnerOK
    <2>2. T.fds[d].ino # 0
      BY CacheBasics
    <2>3. \A c \in Fds \ (L \cup {d}) : T.fds[c].ino # 0 => \E e \in Entries : T.file[e].fd = c
      BY DEF Consistent, OwnersOK
    <2>4. \A c \in L \cup {d} : T.fds[c].ino # 0
      BY <1>1, <2>2 DEF Consistent, OwnersOK
    <2>5. \A e, f \in Entries : T.file[e].fd = T.file[f].fd /\ T.file[e].fd # 0 => e = f
      BY DEF Consistent, OwnersOK
    <2> QED
      BY <1>1, <2>1, <2>3, <2>4, <2>5 DEF OwnersOK
  <1>7. HandlesOK(T, H, L \cup {d})
    BY <1>2 DEF Consistent, HandlesOK, HandleOK, Handle
  <1>8. FreshOK(T)
    <2> SUFFICES ASSUME NEW e \in S.tree, S.file[e].fd # 0
                 PROVE  T.fds[S.file[e].fd].stale <= S.file[e].created
      BY DEF FreshOK
    <2>1. /\ S.file[e].fd \in Fds /\ S.file[e].fd # d
          /\ S.fds[S.file[e].fd].stale <= S.file[e].created
      BY <1>1, <1>3 DEF Consistent, FreshOK
    <2>2. S.fds[S.file[e].fd] \in Fd /\ T.fds[S.file[e].fd] \in Fd /\ S.file[e] \in File
      BY <1>1, <2>1 DEF States
    <2>3. /\ S.fds[S.file[e].fd].stale \in Int /\ T.fds[S.file[e].fd].stale \in Int
          /\ S.file[e].created \in Int
      BY <2>2, CacheBasics DEF Fd, File
    <2>4. T.fds[S.file[e].fd].stale <= S.fds[S.file[e].fd].stale
      BY <2>1
    <2> QED
      BY <2>1, <2>3, <2>4
  <1> QED
    BY <1>2, <1>4, <1>5, <1>6, <1>7, <1>8 DEF Consistent

(* What an entry must know to take the descriptor g.fd from those without  *)
(* an entry, or to keep its own.                                           *)
Takes(S, H, L, own, g) ==
  /\ g.fd \in L \cup {own} /\ g.fd \in Fds /\ S.fds[g.fd].ino = g.uniq /\ g.uniq # 0
  /\ S.fds[g.fd].name = g.name /\ g.err = FALSE /\ g.dir = FALSE
  /\ S.fds[g.fd].stale <= g.created
  /\ g.fd \in L => \A r \in Requests : H[r].fd # g.fd

(* An entry takes the facts of another descriptor, or of none.             *)
LEMMA Assigned ==
  ASSUME NEW S, NEW T \in States, NEW H, NEW L, NEW x, Consistent(S, H, L, x), NEW e \in S.tree,
         T.tree = S.tree, T.current = S.current, T.queue = S.queue, T.fds = S.fds,
         \A a \in Entries \ {e} : T.file[a] = S.file[a],
         T.file[e].name = S.file[e].name, T.file[e].count = S.file[e].count, T.file[e].close = FALSE,
         \/ T.file[e].fd = 0 /\ Users(H, e) = {}
         \/ Takes(S, H, L, S.file[e].fd, T.file[e])
  PROVE  Consistent(T, H, (L \ {T.file[e].fd}) \cup ({S.file[e].fd} \ {0, T.file[e].fd}), x)
  <1> DEFINE g == T.file[e]
             f == S.file[e]
             M == (L \ {g.fd}) \cup ({f.fd} \ {0, g.fd})
  <1>1. /\ S \in States /\ S.tree \subseteq Entries /\ e \in Entries /\ L \subseteq Fds /\ 0 \notin Fds
        /\ H \in [Requests -> Handle \cup {Nothing}]
    BY CacheBasics DEF Consistent, States, OwnersOK, HandlesOK
  <1>2. g.fd = 0 \/ (g.fd # 0 /\ g.fd \in Fds)
    BY <1>1 DEF Takes
  <1>3. f.fd # 0 => OwnerOK(S, L, f)
    BY <1>1 DEF Consistent, OwnersOK
  <1>4. M \subseteq Fds
    BY <1>1, <1>3 DEF OwnerOK
  <1>5. \A a \in Entries \ {e} : S.file[a].fd # 0 =>
          S.file[a].fd # g.fd /\ S.file[a].fd # f.fd /\ S.file[a].fd \notin M /\ OwnerOK(S, L, S.file[a])
    BY <1>1 DEF Consistent, OwnersOK, OwnerOK, Takes
  <1>6. ListsOK(T, x)
    BY <1>1 DEF Consistent, ListsOK
  <1>7. UsersOK(T, H)
    <2> SUFFICES ASSUME NEW a \in Entries
                 PROVE  UserOK(T.file[a], a \in T.tree, Users(H, a))
      BY DEF UsersOK
    <2>1. UserOK(S.file[a], a \in S.tree, Users(H, a))
      BY DEF Consistent, UsersOK
    <2>2. CASE a # e
      BY <2>1, <2>2
    <2>3. CASE a = e
      <3>1. Users(H, e) # {} => g.fd # 0
        BY <1>1 DEF Takes
      <3> QED
        BY <2>1, <2>3, <3>1 DEF UserOK
    <2> QED
      BY <2>2, <2>3
  <1>8. TableOK(T)
    BY DEF Consistent, TableOK
  <1>9. OwnersOK(T, M)
    <2>1. g.fd # 0 => OwnerOK(T, M, g)
      BY <1>1, <1>3 DEF Takes, OwnerOK
    <2>2. \A a \in Entries : T.file[a].fd # 0 => OwnerOK(T, M, T.file[a])
      BY <1>1, <1>5, <2>1 DEF OwnerOK
    <2>3. \A a, b \in Entries : T.file[a].fd = T.file[b].fd /\ T.file[a].fd # 0 => a = b
      BY <1>1, <1>5 DEF Consistent, OwnersOK
    <2>4. ASSUME NEW d \in Fds \ M, T.fds[d].ino # 0
          PROVE  \E a \in Entries : T.file[a].fd = d
      <3>1. CASE d = g.fd
        BY <1>1, <3>1
      <3>2. CASE d # g.fd
        <4>1. d \notin L /\ d # f.fd
          BY <1>1, <2>4, <3>2
        <4>2. PICK a \in Entries : S.file[a].fd = d
          BY <2>4, <4>1 DEF Consistent, OwnersOK
        <4> QED
          BY <4>1, <4>2
      <3> QED
        BY <3>1, <3>2
    <2>5. \A d \in M : T.fds[d].ino # 0
      BY <1>3 DEF Consistent, OwnersOK, OwnerOK
    <2> HIDE DEF M
    <2> QED
      BY <1>4, <2>2, <2>3, <2>4, <2>5 DEF OwnersOK
  <1>10. HandlesOK(T, H, M)
    <2> SUFFICES ASSUME NEW r \in Requests, H[r] # Nothing
                 PROVE  HandleOK(T, M, H[r])
      BY <1>1 DEF HandlesOK
    <2>1. H[r] \in Handle /\ HandleOK(S, L, H[r]) /\ H[r].fd \in Fds /\ H[r].entry \in Entries
      BY <1>1 DEF Consistent, HandlesOK, Handle
    <2>2. CASE H[r].fd \in L
      <3>1. H[r].fd # g.fd
        BY <1>1, <2>1, <2>2 DEF Takes
      <3> QED
        BY <2>1, <2>2, <3>1 DEF HandleOK
    <2>3. CASE H[r].fd \notin L /\ H[r].entry # e
      BY <2>1, <2>3 DEF HandleOK
    <2>4. CASE H[r].fd \notin L /\ H[r].entry = e
      BY <1>1, <2>1, <2>4 DEF HandleOK
    <2> QED
      BY <2>2, <2>3, <2>4
  <1>11. FreshOK(T)
    BY <1>1 DEF Consistent, FreshOK, Takes
  <1> QED
    BY <1>6, <1>7, <1>8, <1>9, <1>10, <1>11 DEF Consistent

(* A request gets the descriptor of an entry, which counts it.             *)
LEMMA TakesHold ==
  ASSUME NEW S, NEW T \in States, NEW H, NEW L, NEW x, Consistent(S, H, L, x), NEW e \in S.tree,
         NEW r \in Requests, H[r] = Nothing, S.file[e].fd # 0,
         T = [S EXCEPT !.file[e].count = @ + 1],
         NEW h \in Handle, h.entry = e, h.fd = S.file[e].fd, h.ino = S.file[e].uniq
  PROVE  Consistent(T, [H EXCEPT ![r] = h], L, x)
  <1> DEFINE K == [H EXCEPT ![r] = h]
  <1>1. /\ S \in States /\ S.tree \subseteq Entries /\ e \in Entries
        /\ H \in [Requests -> Handle \cup {Nothing}] /\ S.file[e] \in File
    BY CacheBasics DEF Consistent, States, HandlesOK
  <1>2. S.file[e].count \in Nat
    BY <1>1, CacheBasics, FS_CardinalityType DEF File
  <1>3. /\ T.tree = S.tree /\ T.current = S.current /\ T.queue = S.queue /\ T.fds = S.fds
        /\ \A a \in Entries \ {e} : T.file[a] = S.file[a]
        /\ T.file[e].name = S.file[e].name /\ T.file[e].fd = S.file[e].fd /\ T.file[e].uniq = S.file[e].uniq
        /\ T.file[e].err = S.file[e].err /\ T.file[e].dir = S.file[e].dir
        /\ T.file[e].close = S.file[e].close /\ T.file[e].created = S.file[e].created
        /\ T.file[e].count = S.file[e].count + 1
    BY <1>1 DEF States, File
  <1>4. /\ K \in [Requests -> Handle \cup {Nothing}] /\ K[r] = h
        /\ \A q \in Requests : q # r => K[q] = H[q]
    BY <1>1
  <1>5. Users(K, e) = Users(H, e) \cup {r} /\ r \notin Users(H, e)
    BY <1>1, <1>4, CacheBasics DEF Users
  <1>6. \A a \in Entries : a # e => Users(K, a) = Users(H, a)
    BY <1>1, <1>4, CacheBasics DEF Users
  <1> HIDE DEF K
  <1>7. UsersOK(T, K)
    <2> SUFFICES ASSUME NEW a \in Entries
                 PROVE  UserOK(T.file[a], a \in T.tree, Users(K, a))
      BY DEF UsersOK
    <2>1. UserOK(S.file[a], a \in S.tree, Users(H, a))
      BY DEF Consistent, UsersOK
    <2>2. CASE a # e
      BY <1>3, <1>6, <2>1, <2>2
    <2>3. CASE a = e
      <3>1. Cardinality(Users(K, e)) = Cardinality(Users(H, e)) + 1
        <4>1. IsFiniteSet(Users(H, e))
          BY UsersAre
        <4> QED
          BY <1>5, <4>1, FS_AddElement
      <3>2. S.file[e].count = Cardinality(Users(H, e))
        BY <2>1, <2>3 DEF UserOK
      <3>3. T.file[e].count = Cardinality(Users(K, e))
        BY <1>3, <3>1, <3>2
      <3>4. S.file[e].name \in Names /\ (S.file[e].close <=> ~ (e \in S.tree))
        BY <2>1, <2>3 DEF UserOK
      <3> QED
        BY <1>3, <2>3, <3>3, <3>4 DEF UserOK
    <2> QED
      BY <2>2, <2>3
  <1>8. ListsOK(T, x)
    BY <1>1, <1>3 DEF Consistent, ListsOK
  <1>9. TableOK(T)
    BY <1>3 DEF Consistent, TableOK
  <1>10. OwnersOK(T, L)
    <2>1. \A a \in Entries : T.file[a].fd # 0 => OwnerOK(T, L, T.file[a])
      BY <1>1, <1>3 DEF Consistent, OwnersOK, OwnerOK
    <2>2. \A a \in Entries : T.file[a].fd = S.file[a].fd
      BY <1>3
    <2> QED
      BY <1>3, <2>1, <2>2 DEF Consistent, OwnersOK
  <1>11. HandlesOK(T, K, L)
    <2>1. \A a \in Entries : T.file[a].fd = S.file[a].fd
      BY <1>3
    <2>2. ASSUME NEW q \in Requests, q # r, K[q] # Nothing
          PROVE  HandleOK(T, L, K[q])
      <3>1. HandleOK(S, L, H[q]) /\ H[q].entry \in Entries /\ K[q] = H[q]
        BY <1>1, <1>4, <2>2 DEF Consistent, HandlesOK, Handle
      <3> QED
        BY <1>3, <2>1, <3>1 DEF HandleOK
    <2>3. HandleOK(T, L, K[r])
      BY <1>1, <1>3, <1>4 DEF Consistent, OwnersOK, OwnerOK, HandleOK
    <2> QED
      BY <1>4, <2>2, <2>3 DEF HandlesOK
  <1>12. FreshOK(T)
    BY <1>1, <1>3 DEF Consistent, FreshOK
  <1> QED
    BY <1>7, <1>8, <1>9, <1>10, <1>11, <1>12 DEF Consistent, K

(* A request gives up an entry that stays.                                 *)
LEMMA Released ==
  ASSUME NEW S, NEW T \in States, NEW H, NEW L, NEW x, Consistent(S, H, L, x),
         NEW r \in Requests, H[r] # Nothing, NEW e \in Entries, H[r].entry = e,
         T = [S EXCEPT !.file[e].count = @ - 1],
         e \in S.tree \/ Users([H EXCEPT ![r] = Nothing], e) # {}
  PROVE  Consistent(T, [H EXCEPT ![r] = Nothing], L, x)
  <1> DEFINE K == [H EXCEPT ![r] = Nothing]
  <1>1. /\ S \in States /\ S.tree \subseteq Entries
        /\ H \in [Requests -> Handle \cup {Nothing}] /\ S.file[e] \in File
    BY CacheBasics DEF Consistent, States, HandlesOK
  <1>2. /\ T.tree = S.tree /\ T.current = S.current /\ T.queue = S.queue /\ T.fds = S.fds
        /\ \A a \in Entries \ {e} : T.file[a] = S.file[a]
        /\ T.file[e].name = S.file[e].name /\ T.file[e].fd = S.file[e].fd /\ T.file[e].uniq = S.file[e].uniq
        /\ T.file[e].err = S.file[e].err /\ T.file[e].dir = S.file[e].dir
        /\ T.file[e].close = S.file[e].close /\ T.file[e].created = S.file[e].created
        /\ T.file[e].count = S.file[e].count - 1
    BY <1>1 DEF States, File
  <1>3. /\ K \in [Requests -> Handle \cup {Nothing}] /\ K[r] = Nothing
        /\ \A q \in Requests : q # r => K[q] = H[q]
    BY <1>1
  <1>4. Users(K, e) = Users(H, e) \ {r} /\ r \in Users(H, e)
    BY <1>1, <1>3, CacheBasics DEF Users
  <1>5. \A a \in Entries : a # e => Users(K, a) = Users(H, a)
    BY <1>1, <1>3, CacheBasics DEF Users
  <1>6. e \in S.tree \/ Users(K, e) # {}
    OBVIOUS
  <1> HIDE DEF K
  <1>7. UsersOK(T, K)
    <2> SUFFICES ASSUME NEW a \in Entries
                 PROVE  UserOK(T.file[a], a \in T.tree, Users(K, a))
      BY DEF UsersOK
    <2>1. UserOK(S.file[a], a \in S.tree, Users(H, a))
      BY DEF Consistent, UsersOK
    <2>2. CASE a # e
      BY <1>2, <1>5, <2>1, <2>2
    <2>3. CASE a = e
      <3>1. Cardinality(Users(K, e)) = Cardinality(Users(H, e)) - 1
        <4>1. IsFiniteSet(Users(H, e))
          BY UsersAre
        <4> QED
          BY <1>4, <4>1, FS_RemoveElement
      <3>2. S.file[e].count = Cardinality(Users(H, e)) /\ Users(H, e) # {}
        BY <1>4, <2>1, <2>3 DEF UserOK
      <3>3. T.file[e].count = Cardinality(Users(K, e))
        BY <1>2, <3>1, <3>2
      <3>4. S.file[e].name \in Names /\ (S.file[e].close <=> ~ (e \in S.tree)) /\ S.file[e].fd # 0
        BY <2>1, <2>3, <3>2 DEF UserOK
      <3> QED
        BY <1>2, <1>6, <2>3, <3>3, <3>4 DEF UserOK
    <2> QED
      BY <2>2, <2>3
  <1>8. ListsOK(T, x)
    BY <1>1, <1>2 DEF Consistent, ListsOK
  <1>9. TableOK(T)
    BY <1>2 DEF Consistent, TableOK
  <1>10. OwnersOK(T, L)
    <2>1. \A a \in Entries : T.file[a].fd # 0 => OwnerOK(T, L, T.file[a])
      BY <1>1, <1>2 DEF Consistent, OwnersOK, OwnerOK
    <2>2. \A a \in Entries : T.file[a].fd = S.file[a].fd
      BY <1>2
    <2> QED
      BY <1>2, <2>1, <2>2 DEF Consistent, OwnersOK
  <1>11. HandlesOK(T, K, L)
    <2>1. \A a \in Entries : T.file[a].fd = S.file[a].fd
      BY <1>2
    <2>2. ASSUME NEW q \in Requests, q # r, K[q] # Nothing
          PROVE  HandleOK(T, L, K[q])
      <3>1. HandleOK(S, L, H[q]) /\ H[q].entry \in Entries /\ K[q] = H[q]
        BY <1>1, <1>3, <2>2 DEF Consistent, HandlesOK, Handle
      <3> QED
        BY <1>2, <2>1, <3>1 DEF HandleOK
    <2> QED
      BY <1>3, <2>2 DEF HandlesOK
  <1>12. FreshOK(T)
    BY <1>1, <1>2 DEF Consistent, FreshOK
  <1> QED
    BY <1>7, <1>8, <1>9, <1>10, <1>11, <1>12 DEF Consistent, K

(* The memory of an entry that nobody uses any more is freed, its          *)
(* descriptor is left over.                                                *)
LEMMA Dropped ==
  ASSUME NEW S, NEW T \in States, NEW H, NEW K, NEW L, NEW x, Consistent(S, H, L, x),
         NEW e \in Entries, Users(K, e) = {},
         K \in [Requests -> Handle \cup {Nothing}],
         \A q \in Requests : K[q] = Nothing \/ K[q] = H[q],
         \A a \in Entries \ {e} : Users(K, a) = Users(H, a),
         T.tree = S.tree \ {e}, T.current = Cardinality(T.tree), T.current <= MaxFiles,
         ToSet(T.queue) = T.tree, IsInjective(T.queue), T.fds = S.fds,
         T.file = [S.file EXCEPT ![e] = Free]
  PROVE  Consistent(T, K, L \cup ({S.file[e].fd} \ {0}), None)
  <1> DEFINE M == L \cup ({S.file[e].fd} \ {0})
  <1>1. /\ S \in States /\ S.tree \subseteq Entries /\ L \subseteq Fds /\ 0 \notin Fds
        /\ None \notin Entries /\ Free.fd = 0 /\ Free.count = 0
    BY CacheBasics DEF Consistent, States, OwnersOK
  <1>2. T.file[e] = Free /\ \A a \in Entries \ {e} : T.file[a] = S.file[a]
    BY <1>1 DEF States
  <1>3. S.file[e].fd # 0 => OwnerOK(S, L, S.file[e])
    BY DEF Consistent, OwnersOK
  <1>4. ListsOK(T, None)
    BY <1>1, <1>2 DEF Consistent, ListsOK
  <1>5. UsersOK(T, K)
    <2>1. UserOK(T.file[e], e \in T.tree, Users(K, e))
      <3>1. Cardinality(Users(K, e)) = 0
        BY UsersAre
      <3> QED
        BY <1>1, <1>2, <3>1 DEF UserOK
    <2>2. \A a \in Entries \ {e} : UserOK(T.file[a], a \in T.tree, Users(K, a))
      BY <1>2 DEF Consistent, UsersOK
    <2> QED
      BY <2>1, <2>2 DEF UsersOK
  <1>6. TableOK(T)
    BY DEF Consistent, TableOK
  <1>7. \A a \in Entries \ {e} : S.file[a].fd # 0 =>
          S.file[a].fd # S.file[e].fd /\ S.file[a].fd \notin M /\ OwnerOK(S, L, S.file[a])
    BY DEF Consistent, OwnersOK, OwnerOK
  <1>8. OwnersOK(T, M)
    <2>1. \A a \in Entries : T.file[a].fd # 0 => OwnerOK(T, M, T.file[a])
      BY <1>1, <1>2, <1>7 DEF OwnerOK
    <2>2. \A a, b \in Entries : T.file[a].fd = T.file[b].fd /\ T.file[a].fd # 0 => a = b
      BY <1>1, <1>2 DEF Consistent, OwnersOK
    <2>3. ASSUME NEW d \in Fds \ M, T.fds[d].ino # 0
          PROVE  \E a \in Entries : T.file[a].fd = d
      <3>1. PICK a \in Entries : S.file[a].fd = d
        BY <2>3 DEF Consistent, OwnersOK
      <3>2. a # e
        BY <1>1, <2>3, <3>1
      <3> QED
        BY <1>2, <3>1, <3>2
    <2>4. M \subseteq Fds /\ \A d \in M : T.fds[d].ino # 0
      BY <1>1, <1>3 DEF Consistent, OwnersOK, OwnerOK
    <2> HIDE DEF M
    <2> QED
      BY <2>1, <2>2, <2>3, <2>4 DEF OwnersOK
  <1>9. HandlesOK(T, K, M)
    <2> SUFFICES ASSUME NEW q \in Requests, K[q] # Nothing
                 PROVE  HandleOK(T, M, K[q])
      BY DEF HandlesOK
    <2>1. K[q] = H[q] /\ H[q] \in Handle /\ HandleOK(S, L, H[q]) /\ H[q].entry \in Entries
      BY DEF Consistent, HandlesOK, Handle
    <2>2. K[q].entry # e
      BY DEF Users
    <2> QED
      BY <1>2, <2>1, <2>2 DEF HandleOK
  <1>10. FreshOK(T)
    BY <1>1, <1>2 DEF Consistent, FreshOK
  <1> QED
    BY <1>4, <1>5, <1>6, <1>8, <1>9, <1>10 DEF Consistent

(* An entry that is used leaves the tree and lives on.                     *)
LEMMA Detached ==
  ASSUME NEW S, NEW T \in States, NEW H, NEW L, NEW x, Consistent(S, H, L, x),
         NEW e \in S.tree, Users(H, e) # {},
         T.tree = S.tree \ {e}, T.current = Cardinality(T.tree), T.current <= MaxFiles,
         ToSet(T.queue) = T.tree, IsInjective(T.queue), T.fds = S.fds,
         T.file = [S.file EXCEPT ![e].close = TRUE]
  PROVE  Consistent(T, H, L, None)
  <1>1. /\ S \in States /\ S.tree \subseteq Entries /\ None \notin Entries /\ e \in Entries
        /\ S.file[e] \in File
    BY CacheBasics DEF Consistent, States
  <1>2. /\ \A a \in Entries \ {e} : T.file[a] = S.file[a]
        /\ T.file[e].name = S.file[e].name /\ T.file[e].fd = S.file[e].fd /\ T.file[e].uniq = S.file[e].uniq
        /\ T.file[e].err = S.file[e].err /\ T.file[e].dir = S.file[e].dir
        /\ T.file[e].count = S.file[e].count /\ T.file[e].close = TRUE
    BY <1>1 DEF States, File
  <1>3. ListsOK(T, None)
    BY <1>1, <1>2 DEF Consistent, ListsOK
  <1>4. UsersOK(T, H)
    BY <1>1, <1>2 DEF Consistent, UsersOK, UserOK
  <1>5. TableOK(T)
    BY DEF Consistent, TableOK
  <1>6. OwnersOK(T, L)
    <2>1. \A a \in Entries : T.file[a].fd # 0 => OwnerOK(T, L, T.file[a])
      BY <1>1, <1>2 DEF Consistent, OwnersOK, OwnerOK
    <2>2. \A a \in Entries : T.file[a].fd = S.file[a].fd
      BY <1>2
    <2>3. \A d \in Fds \ L : T.fds[d].ino # 0 => \E a \in Entries : T.file[a].fd = d
      BY <2>2 DEF Consistent, OwnersOK
    <2>4. \A a, b \in Entries : T.file[a].fd = T.file[b].fd /\ T.file[a].fd # 0 => a = b
      BY <2>2 DEF Consistent, OwnersOK
    <2>5. L \subseteq Fds /\ \A d \in L : T.fds[d].ino # 0
      BY DEF Consistent, OwnersOK
    <2> QED
      BY <2>1, <2>3, <2>4, <2>5 DEF OwnersOK
  <1>7. HandlesOK(T, H, L)
    <2>1. \A a \in Entries : T.file[a].fd = S.file[a].fd
      BY <1>2
    <2> QED
      BY <2>1 DEF Consistent, HandlesOK, HandleOK, Handle
  <1>8. FreshOK(T)
    BY <1>1, <1>2 DEF Consistent, FreshOK
  <1> QED
    BY <1>3, <1>4, <1>5, <1>6, <1>7, <1>8 DEF Consistent

(* A new entry takes a place that is free.                                 *)
LEMMA Entered ==
  ASSUME NEW S, NEW T \in States, NEW H, NEW L, Consistent(S, H, L, None),
         NEW e \in Entries, S.file[e] = Free, S.current < MaxFiles,
         \A a \in Entries \ {e} : T.file[a] = S.file[a],
         T.file[e].name \in Names, \A a \in S.tree : S.file[a].name # T.file[e].name,
         T.file[e].count = 0, T.file[e].close = FALSE, T.file[e].fd = 0,
         T.tree = S.tree \cup {e}, T.current = S.current + 1, T.queue = S.queue, T.fds = S.fds
  PROVE  Consistent(T, H, L, e)
  <1>1. /\ S \in States /\ S.tree \subseteq Entries /\ L \subseteq Fds /\ 0 \notin Fds
        /\ H \in [Requests -> Handle \cup {Nothing}] /\ Free.fd = 0
    BY CacheBasics DEF Consistent, States, OwnersOK, HandlesOK
  <1>2. e \notin S.tree /\ Users(H, e) = {}
    BY CacheBasics DEF Consistent, UsersOK, UserOK
  <1>3. \A a \in Entries : T.file[a].fd = S.file[a].fd
    BY <1>1
  <1>4. T.current = Cardinality(T.tree) /\ T.current <= MaxFiles
    <2>1. IsFiniteSet(S.tree)
      BY <1>1, CacheBasics, FS_Subset
    <2>2. Cardinality(S.tree) \in Nat /\ Cardinality(T.tree) = Cardinality(S.tree) + 1
      BY <1>2, <2>1, FS_AddElement, FS_CardinalityType
    <2>3. S.current = Cardinality(S.tree)
      BY DEF Consistent, ListsOK
    <2> QED
      BY <2>2, <2>3, CacheBasics
  <1>5. ListsOK(T, e)
    <2>1. ToSet(S.queue) = S.tree
      BY <1>1, CacheBasics DEF Consistent, ListsOK
    <2> QED
      BY <1>1, <1>2, <1>4, <2>1 DEF Consistent, ListsOK
  <1>6. UsersOK(T, H)
    <2>1. UserOK(T.file[e], e \in T.tree, Users(H, e))
      <3>1. Cardinality(Users(H, e)) = 0
        BY <1>2, UsersAre
      <3> QED
        BY <1>2, <3>1 DEF UserOK
    <2>2. \A a \in Entries \ {e} : UserOK(T.file[a], a \in T.tree, Users(H, a))
      BY DEF Consistent, UsersOK
    <2> QED
      BY <2>1, <2>2 DEF UsersOK
  <1>7. TableOK(T)
    BY DEF Consistent, TableOK
  <1>8. OwnersOK(T, L)
    <2>1. \A a \in Entries : T.file[a].fd # 0 => OwnerOK(T, L, T.file[a])
      BY DEF Consistent, OwnersOK, OwnerOK
    <2> QED
      BY <1>3, <2>1 DEF Consistent, OwnersOK
  <1>9. HandlesOK(T, H, L)
    BY <1>3 DEF Consistent, HandlesOK, HandleOK, Handle
  <1>10. FreshOK(T)
    BY <1>1, <1>2 DEF Consistent, FreshOK
  <1> QED
    BY <1>5, <1>6, <1>7, <1>8, <1>9, <1>10 DEF Consistent

(* There is a place for a new entry.                                       *)
LEMMA PlaceLeft ==
  ASSUME NEW S, NEW H, NEW L, Consistent(S, H, L, None), S.current < MaxFiles,
         NEW r \in Requests, H[r] = Nothing
  PROVE  \E e \in Entries : S.file[e] = Free
  <1> SUFFICES ASSUME \A e \in Entries : S.file[e] # Free
               PROVE  FALSE
    OBVIOUS
  <1> DEFINE others == Requests \ {r}
             entry == [q \in others |-> H[q].entry]
             used == {H[q].entry : q \in others}
  <1>1. S.tree \subseteq Entries /\ IsFiniteSet(S.tree) /\ S.current = Cardinality(S.tree)
    BY CacheBasics, FS_Subset DEF Consistent, States, ListsOK
  <1>2. \A e \in Entries : e \in S.tree \/ Users(H, e) # {}
    BY DEF Consistent, UsersOK, UserOK
  <1>3. \A e \in Entries : e \in S.tree \/ e \in used
    BY <1>2, CacheBasics DEF Users
  <1>4. IsFiniteSet(others) /\ Cardinality(others) = Cardinality(Requests) - 1
    BY CacheBasics, FS_RemoveElement
  <1>5. IsFiniteSet(used) /\ Cardinality(used) <= Cardinality(others)
    <2>1. entry \in Surjection(others, used)
      BY DEF Surjection
    <2> HIDE DEF entry, others, used
    <2> QED
      BY <1>4, <2>1, FS_Surjection
  <1>6. IsFiniteSet(S.tree \cup used) /\ Cardinality(S.tree \cup used) <= Cardinality(S.tree) + Cardinality(used)
    <2>1. /\ IsFiniteSet(S.tree \cup used)
          /\ Cardinality(S.tree \cup used)
               = Cardinality(S.tree) + Cardinality(used) - Cardinality(S.tree \cap used)
      BY <1>1, <1>5, FS_Union
    <2>2. IsFiniteSet(S.tree \cap used)
      BY <1>1, FS_Subset
    <2>3. Cardinality(S.tree) \in Nat /\ Cardinality(used) \in Nat /\ Cardinality(S.tree \cap used) \in Nat
      BY <1>1, <1>5, <2>2, FS_CardinalityType
    <2> HIDE DEF used
    <2> QED
      BY <2>1, <2>3
  <1>7. Cardinality(Entries) <= Cardinality(S.tree \cup used)
    <2>1. Entries \subseteq S.tree \cup used
      BY <1>3
    <2> QED
      BY <1>6, <2>1, FS_Subset
  <1>8. /\ Cardinality(S.tree) \in Nat /\ Cardinality(used) \in Nat /\ Cardinality(Requests) \in Nat
        /\ Cardinality(Entries) \in Nat /\ Cardinality(S.tree \cup used) \in Nat /\ Cardinality(others) \in Nat
    BY <1>1, <1>4, <1>5, <1>6, CacheBasics, FS_CardinalityType
  <1>9. Cardinality(Entries) >= MaxFiles + Cardinality(Requests) /\ MaxFiles \in Nat
    BY OpenFileCacheAssumption
  <1> HIDE DEF used, entry, others
  <1> QED
    BY <1>1, <1>4, <1>5, <1>6, <1>7, <1>8, <1>9

-----------------------------------------------------------------------------
(* Types. *)

(* A finite set of numbers has a largest one.                              *)
LEMMA GreatestNumber ==
  ASSUME NEW T \in SUBSET Nat, T # {}, IsFiniteSet(T)
  PROVE  \E x \in T : \A y \in T : x >= y
  <1> DEFINE Bad(U) == U # {} /\ ~ \E x \in U : \A y \in U : x >= y
             bad == {U \in FiniteSubsetsOf(Nat) : Bad(U)}
             R == StrictSubsetOrdering(Nat)
  <1> SUFFICES ASSUME Bad(T)
               PROVE  FALSE
    OBVIOUS
  <1>1. bad \subseteq FiniteSubsetsOf(Nat) /\ bad # {}
    BY DEF FiniteSubsetsOf
  <1>2. IsWellFoundedOn(R, FiniteSubsetsOf(Nat))
    BY FS_StrictSubsetOrderingWellFounded
  <1>3. PICK U \in bad : \A V \in bad : ~ << V, U >> \in R
    <2> HIDE DEF bad, R
    <2> QED
      BY <1>1, <1>2, WFMin
  <1>4. U \in SUBSET Nat /\ IsFiniteSet(U) /\ Bad(U)
    BY DEF FiniteSubsetsOf
  <1>5. PICK x \in U : TRUE
    BY <1>4
  <1>6. U \ {x} \in FiniteSubsetsOf(Nat) /\ << U \ {x}, U >> \in R
    <2>1. IsFiniteSet(U \ {x})
      BY <1>4, FS_RemoveElement
    <2> QED
      BY <1>4, <1>5, <2>1 DEF FiniteSubsetsOf, StrictSubsetOrdering
  <1>7. ~ Bad(U \ {x})
    BY <1>3, <1>6
  <1>8. CASE U \ {x} = {}
    BY <1>4, <1>5, <1>8
  <1>9. CASE U \ {x} # {}
    <2>1. PICK z \in U \ {x} : \A y \in U \ {x} : z >= y
      BY <1>7, <1>9
    <2>2. x \in Nat /\ z \in Nat /\ U \subseteq Nat
      BY <1>4, <1>5, <2>1
    <2>3. CASE z >= x
      <3>1. \A y \in U : z >= y
        BY <2>1, <2>3
      <3> QED
        BY <1>4, <2>1, <3>1
    <2>4. CASE x > z
      <3>1. \A y \in U \ {x} : x >= y
        BY <2>1, <2>2, <2>4
      <3>2. \A y \in U : x >= y
        BY <2>2, <3>1
      <3> QED
        BY <1>4, <1>5, <3>2
    <2> QED
      BY <2>2, <2>3, <2>4
  <1> QED
    BY <1>8, <1>9

(* The bounds of the counted uses and of the ages are numbers.             *)
LEMMA CapsAre == UsesCap \in Nat \ {0} /\ AgeCap \in Nat /\ Valid \in Nat
  <1>1. MinUses \in SUBSET Nat /\ MinUses # {} /\ IsFiniteSet(MinUses) /\ MinUses \subseteq Nat \ {0}
    BY OpenFileCacheAssumption
  <1>2. \E x \in MinUses : \A y \in MinUses : x >= y
    BY <1>1, GreatestNumber
  <1>3. UsesCap \in MinUses
    BY <1>2 DEF UsesCap, Max
  <1> QED
    BY <1>1, <1>3, OpenFileCacheAssumption DEF AgeCap

(* Ages grow up to their bound.                                            *)
LEMMA AgedIs ==
  ASSUME NEW cap \in Nat, NEW age \in 0 .. cap
  PROVE  Aged(age, cap) \in 0 .. cap /\ age <= Aged(age, cap)
  BY DEF Aged

(* What a file is once the fields are given. *)
LEMMA FileIs ==
  ASSUME NEW f
  PROVE  f \in File <=>
           /\ f = [name |-> f.name, fd |-> f.fd, uniq |-> f.uniq, err |-> f.err, dir |-> f.dir,
                   uses |-> f.uses, count |-> f.count, close |-> f.close, created |-> f.created,
                   accessed |-> f.accessed]
           /\ f.name \in Names \cup {None} /\ f.fd \in 0 .. MaxFd /\ f.uniq \in Inodes \cup {0}
           /\ f.err \in BOOLEAN /\ f.dir \in BOOLEAN /\ f.uses \in 0 .. UsesCap
           /\ f.count \in 0 .. Cardinality(Requests) /\ f.close \in BOOLEAN
           /\ f.created \in 0 .. Valid /\ f.accessed \in 0 .. AgeCap
  BY DEF File

(* An entry that is not used is a file without a name.                     *)
LEMMA FreeIs == Free \in File
  BY CapsAre, CacheBasics, FS_CardinalityType DEF Free, File

(* An entry that is used counts at least one request, and not all of them  *)
(* if somebody is about to open a file.                                    *)
LEMMA CountIs ==
  ASSUME NEW S, NEW H, NEW L, NEW x, Consistent(S, H, L, x), NEW e \in Entries
  PROVE  /\ S.file[e].count = Cardinality(Users(H, e)) /\ S.file[e].count \in 0 .. Cardinality(Requests)
         /\ S.file[e].count = 0 <=> Users(H, e) = {}
         /\ \A r \in Requests : H[r] = Nothing => S.file[e].count + 1 \in 0 .. Cardinality(Requests)
  <1>1. S.file[e].count = Cardinality(Users(H, e))
    BY DEF Consistent, UsersOK, UserOK
  <1>2. ASSUME NEW r \in Requests, H[r] = Nothing
        PROVE  Cardinality(Users(H, e)) + 1 \in 0 .. Cardinality(Requests)
    <2>1. IsFiniteSet(Requests \ {r}) /\ Cardinality(Requests \ {r}) = Cardinality(Requests) - 1
      BY CacheBasics, FS_RemoveElement
    <2>2. Users(H, e) \subseteq Requests \ {r}
      BY <1>2, CacheBasics DEF Users
    <2>3. Cardinality(Users(H, e)) <= Cardinality(Requests) - 1
      BY <2>1, <2>2, FS_Subset
    <2>4. Cardinality(Users(H, e)) \in Nat /\ Cardinality(Requests) \in Nat
      BY UsersAre, CacheBasics, FS_CardinalityType
    <2> QED
      BY <2>3, <2>4
  <1> QED
    BY <1>1, <1>2, UsersAre

-----------------------------------------------------------------------------
(* The steps of a call. *)

(* T has the descriptors of S, some of them closed; those of L as before.  *)
Shrinks(T, S, L) ==
  \A d \in Fds : T.fds[d] = S.fds[d] \/ (T.fds[d] = Closed /\ d \notin L)

(* An entry that a request looked up has left the queue, and counts the    *)
(* use.                                                                    *)
LEMMA TouchedOK ==
  ASSUME NEW S, NEW H, NEW L, Consistent(S, H, L, None), NEW e \in S.tree
  PROVE  /\ Consistent(Touched(S, e), H, L, e)
         /\ Touched(S, e).tree = S.tree /\ Touched(S, e).fds = S.fds /\ Touched(S, e).current = S.current
         /\ \A a \in Entries : /\ Alike(Touched(S, e).file[a], S.file[a])
                               /\ Touched(S, e).file[a].created = S.file[a].created
  <1> DEFINE T == Touched(S, e)
  <1>1. /\ S \in States /\ S.tree \subseteq Entries /\ e \in Entries /\ S.file[e] \in File
        /\ S.queue \in Seq(Entries) /\ IsInjective(S.queue) /\ ToSet(S.queue) = S.tree
    BY CacheBasics DEF Consistent, States, ListsOK
  <1>2. PICK queue : queue = Unqueued(S.queue, e)
    OBVIOUS
  <1>3. queue \in Seq(Entries) /\ IsInjective(queue) /\ ToSet(queue) = S.tree \ {e}
    BY <1>1, <1>2, UnqueuedIs
  <1>4. PICK g : g = [S.file[e] EXCEPT !.uses = Aged(@, UsesCap)]
    OBVIOUS
  <1>5. S.file[e].uses \in 0 .. UsesCap
    BY <1>1 DEF File
  <1>6. Aged(S.file[e].uses, UsesCap) \in 0 .. UsesCap
    BY <1>5, CapsAre, AgedIs
  <1>7. /\ g \in File /\ g.name = S.file[e].name /\ g.fd = S.file[e].fd /\ g.uniq = S.file[e].uniq
        /\ g.err = S.file[e].err /\ g.dir = S.file[e].dir /\ g.count = S.file[e].count
        /\ g.close = S.file[e].close /\ g.created = S.file[e].created
    BY <1>1, <1>4, <1>6 DEF File
  <1>8. S.file[e] # Free
    BY <1>1, CacheBasics DEF Consistent, UsersOK, UserOK
  <1>9. Alike(g, S.file[e])
    BY <1>7, <1>8 DEF Alike
  <1>10. T = [S EXCEPT !.file = [S.file EXCEPT ![e] = g], !.queue = queue]
    BY <1>1, <1>2, <1>4 DEF Touched, States
  <1> HIDE DEF T
  <1>11. /\ T \in States /\ T.tree = S.tree /\ T.fds = S.fds /\ T.current = S.current /\ T.queue = queue
         /\ T.file[e] = g /\ \A a \in Entries \ {e} : T.file[a] = S.file[a]
    BY <1>1, <1>3, <1>7, <1>10 DEF States
  <1>12. \A a \in Entries : Alike(T.file[a], S.file[a]) /\ T.file[a].created = S.file[a].created
    BY <1>7, <1>9, <1>11 DEF Alike
  <1>13. FreshOK(T)
    BY <1>1, <1>11, <1>12 DEF Consistent, FreshOK, Alike
  <1>14. Consistent(T, H, L, e)
    BY <1>3, <1>11, <1>12, <1>13, Moved DEF SameFds
  <1> QED
    BY <1>11, <1>12, <1>14 DEF T

(* It comes back to the head of the queue.                                 *)
LEMMA ToHeadOK ==
  ASSUME NEW S, NEW H, NEW L, NEW e \in S.tree, Consistent(S, H, L, e)
  PROVE  /\ Consistent(ToHead(S, e), H, L, None)
         /\ ToHead(S, e).tree = S.tree /\ ToHead(S, e).fds = S.fds /\ ToHead(S, e).current = S.current
         /\ \A a \in Entries : /\ Alike(ToHead(S, e).file[a], S.file[a])
                               /\ ToHead(S, e).file[a].created = S.file[a].created
  <1> DEFINE T == ToHead(S, e)
  <1>1. /\ S \in States /\ S.tree \subseteq Entries /\ e \in Entries /\ S.file[e] \in File
        /\ S.queue \in Seq(Entries) /\ IsInjective(S.queue) /\ ToSet(S.queue) = S.tree \ {e}
        /\ None \notin Entries
    BY CacheBasics DEF Consistent, States, ListsOK
  <1>2. PICK queue : queue = << e >> \o S.queue
    OBVIOUS
  <1>3. queue \in Seq(Entries) /\ IsInjective(queue) /\ ToSet(queue) = S.tree \ {None}
    <2>1. e \notin ToSet(S.queue)
      BY <1>1
    <2>2. queue \in Seq(Entries) /\ IsInjective(queue) /\ ToSet(queue) = ToSet(S.queue) \cup {e}
      BY <1>1, <1>2, <2>1, AtHeadIs
    <2> QED
      BY <1>1, <2>2
  <1>4. PICK g : g = [S.file[e] EXCEPT !.accessed = 0]
    OBVIOUS
  <1>5. 0 \in 0 .. AgeCap
    BY CapsAre
  <1>7. /\ g \in File /\ g.name = S.file[e].name /\ g.fd = S.file[e].fd /\ g.uniq = S.file[e].uniq
        /\ g.err = S.file[e].err /\ g.dir = S.file[e].dir /\ g.count = S.file[e].count
        /\ g.close = S.file[e].close /\ g.created = S.file[e].created
    BY <1>1, <1>4, <1>5 DEF File
  <1>8. S.file[e] # Free
    BY <1>1, CacheBasics DEF Consistent, UsersOK, UserOK
  <1>9. Alike(g, S.file[e])
    BY <1>7, <1>8 DEF Alike
  <1>10. T = [S EXCEPT !.file = [S.file EXCEPT ![e] = g], !.queue = queue]
    BY <1>1, <1>2, <1>4 DEF ToHead, States
  <1> HIDE DEF T
  <1>11. /\ T \in States /\ T.tree = S.tree /\ T.fds = S.fds /\ T.current = S.current /\ T.queue = queue
         /\ T.file[e] = g /\ \A a \in Entries \ {e} : T.file[a] = S.file[a]
    BY <1>1, <1>3, <1>7, <1>10 DEF States
  <1>12. \A a \in Entries : Alike(T.file[a], S.file[a]) /\ T.file[a].created = S.file[a].created
    BY <1>7, <1>9, <1>11 DEF Alike
  <1>13. FreshOK(T)
    BY <1>1, <1>11, <1>12 DEF Consistent, FreshOK, Alike
  <1>14. Consistent(T, H, L, None)
    BY <1>3, <1>11, <1>12, <1>13, Moved DEF SameFds
  <1> QED
    BY <1>11, <1>12, <1>14 DEF T

(* A descriptor that neither an entry nor a request has is closed.         *)
LEMMA CloseFdOK ==
  ASSUME NEW S, NEW H, NEW L, NEW x, Consistent(S, H, L, x), NEW d,
         d = 0 \/ (d \in L /\ \A r \in Requests : H[r].fd # d),
         NEW T, T = CloseFd(S, d)
  PROVE  /\ Consistent(T, H, L \ {d}, x)
         /\ T.file = S.file /\ T.tree = S.tree /\ T.queue = S.queue /\ T.current = S.current
         /\ Shrinks(T, S, L \ {d})
  <1>1. S \in States /\ L \subseteq Fds /\ 0 \notin Fds
    BY CacheBasics DEF Consistent, OwnersOK
  <1>2. CASE d = 0
    <2>1. L \ {d} = L /\ T = S
      BY <1>1, <1>2 DEF CloseFd
    <2> QED
      BY <2>1 DEF Shrinks
  <1>3. CASE d # 0
    <2>1. d \in Fds /\ d \in L /\ \A r \in Requests : H[r].fd # d
      BY <1>1, <1>3
    <2>3. T = [S EXCEPT !.fds[d] = Closed]
      BY <1>3 DEF CloseFd
    <2>4. Closed \in Fd
      BY CapsAre DEF Closed, Fd
    <2>5. /\ T \in States /\ T.file = S.file /\ T.tree = S.tree /\ T.queue = S.queue /\ T.current = S.current
          /\ T.fds[d] = Closed /\ \A c \in Fds : c # d => T.fds[c] = S.fds[c]
      BY <1>1, <2>1, <2>3, <2>4 DEF States
    <2>6. Consistent(T, H, L \ {d}, x)
      BY <2>1, <2>3, <2>5, ClosedFd
    <2>7. Shrinks(T, S, L \ {d})
      BY <2>5 DEF Shrinks
    <2> QED
      BY <2>5, <2>6, <2>7
  <1> QED
    BY <1>2, <1>3

(* One entry less is in the tree.                                          *)
LEMMA FewerInTree ==
  ASSUME NEW S, NEW H, NEW L, NEW x, Consistent(S, H, L, x), NEW e \in S.tree
  PROVE  /\ S.current \in Nat /\ S.current - 1 \in Nat /\ S.current - 1 <= MaxFiles
         /\ S.current - 1 = Cardinality(S.tree \ {e})
  <1>1. IsFiniteSet(S.tree) /\ S.current = Cardinality(S.tree) /\ S.current <= MaxFiles
    BY CacheBasics, FS_Subset DEF Consistent, States, ListsOK
  <1>2. Cardinality(S.tree \ {e}) = Cardinality(S.tree) - 1
    BY <1>1, FS_RemoveElement
  <1>3. Cardinality(S.tree) \in Nat /\ Cardinality(S.tree \ {e}) \in Nat
    BY <1>1, FS_RemoveElement, FS_CardinalityType
  <1> QED
    BY <1>1, <1>2, <1>3, CacheBasics

(* The memory is freed and the descriptor closed.                          *)
Vacates(T, S, e, K, H) ==
  /\ T \in States /\ T.tree = S.tree \ {e} /\ T.current = Cardinality(T.tree) /\ T.current <= MaxFiles
  /\ ToSet(T.queue) = T.tree /\ IsInjective(T.queue) /\ T.fds = S.fds
  /\ T.file = [S.file EXCEPT ![e] = Free]
  /\ Users(K, e) = {} /\ K \in [Requests -> Handle \cup {Nothing}]
  /\ \A q \in Requests : K[q] = Nothing \/ K[q] = H[q]
  /\ \A a \in Entries \ {e} : Users(K, a) = Users(H, a)

(* The memory of an entry that nobody uses is freed, and its descriptor    *)
(* closed.                                                                 *)
LEMMA Discarded ==
  ASSUME NEW S, NEW H, NEW L, NEW x, Consistent(S, H, L, x), NEW e \in Entries, NEW T, NEW K,
         Vacates(T, S, e, K, H), NEW U, U = CloseFd(T, S.file[e].fd)
  PROVE  /\ Consistent(U, K, L, None) /\ Shrinks(U, S, L)
         /\ U.file = T.file /\ U.tree = T.tree /\ U.current = T.current
  <1> /\ T \in States /\ T.tree = S.tree \ {e} /\ T.current = Cardinality(T.tree)
      /\ T.current <= MaxFiles /\ ToSet(T.queue) = T.tree /\ IsInjective(T.queue) /\ T.fds = S.fds
      /\ T.file = [S.file EXCEPT ![e] = Free]
      /\ Users(K, e) = {} /\ K \in [Requests -> Handle \cup {Nothing}]
    BY DEF Vacates
  <1> \A q \in Requests : K[q] = Nothing \/ K[q] = H[q]
    BY DEF Vacates
  <1> \A a \in Entries \ {e} : Users(K, a) = Users(H, a)
    BY DEF Vacates
  <1> DEFINE d == S.file[e].fd
             M == L \cup ({d} \ {0})
  <1>1. Consistent(T, K, M, None)
    BY Dropped
  <1>2. L \subseteq Fds /\ 0 \notin Fds /\ (d # 0 => OwnerOK(S, L, S.file[e]))
    BY CacheBasics DEF Consistent, OwnersOK
  <1>3. M \ {d} = L
    BY <1>2 DEF OwnerOK
  <1>4. d # 0 => \A r \in Requests : K[r].fd # d
    <2> SUFFICES ASSUME d # 0, NEW r \in Requests
                 PROVE  K[r].fd # d
      OBVIOUS
    <2>1. CASE K[r] = Nothing
      BY <2>1, CacheBasics
    <2>2. CASE K[r] # Nothing
      <3>1. K[r] = H[r] /\ HandleOK(S, L, H[r]) /\ H[r].entry \in Entries
        BY <2>2 DEF Consistent, HandlesOK, Handle
      <3>2. H[r].entry # e
        BY <3>1 DEF Users
      <3> QED
        BY <1>2, <3>1, <3>2 DEF HandleOK, OwnerOK, Consistent, OwnersOK
    <2> QED
      BY <2>1, <2>2
  <1>5. d = 0 \/ (d \in M /\ \A r \in Requests : K[r].fd # d)
    BY <1>4
  <1>6. U = CloseFd(T, d)
    OBVIOUS
  <1> HIDE DEF d, M
  <1>7. /\ Consistent(U, K, M \ {d}, None) /\ Shrinks(U, T, M \ {d})
        /\ U.file = T.file /\ U.tree = T.tree /\ U.current = T.current
    BY <1>1, <1>5, <1>6, CloseFdOK
  <1>8. Shrinks(U, S, L)
    BY <1>3, <1>7 DEF Shrinks
  <1> QED
    BY <1>3, <1>7, <1>8

(* A descriptor is closed before or after an entry changes.                *)
LEMMA CloseFdCommutes ==
  ASSUME NEW T \in States, NEW e \in Entries, NEW g, NEW d,
         NEW U, U = CloseFd(T, d), NEW V, V = [T EXCEPT !.file[e] = g],
         NEW W, W = [U EXCEPT !.file[e] = g]
  PROVE  W = CloseFd(V, d)
  BY DEF CloseFd, States

(* The label `failed` of ngx_open_cached_file(): the entry leaves the      *)
(* tree, and is freed and closed if nobody uses it.                        *)
LEMMA FailedEntryOK ==
  ASSUME NEW S, NEW H, NEW L, NEW e \in S.tree, Consistent(S, H, L, e)
  PROVE  Consistent(FailedEntry(S, e), H, L, None) /\ Shrinks(FailedEntry(S, e), S, L)
  <1> DEFINE T == Forget(S, e)
  <1>1. /\ S \in States /\ S.tree \subseteq Entries /\ e \in Entries /\ S.file[e] \in File
        /\ ToSet(S.queue) = S.tree \ {e} /\ IsInjective(S.queue) /\ S.queue \in Seq(Entries)
        /\ H \in [Requests -> Handle \cup {Nothing}]
    BY DEF Consistent, States, ListsOK, HandlesOK
  <1>2. /\ S.current \in Nat /\ S.current - 1 \in Nat /\ S.current - 1 <= MaxFiles
        /\ S.current - 1 = Cardinality(S.tree \ {e})
    BY FewerInTree
  <1>3. /\ T \in States /\ T.tree = S.tree \ {e} /\ T.current = S.current - 1 /\ T.queue = S.queue
        /\ T.fds = S.fds /\ T.file = S.file
    BY <1>1, <1>2 DEF Forget, States
  <1>4. S.file[e].count = 0 <=> Users(H, e) = {}
    BY <1>1, CountIs
  <1> HIDE DEF T
  <1>5. CASE S.file[e].count = 0
    <2>1. PICK U : U = [T EXCEPT !.file[e] = Free]
      OBVIOUS
    <2>2. /\ U \in States /\ U.tree = T.tree /\ U.current = T.current /\ U.queue = T.queue /\ U.fds = T.fds
          /\ U.file = [S.file EXCEPT ![e] = Free]
      BY <1>1, <1>3, <2>1, FreeIs DEF States
    <2>3. FailedEntry(S, e) = CloseFd(U, S.file[e].fd)
      <3>1. PICK A : A = CloseFd(T, S.file[e].fd)
        OBVIOUS
      <3>2. FailedEntry(S, e) = [A EXCEPT !.file[e] = Free]
        BY <1>5, <3>1 DEF FailedEntry, T
      <3>3. T \in States /\ e \in Entries
        BY <1>1, <1>3
      <3> QED
        BY <2>1, <3>1, <3>2, <3>3, CloseFdCommutes
    <2>4. PICK W : W = CloseFd(U, S.file[e].fd)
      OBVIOUS
    <2>5. /\ U.tree = S.tree \ {e} /\ U.current = Cardinality(U.tree) /\ U.current <= MaxFiles
          /\ ToSet(U.queue) = U.tree /\ IsInjective(U.queue) /\ U.fds = S.fds /\ Users(H, e) = {}
      BY <1>1, <1>2, <1>3, <1>4, <1>5, <2>2
    <2>6. Consistent(W, H, L, None) /\ Shrinks(W, S, L)
      <3>1. Vacates(U, S, e, H, H)
        BY <1>1, <2>2, <2>5 DEF Vacates
      <3> QED
        BY <1>1, <2>4, <3>1, Discarded
    <2> QED
      BY <2>3, <2>4, <2>6
  <1>6. CASE S.file[e].count # 0
    <2>1. PICK U : U = [T EXCEPT !.file[e].close = TRUE]
      OBVIOUS
    <2>2. [S.file[e] EXCEPT !.close = TRUE] \in File
      BY <1>1 DEF File
    <2>3. /\ U \in States /\ U.tree = T.tree /\ U.current = T.current /\ U.queue = T.queue /\ U.fds = T.fds
          /\ U.file = [S.file EXCEPT ![e].close = TRUE]
      BY <1>1, <1>3, <2>1, <2>2 DEF States
    <2>4. FailedEntry(S, e) = U
      BY <1>3, <1>6, <2>1 DEF FailedEntry, T
    <2>5. Consistent(U, H, L, None)
      BY <1>1, <1>2, <1>3, <1>4, <1>6, <2>3, Detached
    <2>6. Shrinks(U, S, L)
      BY <1>3, <2>3 DEF Shrinks
    <2> QED
      BY <2>4, <2>5, <2>6
  <1> QED
    BY <1>5, <1>6

(* The expiry of the oldest takes it out of the tree, and lets the other   *)
(* entries and the descriptors of L be.                                    *)
Expired(T, S, L) ==
  /\ T.tree \subseteq S.tree /\ \A a \in T.tree : T.file[a] = S.file[a]
  /\ T.current \in Nat /\ T.current <= S.current /\ Shrinks(T, S, L)

(* One round of ngx_expire_old_cached_files(); if it is forced, the count  *)
(* gets smaller.                                                           *)
LEMMA ExpireOneOK ==
  ASSUME NEW S, NEW H, NEW L, Consistent(S, H, L, None), NEW forced \in BOOLEAN
  PROVE  /\ Consistent(ExpireOne(S, forced), H, L, None)
         /\ Expired(ExpireOne(S, forced), S, L)
         /\ forced = TRUE /\ S.tree # {} => ExpireOne(S, forced).current < S.current
  <1>1. /\ S \in States /\ S.tree \subseteq Entries /\ None \notin Entries
        /\ ToSet(S.queue) = S.tree /\ IsInjective(S.queue) /\ S.queue \in Seq(Entries)
        /\ H \in [Requests -> Handle \cup {Nothing}] /\ S.current \in Nat
    BY CacheBasics DEF Consistent, States, ListsOK, HandlesOK
  <1>2. S.queue = << >> => S.tree = {}
    BY <1>1 DEF ToSet
  <1>3. CASE S.queue = << >> \/ (forced = FALSE /\ S.file[Last(S.queue)].accessed <= Inactive)
    <2>1. ExpireOne(S, forced) = S
      BY <1>3 DEF ExpireOne
    <2> QED
      BY <1>1, <1>2, <1>3, <2>1 DEF Expired, Shrinks
  <1>4. CASE S.queue # << >> /\ ~ (forced = FALSE /\ S.file[Last(S.queue)].accessed <= Inactive)
    <2>1. PICK e : e = Last(S.queue)
      OBVIOUS
    <2>2. PICK queue : queue = Front(S.queue)
      OBVIOUS
    <2>3. /\ e \in S.tree /\ e \in Entries /\ S.file[e] \in File
          /\ queue \in Seq(Entries) /\ IsInjective(queue) /\ ToSet(queue) = S.tree \ {e}
      BY <1>1, <1>4, <2>1, <2>2, FrontIs DEF States
    <2>4. /\ S.current - 1 \in Nat /\ S.current - 1 <= MaxFiles
          /\ S.current - 1 = Cardinality(S.tree \ {e})
      BY <2>3, FewerInTree
    <2>5. PICK T : T = Forget([S EXCEPT !.queue = queue], e)
      OBVIOUS
    <2>6. /\ T \in States /\ T.tree = S.tree \ {e} /\ T.current = S.current - 1 /\ T.queue = queue
          /\ T.fds = S.fds /\ T.file = S.file
      BY <1>1, <2>3, <2>4, <2>5 DEF Forget, States
    <2>7. S.file[e].count = 0 <=> Users(H, e) = {}
      BY <2>3, CountIs
    <2>8. S.file[e].err = TRUE \/ S.file[e].dir = TRUE => S.file[e].fd = 0 /\ Users(H, e) = {}
      BY <2>3 DEF Consistent, UsersOK, UserOK, OwnersOK, OwnerOK
    <2>9. PICK U : U = [T EXCEPT !.file[e] = Free]
      OBVIOUS
    <2>10. /\ U \in States /\ U.tree = T.tree /\ U.current = T.current /\ U.queue = T.queue /\ U.fds = T.fds
           /\ U.file = [S.file EXCEPT ![e] = Free]
      BY <2>3, <2>6, <2>9, FreeIs DEF States
    <2>11. PICK V : V = [T EXCEPT !.file[e].close = TRUE]
      OBVIOUS
    <2>12. /\ V \in States /\ V.tree = T.tree /\ V.current = T.current /\ V.queue = T.queue /\ V.fds = T.fds
           /\ V.file = [S.file EXCEPT ![e].close = TRUE]
           /\ V.file[e].count = S.file[e].count /\ V.file[e].close = TRUE /\ V.file[e].fd = S.file[e].fd
      <3>1. /\ [S.file[e] EXCEPT !.close = TRUE] \in File
            /\ [S.file[e] EXCEPT !.close = TRUE].count = S.file[e].count
            /\ [S.file[e] EXCEPT !.close = TRUE].fd = S.file[e].fd
            /\ [S.file[e] EXCEPT !.close = TRUE].close = TRUE
        BY <2>3 DEF File
      <3>2. V = [T EXCEPT !.file = [S.file EXCEPT ![e] = [S.file[e] EXCEPT !.close = TRUE]]]
        BY <2>3, <2>6, <2>11 DEF States
      <3>3. S.file \in [Entries -> File]
        BY <1>1 DEF States
      <3>4. [S.file EXCEPT ![e].close = TRUE] = [S.file EXCEPT ![e] = [S.file[e] EXCEPT !.close = TRUE]]
        BY <2>3, <3>3
      <3> QED
        BY <2>3, <2>6, <3>1, <3>2, <3>3, <3>4 DEF States
    <2>13. CASE Users(H, e) = {}
      <3>1. ExpireOne(S, forced) = CloseFd(U, S.file[e].fd)
        <4>1. CASE S.file[e].err = TRUE \/ S.file[e].dir = TRUE
          <5>1. ExpireOne(S, forced) = U
            BY <1>4, <2>1, <2>2, <2>5, <2>9, <4>1 DEF ExpireOne
          <5>2. CloseFd(U, S.file[e].fd) = U
            BY <2>8, <4>1 DEF CloseFd
          <5> QED
            BY <5>1, <5>2
        <4>2. CASE ~ (S.file[e].err = TRUE \/ S.file[e].dir = TRUE)
          <5>1. ExpireOne(S, forced) = CloseCached(V, e, 0)
            BY <1>4, <2>1, <2>2, <2>3, <2>5, <2>11, <4>2 DEF ExpireOne, File
          <5>2. PICK A : A = CloseFd(V, S.file[e].fd)
            OBVIOUS
          <5>3. CloseCached(V, e, 0) = [A EXCEPT !.file[e] = Free]
            BY <2>7, <2>12, <2>13, <5>2 DEF CloseCached
          <5>4. U = [V EXCEPT !.file[e] = Free]
            BY <2>3, <2>6, <2>9, <2>11 DEF States
          <5>5. V \in States /\ e \in Entries
            BY <2>3, <2>12
          <5>6. PICK B : B = ExpireOne(S, forced)
            OBVIOUS
          <5>7. B = [A EXCEPT !.file[e] = Free]
            BY <5>1, <5>3, <5>6
          <5>8. B = CloseFd(U, S.file[e].fd)
            BY <5>2, <5>4, <5>5, <5>7, CloseFdCommutes, SMTT(60)
          <5> QED
            BY <5>6, <5>8
        <4> QED
          BY <4>1, <4>2
      <3>2. PICK W : W = CloseFd(U, S.file[e].fd)
        OBVIOUS
      <3>3. /\ Consistent(W, H, L, None) /\ Shrinks(W, S, L)
            /\ W.file = U.file /\ W.tree = U.tree /\ W.current = U.current
        <4>1. /\ U.tree = S.tree \ {e} /\ U.current = Cardinality(U.tree) /\ U.current <= MaxFiles
              /\ ToSet(U.queue) = U.tree /\ IsInjective(U.queue) /\ U.fds = S.fds
          BY <2>3, <2>4, <2>6, <2>10
        <4>2. U \in States
          BY <2>10
        <4>5. U.file = [S.file EXCEPT ![e] = Free]
          BY <2>10
        <4>6. e \in Entries /\ H \in [Requests -> Handle \cup {Nothing}]
          BY <1>1, <2>3
        <4> QED
          <5>1. Vacates(U, S, e, H, H)
            BY <2>13, <4>1, <4>2, <4>5, <4>6 DEF Vacates
          <5> QED
            BY <3>2, <4>6, <5>1, Discarded
      <3>4. Expired(W, S, L) /\ W.current < S.current
        BY <1>1, <2>4, <2>6, <2>10, <3>3 DEF Expired, States
      <3> QED
        BY <3>1, <3>2, <3>3, <3>4
    <2>14. CASE Users(H, e) # {}
      <3>1. ExpireOne(S, forced) = V
        <4>1. ExpireOne(S, forced) = CloseCached(V, e, 0)
          BY <1>4, <2>1, <2>2, <2>3, <2>5, <2>8, <2>11, <2>14 DEF ExpireOne, File
        <4>2. V.file[e].count > 0
          <5>1. S.file[e].count \in Nat
            BY <2>3, CacheBasics, FS_CardinalityType DEF File
          <5> QED
            BY <2>7, <2>12, <2>14, <5>1
        <4>3. CloseCached(V, e, 0) = V
          BY <2>12, <4>2 DEF CloseCached
        <4> QED
          BY <4>1, <4>3
      <3>2. Consistent(V, H, L, None)
        BY <2>3, <2>4, <2>6, <2>12, <2>14, Detached
      <3>3. Expired(V, S, L) /\ V.current < S.current
        <4>1. \A a \in V.tree : V.file[a] = S.file[a]
          BY <1>1, <2>6, <2>12 DEF States
        <4> QED
          BY <1>1, <2>4, <2>6, <2>12, <4>1 DEF Expired, Shrinks
      <3> QED
        BY <3>1, <3>2, <3>3
    <2> QED
      BY <2>13, <2>14
  <1> QED
    BY <1>3, <1>4

(* ngx_expire_old_cached_files(cache, 1, log)                              *)
LEMMA ExpireOldOK ==
  ASSUME NEW S, NEW H, NEW L, Consistent(S, H, L, None)
  PROVE  Consistent(ExpireOld(S), H, L, None) /\ Expired(ExpireOld(S), S, L)
  <1>1. PICK T : T = ExpireOne(S, FALSE)
    OBVIOUS
  <1>2. Consistent(T, H, L, None) /\ Expired(T, S, L)
    BY <1>1, ExpireOneOK
  <1>3. PICK U : U = ExpireOne(T, FALSE)
    OBVIOUS
  <1>4. Consistent(U, H, L, None) /\ Expired(U, T, L)
    BY <1>2, <1>3, ExpireOneOK
  <1>5. S.current \in Nat
    BY DEF Consistent, States
  <1>6. Expired(U, S, L)
    BY <1>2, <1>4, <1>5 DEF Expired, Shrinks
  <1>7. ExpireOld(S) = U
    BY <1>1, <1>3 DEF ExpireOld
  <1> QED
    BY <1>4, <1>6, <1>7

(* ngx_expire_old_cached_files(cache, 0, log)                              *)
LEMMA ExpireForcedOK ==
  ASSUME NEW S, NEW H, NEW L, Consistent(S, H, L, None), S.tree # {}
  PROVE  /\ Consistent(ExpireForced(S), H, L, None) /\ Expired(ExpireForced(S), S, L)
         /\ ExpireForced(S).current < S.current
  <1>1. PICK T : T = ExpireOne(S, TRUE)
    OBVIOUS
  <1>2. Consistent(T, H, L, None) /\ Expired(T, S, L) /\ T.current < S.current
    BY <1>1, ExpireOneOK
  <1>3. PICK U : U = ExpireOld(T)
    OBVIOUS
  <1>4. Consistent(U, H, L, None) /\ Expired(U, T, L)
    BY <1>2, <1>3, ExpireOldOK
  <1>5. S.current \in Nat
    BY DEF Consistent, States
  <1>6. Expired(U, S, L) /\ U.current < S.current
    BY <1>2, <1>4, <1>5 DEF Expired, Shrinks
  <1>7. ExpireForced(S) = U
    BY <1>1, <1>3 DEF ExpireForced
  <1> QED
    BY <1>4, <1>6, <1>7

(* What an answer of the file system must know to go into an entry, which  *)
(* has the descriptor `own` before.                                        *)
OfOK(S, H, L, own, n, of) ==
  \/ of.err = TRUE /\ of.fd = 0
  \/ of.err = FALSE /\ of.dir = TRUE /\ of.fd = 0 /\ of.uniq \in Inodes
  \/ /\ of.err = FALSE /\ of.dir = FALSE /\ of.uniq \in Inodes
     /\ of.fd \in Fds /\ of.fd \in L \cup {own}
     /\ S.fds[of.fd].name = n /\ S.fds[of.fd].ino = of.uniq /\ S.fds[of.fd].stale = 0
     /\ of.fd \in L => \A r \in Requests : H[r].fd # of.fd

(* The entry keeps a descriptor for its users. *)
ServesUsers(H, e, of) == Users(H, e) # {} => of.err = FALSE /\ of.dir = FALSE

(* What the requests hold in the end. *)
Answered(H, r, e, of, minUses) ==
  IF of.err \/ of.dir THEN H
  ELSE [H EXCEPT ![r] = [entry |-> e, fd |-> of.fd, ino |-> of.uniq, minUses |-> minUses]]

(* The descriptors without an entry after that. *)
Spare(L, own, of) == (L \ {of.fd}) \cup ({own} \ {0, of.fd})

(* The labels `update` and `renew`: the answer goes into the entry, and    *)
(* the request uses it.                                                    *)
LEMMA UpdateOK ==
  ASSUME NEW S, NEW H, NEW L, NEW e \in S.tree, Consistent(S, H, L, e),
         NEW r \in Requests, H[r] = Nothing, NEW minUses \in MinUses, NEW of,
         OfOK(S, H, L, S.file[e].fd, S.file[e].name, of),
         ServesUsers(H, e, of)
  PROVE  /\ Consistent(Update(S, e, of), Answered(H, r, e, of, minUses),
                       Spare(L, S.file[e].fd, of), None)
         /\ Update(S, e, of).fds = S.fds /\ Update(S, e, of).tree = S.tree
         /\ Update(S, e, of).file[e].fd = of.fd /\ Update(S, e, of).file[e].created = 0
  <1> DEFINE f == S.file[e]
  <1> SUFFICES ASSUME NEW T, T = Update(S, e, of), NEW K, K = Answered(H, r, e, of, minUses),
                      NEW M, M = Spare(L, S.file[e].fd, of)
               PROVE  /\ Consistent(T, K, M, None)
                      /\ T.fds = S.fds /\ T.tree = S.tree
                      /\ T.file[e].fd = of.fd /\ T.file[e].created = 0
    OBVIOUS
  <1>1. /\ S \in States /\ S.tree \subseteq Entries /\ e \in Entries /\ S.file[e] \in File
        /\ S.file \in [Entries -> File] /\ H \in [Requests -> Handle \cup {Nothing}]
    BY DEF Consistent, States, HandlesOK
  <1>2. f.close = FALSE
    <2>1. f.close \in BOOLEAN
      BY <1>1 DEF File
    <2> QED
      BY <1>1, <2>1 DEF Consistent, UsersOK, UserOK
  <1>3. 0 \in 0 .. MaxFd /\ 0 \in 0 .. Valid /\ Fds \subseteq 0 .. MaxFd
    BY OpenFileCacheAssumption DEF Fds
  <1>4. CASE of.err = TRUE \/ of.dir = TRUE
    <2>1. of.fd = 0 /\ Users(H, e) = {}
      BY <1>4 DEF OfOK, ServesUsers
    <2>2. PICK g : g = IF of.err THEN [f EXCEPT !.fd = of.fd, !.err = TRUE, !.created = 0]
                       ELSE [f EXCEPT !.fd = of.fd, !.err = FALSE, !.created = 0, !.uniq = of.uniq,
                                      !.close = FALSE, !.dir = of.dir,
                                      !.count = IF of.dir THEN @ ELSE @ + 1]
      OBVIOUS
    <2>3. g \in File /\ g.fd = 0 /\ g.close = FALSE /\ g.created = 0 /\ g.name = f.name /\ g.count = f.count
      <3>1. CASE of.err = TRUE
        BY <1>1, <1>2, <1>3, <2>1, <2>2, <3>1 DEF File
      <3>2. CASE of.err = FALSE /\ of.dir = TRUE
        BY <1>1, <1>2, <1>3, <2>1, <2>2, <3>2 DEF File, OfOK
      <3> QED
        BY <1>4, <3>1, <3>2 DEF OfOK
    <2>4. PICK A : A = [S EXCEPT !.file[e] = g]
      OBVIOUS
    <2>5. /\ A \in States /\ A.tree = S.tree /\ A.queue = S.queue /\ A.current = S.current /\ A.fds = S.fds
          /\ A.file[e] = g /\ \A a \in Entries \ {e} : A.file[a] = S.file[a]
      BY <1>1, <2>3, <2>4 DEF States
    <2>6. Consistent(A, H, (L \ {A.file[e].fd}) \cup ({S.file[e].fd} \ {0, A.file[e].fd}), e)
      BY <2>1, <2>3, <2>5, Assigned
    <2>7. Consistent(A, H, M, e)
      BY <2>1, <2>3, <2>5, <2>6 DEF Spare
    <2>8. T = ToHead(A, e)
      BY <2>2, <2>4 DEF Update
    <2>9. e \in A.tree
      BY <2>5
    <2>10. /\ Consistent(ToHead(A, e), H, M, None)
           /\ ToHead(A, e).tree = A.tree /\ ToHead(A, e).fds = A.fds
           /\ Alike(ToHead(A, e).file[e], A.file[e]) /\ ToHead(A, e).file[e].created = A.file[e].created
      BY <1>1, <2>7, <2>9, ToHeadOK
    <2>11. K = H
      BY <1>4 DEF Answered
    <2> QED
      BY <2>1, <2>3, <2>5, <2>8, <2>10, <2>11 DEF Alike
  <1>5. CASE ~ (of.err = TRUE \/ of.dir = TRUE)
    <2>1. /\ of.err = FALSE /\ of.dir = FALSE /\ of.uniq \in Inodes
          /\ of.fd \in Fds /\ of.fd \in L \cup {f.fd}
          /\ S.fds[of.fd].name = f.name /\ S.fds[of.fd].ino = of.uniq /\ S.fds[of.fd].stale = 0
          /\ of.fd \in L => \A q \in Requests : H[q].fd # of.fd
      BY <1>5 DEF OfOK
    <2>2. PICK g : g = [f EXCEPT !.fd = of.fd, !.err = FALSE, !.created = 0, !.uniq = of.uniq,
                                 !.close = FALSE, !.dir = of.dir]
      OBVIOUS
    <2>3. /\ g \in File /\ g.fd = of.fd /\ g.close = FALSE /\ g.created = 0 /\ g.name = f.name
          /\ g.count = f.count /\ g.uniq = of.uniq /\ g.err = FALSE /\ g.dir = FALSE
      BY <1>1, <1>3, <2>1, <2>2 DEF File
    <2>4. PICK A : A = [S EXCEPT !.file[e] = g]
      OBVIOUS
    <2>5. /\ A \in States /\ A.tree = S.tree /\ A.queue = S.queue /\ A.current = S.current /\ A.fds = S.fds
          /\ A.file[e] = g /\ \A a \in Entries \ {e} : A.file[a] = S.file[a]
      BY <1>1, <2>3, <2>4 DEF States
    <2>6. Takes(S, H, L, f.fd, g)
      BY <2>1, <2>3, CacheBasics DEF Takes
    <2>7. Consistent(A, H, (L \ {A.file[e].fd}) \cup ({S.file[e].fd} \ {0, A.file[e].fd}), e)
      BY <2>3, <2>5, <2>6, Assigned
    <2>8. Consistent(A, H, M, e)
      BY <2>3, <2>5, <2>7 DEF Spare
    <2>9. PICK b : b = [g EXCEPT !.count = @ + 1]
      OBVIOUS
    <2>10. g.count + 1 \in 0 .. Cardinality(Requests)
      BY <1>1, <2>3, CountIs
    <2>11. b \in File /\ b.fd = of.fd /\ b.created = 0
      BY <2>3, <2>9, <2>10 DEF File
    <2>12. PICK B : B = [A EXCEPT !.file[e].count = @ + 1]
      OBVIOUS
    <2>13. B = [A EXCEPT !.file[e] = b]
      BY <1>1, <2>5, <2>9, <2>12 DEF States
    <2>14. /\ B \in States /\ B.tree = S.tree /\ B.fds = S.fds /\ B.file[e] = b
      BY <1>1, <2>5, <2>11, <2>13 DEF States
    <2>15. PICK h : h = [entry |-> e, fd |-> of.fd, ino |-> of.uniq, minUses |-> minUses]
      OBVIOUS
    <2>16. h \in Handle /\ h.entry = e /\ h.fd = of.fd /\ h.ino = of.uniq
      BY <1>1, <2>1, <2>15 DEF Handle
    <2>17. A.file[e].fd = of.fd /\ A.file[e].uniq = of.uniq /\ A.file[e].fd # 0 /\ e \in A.tree
      BY <2>1, <2>3, <2>5, CacheBasics
    <2>18. Consistent(B, [H EXCEPT ![r] = h], M, e)
      BY <2>8, <2>12, <2>14, <2>16, <2>17, TakesHold
    <2>19. K = [H EXCEPT ![r] = h]
      BY <2>1, <2>15 DEF Answered
    <2>20. e \in B.tree /\ Consistent(B, K, M, e)
      BY <2>14, <2>18, <2>19
    <2>21. /\ Consistent(ToHead(B, e), K, M, None)
           /\ ToHead(B, e).tree = B.tree /\ ToHead(B, e).fds = B.fds
           /\ Alike(ToHead(B, e).file[e], B.file[e]) /\ ToHead(B, e).file[e].created = B.file[e].created
      BY <1>1, <2>20, ToHeadOK
    <2>22. T = ToHead(B, e)
      <3>1. b = IF of.err THEN [f EXCEPT !.fd = of.fd, !.err = TRUE, !.created = 0]
                ELSE [f EXCEPT !.fd = of.fd, !.err = FALSE, !.created = 0, !.uniq = of.uniq,
                               !.close = FALSE, !.dir = of.dir,
                               !.count = IF of.dir THEN @ ELSE @ + 1]
        BY <1>1, <2>1, <2>2, <2>9 DEF File
      <3>2. B = [S EXCEPT !.file[e] = b]
        BY <1>1, <2>4, <2>13 DEF States
      <3> QED
        BY <3>1, <3>2 DEF Update
    <2> QED
      BY <2>11, <2>14, <2>21, <2>22 DEF Alike
  <1> QED
    BY <1>4, <1>5

(* The memory of an entry is not cleared.                                  *)
NewEntry(n, left) ==
  [Free EXCEPT !.name = n, !.uses = 1, !.dir = left.dir, !.uniq = left.uniq]

WithEntry(A, S, e, n) ==
  /\ A \in States /\ A.tree = S.tree \cup {e} /\ A.current = S.current + 1 /\ A.queue = S.queue
  /\ A.fds = S.fds /\ \A a \in Entries \ {e} : A.file[a] = S.file[a]
  /\ A.file[e].name = n /\ A.file[e].fd = 0 /\ A.file[e].count = 0 /\ A.file[e].close = FALSE

(* The entry is a new one.                                                 *)
LEMMA NewEntryOK ==
  ASSUME NEW S, NEW H, NEW L, Consistent(S, H, L, None), S.current < MaxFiles,
         NEW r \in Requests, H[r] = Nothing, NEW minUses \in MinUses,
         NEW n \in Names, \A a \in S.tree : S.file[a].name # n,
         NEW of, OfOK(S, H, L, 0, n, of),
         NEW e \in Entries, S.file[e] = Free,
         NEW A, WithEntry(A, S, e, n)
  PROVE  /\ Consistent(Update(A, e, of), Answered(H, r, e, of, minUses), L \ {of.fd}, None)
         /\ Update(A, e, of).fds = S.fds /\ e \in Update(A, e, of).tree
         /\ Update(A, e, of).file[e].fd = of.fd /\ Update(A, e, of).file[e].created = 0
  <1> USE DEF WithEntry
  <1>1. Consistent(A, H, L, e)
    <2>1. A.file[e].name \in Names /\ \A a \in S.tree : S.file[a].name # A.file[e].name
      OBVIOUS
    <2> QED
      BY <2>1, Entered, ZenonT(60)
  <1>2. OfOK(A, H, L, A.file[e].fd, A.file[e].name, of)
    BY DEF OfOK
  <1>3. ServesUsers(H, e, of)
    BY <1>1, CountIs DEF ServesUsers
  <1>4. e \in A.tree /\ Spare(L, A.file[e].fd, of) = L \ {of.fd}
    BY DEF Spare
  <1>5. /\ Consistent(Update(A, e, of), Answered(H, r, e, of, minUses),
                      Spare(L, A.file[e].fd, of), None)
        /\ Update(A, e, of).fds = A.fds /\ Update(A, e, of).tree = A.tree
        /\ Update(A, e, of).file[e].fd = of.fd /\ Update(A, e, of).file[e].created = 0
    BY <1>1, <1>2, <1>3, <1>4, UpdateOK
  <1> QED
    BY <1>4, <1>5

(* The label `create`, with the expiry that makes room.                    *)
LEMMA CreateOK ==
  ASSUME NEW S, NEW H, NEW L, Consistent(S, H, L, None),
         NEW r \in Requests, H[r] = Nothing, NEW minUses \in MinUses,
         NEW n \in Names, \A e \in S.tree : S.file[e].name # n,
         NEW of, OfOK(S, H, L, 0, n, of), of.dir \in BOOLEAN, of.uniq \in Inodes \cup {0},
         H = held, Create(S, r, n, of, minUses)
  PROVE  /\ Consistent(st', held', L \ {of.fd}, None) /\ Shrinks(st', S, L \ {of.fd})
         /\ \A q \in Requests : q # r => held'[q] = H[q]
         /\ held'[r] # Nothing => /\ held'[r].entry \in st'.tree
                                  /\ st'.file[held'[r].entry].fd = held'[r].fd
                                  /\ st'.file[held'[r].entry].created = 0
  <1>1. /\ S \in States /\ S.current \in Nat /\ S.current = Cardinality(S.tree) /\ S.tree \subseteq Entries
        /\ S.current <= MaxFiles /\ H \in [Requests -> Handle \cup {Nothing}] /\ L \subseteq Fds
    BY DEF Consistent, States, ListsOK, HandlesOK, OwnersOK
  <1>2. PICK T : T = IF S.current >= MaxFiles THEN ExpireForced(S) ELSE S
    OBVIOUS
  <1>3. Consistent(T, H, L, None) /\ Expired(T, S, L) /\ T.current < MaxFiles
    <2>1. CASE S.current >= MaxFiles
      <3>1. S.tree # {}
        <4>1. Cardinality({}) = 0
          BY FS_EmptySet
        <4>2. S.tree = {} => S.current = 0
          BY <1>1, <4>1, Zenon
        <4> QED
          BY <2>1, <4>2, CacheBasics
      <3>2. /\ Consistent(ExpireForced(S), H, L, None) /\ Expired(ExpireForced(S), S, L)
            /\ ExpireForced(S).current < S.current
        BY <3>1, ExpireForcedOK
      <3>3. T = ExpireForced(S)
        BY <1>2, <2>1
      <3>4. Consistent(T, H, L, None) /\ Expired(T, S, L) /\ T.current < S.current
        BY <3>2, <3>3
      <3> QED
        BY <1>1, <3>4, CacheBasics DEF Expired
    <2>2. CASE ~ (S.current >= MaxFiles)
      <3>1. T = S
        BY <1>2, <2>2
      <3> QED
        BY <1>1, <2>2, <3>1, CacheBasics DEF Expired, Shrinks
    <2> QED
      BY <2>1, <2>2
  <1>4. PICK e : e = CHOOSE y \in Entries : T.file[y] = Free
    OBVIOUS
  <1>5. e \in Entries /\ T.file[e] = Free
    <2>1. \E y \in Entries : T.file[y] = Free
      BY <1>3, PlaceLeft
    <2> QED
      BY <1>4, <2>1
  <1>6. \A d \in L : T.fds[d] = S.fds[d]
    BY <1>1, <1>3 DEF Expired, Shrinks
  <1>7. OfOK(T, H, L, 0, n, of)
    BY <1>6, CacheBasics DEF OfOK
  <1>8. \A a \in T.tree : T.file[a].name # n
    BY <1>3 DEF Expired
  <1>9. \/ \E left \in Leftovers(of) :
             /\ st' = Update([T EXCEPT !.file[e] = NewEntry(n, left),
                                       !.tree = @ \cup {e}, !.current = @ + 1], e, of)
             /\ Answer(r, e, of, minUses)
        \/ st' = CloseFd(T, of.fd) /\ held' = held
    BY <1>2, <1>4 DEF Create, NewEntry
  <1>10. ASSUME NEW left \in Leftovers(of),
                st' = Update([T EXCEPT !.file[e] = NewEntry(n, left),
                                       !.tree = @ \cup {e}, !.current = @ + 1], e, of),
                Answer(r, e, of, minUses)
         PROVE  /\ Consistent(st', held', L \ {of.fd}, None) /\ Shrinks(st', S, L \ {of.fd})
                /\ \A q \in Requests : q # r => held'[q] = H[q]
                /\ held'[r] # Nothing => /\ held'[r].entry \in st'.tree
                                         /\ st'.file[held'[r].entry].fd = held'[r].fd
                                         /\ st'.file[held'[r].entry].created = 0
    <2>1. left.dir \in BOOLEAN /\ left.uniq \in Inodes \cup {0}
      BY OpenFileCacheAssumption DEF Leftovers
    <2>2. PICK A : A = [T EXCEPT !.file[e] = NewEntry(n, left), !.tree = @ \cup {e}, !.current = @ + 1]
      OBVIOUS
    <2>3. st' = Update(A, e, of)
      BY <1>10, <2>2
    <2>4. held' = Answered(H, r, e, of, minUses)
      BY <1>10 DEF Answer, Answered
    <2>8. PICK g : g = NewEntry(n, left)
      OBVIOUS
    <2>9. g \in File /\ g.name = n /\ g.fd = 0 /\ g.count = 0 /\ g.close = FALSE
      <3>1. 1 \in 0 .. UsesCap
        BY CapsAre
      <3> QED
        BY <2>1, <2>8, <3>1, FreeIs, CacheBasics DEF NewEntry, File, Free
    <2>10. T \in States /\ T.current + 1 \in Nat
      BY <1>3 DEF Consistent, States
    <2>11. /\ A \in States /\ A.tree = T.tree \cup {e} /\ A.current = T.current + 1 /\ A.queue = T.queue
           /\ A.fds = T.fds /\ A.file[e] = g /\ \A a \in Entries \ {e} : A.file[a] = T.file[a]
      BY <1>5, <2>2, <2>8, <2>9, <2>10 DEF States
    <2>12. A.file[e].name = n /\ A.file[e].fd = 0 /\ A.file[e].count = 0 /\ A.file[e].close = FALSE
      BY <2>9, <2>11
    <2>5. /\ Consistent(st', held', L \ {of.fd}, None) /\ st'.fds = T.fds
          /\ e \in st'.tree /\ st'.file[e].fd = of.fd /\ st'.file[e].created = 0
      <3>1. WithEntry(A, T, e, n)
        BY <2>11, <2>12 DEF WithEntry
      <3>2. /\ Consistent(Update(A, e, of), Answered(H, r, e, of, minUses), L \ {of.fd}, None)
            /\ Update(A, e, of).fds = T.fds /\ e \in Update(A, e, of).tree
            /\ Update(A, e, of).file[e].fd = of.fd /\ Update(A, e, of).file[e].created = 0
        BY <1>3, <1>5, <1>7, <1>8, <3>1, NewEntryOK, SMTT(60)
      <3> QED
        BY <2>3, <2>4, <3>2
    <2>6. Shrinks(st', S, L \ {of.fd})
      BY <1>3, <2>5 DEF Expired, Shrinks
    <2>7. /\ \A q \in Requests : q # r => held'[q] = H[q]
          /\ held'[r] # Nothing => held'[r].entry = e /\ held'[r].fd = of.fd
      BY <1>1, <2>4 DEF Answered
    <2> QED
      BY <2>5, <2>6, <2>7
  <1>11. ASSUME st' = CloseFd(T, of.fd), held' = held
         PROVE  Consistent(st', held', L \ {of.fd}, None) /\ Shrinks(st', S, L \ {of.fd})
    <2>1. of.fd = 0 \/ (of.fd \in L /\ \A q \in Requests : H[q].fd # of.fd)
      BY <1>7, CacheBasics DEF OfOK
    <2>2. Consistent(st', H, L \ {of.fd}, None) /\ Shrinks(st', T, L \ {of.fd})
      BY <1>3, <1>11, <2>1, CloseFdOK
    <2> QED
      BY <1>3, <1>11, <2>2 DEF Expired, Shrinks
  <1>12. held' = held => /\ \A q \in Requests : q # r => held'[q] = H[q]
                         /\ held'[r] = Nothing
    OBVIOUS
  <1> QED
    BY <1>9, <1>10, <1>11, <1>12

(* The answers of the file system about the name n, when the entry has the *)
(* descriptor `own`, or 0.                                                 *)
AnswerIs(of, c, n, own) ==
  \/ of.ok = FALSE /\ of.fd = 0 /\ of.uniq = 0 /\ of.dir = FALSE
     /\ (c = None \/ c \in [ino : Inodes, dir : BOOLEAN])
  \/ /\ of.ok = TRUE /\ of.err = FALSE /\ of.dir = TRUE /\ of.fd = 0 /\ of.uniq \in Inodes
     /\ c = [ino |-> of.uniq, dir |-> TRUE]
  \/ /\ of.ok = TRUE /\ of.err = FALSE /\ of.dir = FALSE /\ of.uniq \in Inodes
     /\ of.fd \in Fds /\ of.fd \in FreeFds \cup {own}
     /\ c = [ino |-> of.uniq, dir |-> FALSE]
     /\ of.fd = own => of.uniq = st.fds[own].ino /\ st.fds[own].name = n

(* The lowest descriptor that is free.                                     *)
LEMMA FreeFdIs ==
  ASSUME FreeFds # {}
  PROVE  Min(FreeFds) \in FreeFds
  <1>1. FreeFds \in SUBSET Nat
    BY CacheBasics DEF FreeFds
  <1>2. \E x \in FreeFds : \A y \in FreeFds : x <= y
    BY <1>1, LeastNumber
  <1> QED
    BY <1>2 DEF Min

(* ngx_open_and_stat_file() gives a descriptor of the file that the name   *)
(* had, or none.                                                           *)
LEMMA OpenAndStatIs ==
  ASSUME CacheInv, exited = FALSE, NEW n \in Names, NEW own, NEW uniq, NEW testDir \in BOOLEAN,
         own = 0 \/ (own \in Fds /\ st.fds[own].name = n /\ st.fds[own].ino = uniq /\ uniq # 0),
         NEW p \in OpenAndStat(n, own, uniq, testDir)
  PROVE  /\ AnswerIs(p[1], p[2], n, own) /\ p[2] \in Contents /\ p[1].err \in BOOLEAN
         /\ (p[2] = disk[n] /\ p[1].fd \notin FreeFds) \/ Possible(n, p[2])
  <1>1. /\ disk[n] \in Contents /\ st \in States
        /\ \A d \in Fds : disk[n] # None /\ disk[n].dir => st.fds[d].ino # disk[n].ino
    BY DEF CacheInv, CacheTypeOK, Consistent, DirsApart
  <1>2. PICK looks \in BOOLEAN : looks = (own # 0 \/ testDir)
    OBVIOUS
  <1>3. PICK same \in BOOLEAN :
          same = (looks /\ disk[n] # None
                  /\ IF own # 0 THEN disk[n].ino = uniq ELSE disk[n].dir)
    OBVIOUS
  <1>4. CASE looks /\ disk[n] = None
    <2>1. p = << Failure(TRUE), None >>
      BY <1>2, <1>4 DEF OpenAndStat
    <2>2. p[1].fd \notin FreeFds
      BY <2>1, CacheBasics DEF Failure, FreeFds
    <2> QED
      BY <1>4, <2>1, <2>2 DEF Failure, AnswerIs, Contents
  <1>5. CASE same /\ ~ (looks /\ disk[n] = None)
    <2>1. p = << Info(own, disk[n]), disk[n] >>
      BY <1>2, <1>3, <1>5 DEF OpenAndStat
    <2>2. /\ disk[n] \in [ino : Inodes, dir : BOOLEAN] /\ disk[n] # None
          /\ own # 0 => disk[n].ino = uniq
          /\ own = 0 => disk[n].dir = TRUE
      BY <1>1, <1>3, <1>5 DEF Contents
    <2>3. own # 0 => disk[n].dir = FALSE
      BY <1>1, <2>2
    <2>4. p[2] = disk[n] /\ p[1] = [ok |-> TRUE, err |-> FALSE, fd |-> own, uniq |-> disk[n].ino, dir |-> disk[n].dir]
      BY <2>1 DEF Info
    <2>5. disk[n].ino \in Inodes /\ disk[n] = [ino |-> disk[n].ino, dir |-> disk[n].dir]
      BY <2>2
    <2>6. AnswerIs(p[1], p[2], n, own)
      <3>1. CASE own = 0
        <4>1. disk[n].dir = TRUE
          BY <2>2, <3>1
        <4>2. /\ p[1].ok = TRUE /\ p[1].err = FALSE /\ p[1].dir = TRUE /\ p[1].fd = 0
              /\ p[1].uniq = disk[n].ino
          BY <2>4, <3>1, <4>1
        <4> QED
          BY <2>4, <2>5, <4>1, <4>2 DEF AnswerIs
      <3>2. CASE own # 0
        <4>1. disk[n].dir = FALSE
          BY <2>3, <3>2
        <4>2. /\ p[1].ok = TRUE /\ p[1].err = FALSE /\ p[1].dir = FALSE /\ p[1].fd = own
              /\ p[1].uniq = disk[n].ino
          BY <2>4, <3>2, <4>1
        <4> QED
          BY <2>2, <2>4, <2>5, <3>2, <4>1, <4>2 DEF AnswerIs
      <3> QED
        BY <3>1, <3>2
    <2>7. own \notin FreeFds
      BY CacheBasics DEF FreeFds
    <2> QED
      BY <1>1, <2>4, <2>6, <2>7
  <1>6. CASE ~ same /\ ~ (looks /\ disk[n] = None)
    <2>1. PICK c \in Contents : Possible(n, c) /\ p \in Opened(c) \X {c}
      BY <1>2, <1>3, <1>6 DEF OpenAndStat
    <2>2. p[2] = c /\ p[1] \in Opened(c)
      BY <2>1
    <2>3. CASE p[1] = Failure(TRUE) \/ p[1] = Failure(FALSE)
      <3>1. p[1].ok = FALSE /\ p[1].fd = 0 /\ p[1].uniq = 0 /\ p[1].dir = FALSE /\ p[1].err \in BOOLEAN
        <4>1. CASE p[1] = Failure(TRUE)
          BY <4>1 DEF Failure
        <4>2. CASE p[1] = Failure(FALSE)
          BY <4>2 DEF Failure
        <4> QED
          BY <2>3, <4>1, <4>2
      <3>2. AnswerIs(p[1], p[2], n, own)
        BY <2>1, <2>2, <3>1 DEF AnswerIs, Contents
      <3>3. p[2] \in Contents /\ Possible(n, p[2])
        BY <2>1, <2>2, Zenon
      <3> QED
        BY <3>1, <3>2, <3>3
    <2>4. CASE p[1] # Failure(TRUE) /\ p[1] # Failure(FALSE)
      <3>1. c # None /\ FreeFds # {} /\ p[1] = Info(IF c.dir THEN 0 ELSE Min(FreeFds), c)
        BY <2>2, <2>4 DEF Opened
      <3>2. c \in [ino : Inodes, dir : BOOLEAN]
        BY <2>1, <3>1 DEF Contents
      <3>3. c.ino \in Inodes /\ c = [ino |-> c.ino, dir |-> c.dir] /\ c.dir \in BOOLEAN
        BY <3>2
      <3>4. CASE c.dir = TRUE
        <4>1. p[1] = [ok |-> TRUE, err |-> FALSE, fd |-> 0, uniq |-> c.ino, dir |-> TRUE]
          BY <3>1, <3>4 DEF Info
        <4> QED
          BY <2>1, <2>2, <3>3, <3>4, <4>1 DEF AnswerIs
      <3>5. CASE c.dir = FALSE
        <4>1. PICK d : d = Min(FreeFds)
          OBVIOUS
        <4>2. d \in FreeFds /\ d \in Fds
          BY <3>1, <4>1, FreeFdIs DEF FreeFds
        <4>3. p[1] = [ok |-> TRUE, err |-> FALSE, fd |-> d, uniq |-> c.ino, dir |-> FALSE]
          BY <3>1, <3>5, <4>1 DEF Info
        <4>4. d # own
          BY <4>2, CacheBasics DEF FreeFds
        <4> QED
          BY <2>1, <2>2, <3>3, <3>5, <4>2, <4>3, <4>4 DEF AnswerIs
      <3> QED
        BY <3>3, <3>4, <3>5
    <2> QED
      BY <2>3, <2>4
  <1> QED
    BY <1>4, <1>5, <1>6

(* The descriptors without an entry, with the one that the call opened.    *)
Held(of) == lost \cup (FreeFds \cap {of.fd})

(* After the answer: the table of the descriptors, and the directories.    *)
AfterAnswer(S, n, of, c) ==
  /\ Consistent(S, held, Held(of), None)
  /\ S.file = st.file /\ S.tree = st.tree /\ S.queue = st.queue /\ S.current = st.current
  /\ DirsApart([disk EXCEPT ![n] = c], S)
  /\ of.fd # 0 => S.fds[of.fd] = [name |-> n, ino |-> of.uniq, stale |-> 0]
  /\ of.fd \in FreeFds => \A r \in Requests : held[r].fd # of.fd

(* The table of descriptors after that has the new one in its place.       *)
LEMMA TableIs ==
  ASSUME CacheInv, exited = FALSE, NEW n \in Names, NEW own,
         own = 0 \/ (own \in Fds /\ st.fds[own].name = n),
         NEW of, NEW c, AnswerIs(of, c, n, own), (c = disk[n] /\ of.fd \notin FreeFds) \/ Possible(n, c), c \in Contents,
         NEW S, S = [st EXCEPT !.fds = Table(n, of, c)]
  PROVE  AfterAnswer(S, n, of, c)
  <1>1. /\ st \in States /\ Consistent(st, held, lost, None) /\ DirsApart(disk, st)
        /\ disk \in [Names -> Contents]
    BY DEF CacheInv, CacheTypeOK, Consistent
  <1>2. PICK F : F = Table(n, of, c)
    OBVIOUS
  <1>3. PICK G : G = IF of.fd \in FreeFds
                     THEN [st.fds EXCEPT ![of.fd] = [name |-> n, ino |-> of.uniq, stale |-> 0]]
                     ELSE st.fds
    OBVIOUS
  <1>4. F = [d \in Fds |-> IF G[d].name = n /\ c = [ino |-> G[d].ino, dir |-> FALSE]
                           THEN [G[d] EXCEPT !.stale = 0] ELSE G[d]]
    BY <1>2, <1>3 DEF Table, Watched
  <1>5. FreeFds \subseteq Fds /\ 0 \notin Fds /\ st.fds \in [Fds -> Fd]
    BY <1>1, CacheBasics DEF FreeFds, States
  <1>6. 0 \in 0 .. Valid
    BY CapsAre
  <1>7. /\ G \in [Fds -> Fd]
        /\ \A d \in Fds : d # of.fd \/ d \notin FreeFds => G[d] = st.fds[d]
        /\ of.fd \in FreeFds => G[of.fd] = [name |-> n, ino |-> of.uniq, stale |-> 0]
    <2>1. of.fd \in FreeFds => [name |-> n, ino |-> of.uniq, stale |-> 0] \in Fd
      BY <1>5, <1>6 DEF AnswerIs, Fd
    <2> QED
      BY <1>3, <1>5, <2>1
  <1>8. \A d \in Fds : /\ F[d] \in Fd /\ F[d].name = G[d].name /\ F[d].ino = G[d].ino
                       /\ F[d].stale = 0 \/ F[d] = G[d]
                       /\ G[d].name = n /\ c = [ino |-> G[d].ino, dir |-> FALSE] => F[d].stale = 0
    BY <1>4, <1>6, <1>7 DEF Fd
  <1>9. F \in [Fds -> Fd]
    BY <1>4, <1>8
  <1>10. /\ S \in States /\ S.fds = F /\ S.file = st.file /\ S.tree = st.tree /\ S.queue = st.queue
         /\ S.current = st.current
    BY <1>1, <1>2, <1>9 DEF States
  <1>11. \A d \in Fds : G[d] = Closed => F[d] = Closed
    <2> SUFFICES ASSUME NEW d \in Fds, G[d] = Closed
                 PROVE  F[d] = Closed
      OBVIOUS
    <2>1. G[d].name # n
      BY CacheBasics
    <2> QED
      BY <1>4, <2>1
  <1>12. \A d \in Fds : F[d].stale \in Nat /\ G[d].stale \in Nat /\ F[d].stale <= G[d].stale
    <2> SUFFICES ASSUME NEW d \in Fds
                 PROVE  F[d].stale \in Nat /\ G[d].stale \in Nat /\ F[d].stale <= G[d].stale
      OBVIOUS
    <2>1. F[d].stale \in Nat /\ G[d].stale \in Nat
      BY <1>7, <1>8, CacheBasics DEF Fd
    <2> QED
      BY <1>8, <2>1
  <1>13. of.fd # 0 => F[of.fd] = [name |-> n, ino |-> of.uniq, stale |-> 0]
    <2> SUFFICES ASSUME of.fd # 0
                 PROVE  F[of.fd] = [name |-> n, ino |-> of.uniq, stale |-> 0]
      OBVIOUS
    <2>1. of.fd \in Fds /\ c = [ino |-> of.uniq, dir |-> FALSE]
      BY DEF AnswerIs
    <2>2. G[of.fd].name = n /\ G[of.fd].ino = of.uniq
      BY <1>7, <2>1 DEF AnswerIs
    <2>3. F[of.fd] \in Fd /\ F[of.fd].name = n /\ F[of.fd].ino = of.uniq /\ F[of.fd].stale = 0
      BY <1>8, <2>1, <2>2
    <2> QED
      BY <2>3 DEF Fd
  <1>14. /\ Consistent(S, held, lost \cup (FreeFds \cap {of.fd}), None)
         /\ of.fd \in FreeFds => \A r \in Requests : held[r].fd # of.fd
    <2>1. CASE of.fd \in FreeFds
      <3>1. /\ st.fds[of.fd] = Closed /\ of.fd \in Fds
            /\ S.fds[of.fd].name \in Names /\ S.fds[of.fd].ino \in Inodes
        BY <1>5, <1>10, <1>13, <2>1 DEF FreeFds, AnswerIs
      <3>2. \A d \in Fds : d # of.fd =>
              /\ S.fds[d].name = st.fds[d].name /\ S.fds[d].ino = st.fds[d].ino
              /\ S.fds[d].stale <= st.fds[d].stale /\ (st.fds[d] = Closed => S.fds[d] = Closed)
        BY <1>7, <1>8, <1>10, <1>11, <1>12
      <3>3. Consistent(S, held, lost \cup {of.fd}, None) /\ \A r \in Requests : held[r].fd # of.fd
        <4>1. OpenedBy(S, st, of.fd) /\ of.fd \in Fds
          BY <1>10, <3>1, <3>2 DEF OpenedBy
        <4> QED
          BY <1>1, <4>1, OpenedFd
      <3>4. lost \cup (FreeFds \cap {of.fd}) = lost \cup {of.fd}
        BY <2>1
      <3> QED
        BY <3>3, <3>4
    <2>2. CASE of.fd \notin FreeFds
      <3>1. SameFds(S.fds, st.fds)
        BY <1>7, <1>8, <1>10, <1>11, <2>2 DEF SameFds
      <3>2. FreshOK(S)
        <4> SUFFICES ASSUME NEW e \in st.tree, st.file[e].fd # 0
                     PROVE  F[st.file[e].fd].stale <= st.file[e].created
          BY <1>10 DEF FreshOK
        <4>1. /\ st.file[e].fd \in Fds /\ st.file[e] \in File
              /\ st.fds[st.file[e].fd].stale <= st.file[e].created
          BY <1>1 DEF Consistent, States, OwnersOK, OwnerOK, FreshOK
        <4>2. G[st.file[e].fd] = st.fds[st.file[e].fd]
          BY <1>7, <2>2, <4>1
        <4>3. st.file[e].created \in Nat
          BY <4>1, CacheBasics DEF File
        <4> QED
          BY <1>12, <4>1, <4>2, <4>3
      <3>3. \A a \in Entries : Alike(S.file[a], st.file[a])
        BY <1>10 DEF Alike
      <3>4. ToSet(S.queue) = S.tree \ {None} /\ IsInjective(S.queue)
        BY <1>1, <1>10 DEF Consistent, ListsOK
      <3>5. Consistent(S, held, lost, None)
        BY <1>1, <1>10, <3>1, <3>2, <3>3, <3>4, Moved
      <3>6. lost \cup (FreeFds \cap {of.fd}) = lost
        BY <2>2
      <3> QED
        BY <2>2, <3>5, <3>6
    <2> QED
      BY <2>1, <2>2
  <1>15. DirsApart([disk EXCEPT ![n] = c], S)
    <2> SUFFICES ASSUME NEW m \in Names, [disk EXCEPT ![n] = c][m] # None,
                        [disk EXCEPT ![n] = c][m].dir, NEW d \in Fds
                 PROVE  S.fds[d].ino # [disk EXCEPT ![n] = c][m].ino
      BY DEF DirsApart
    <2>1. F[d].ino = st.fds[d].ino \/ (d = of.fd /\ d \in FreeFds /\ F[d].ino = of.uniq)
      BY <1>7, <1>8
    <2>2. CASE m # n
      <3>1. disk[m] # None /\ disk[m].dir /\ [disk EXCEPT ![n] = c][m] = disk[m]
        BY <1>1, <2>2
      <3>2. CASE F[d].ino = st.fds[d].ino
        BY <1>1, <1>10, <3>1, <3>2 DEF DirsApart
      <3>3. CASE d = of.fd /\ d \in FreeFds /\ F[d].ino = of.uniq
        <4>1. c = [ino |-> of.uniq, dir |-> FALSE] /\ d \in Fds
          BY <1>5, <3>3 DEF AnswerIs
        <4>2. c # None
          <5>1. of.uniq \in Inodes
            BY <1>5, <3>3 DEF AnswerIs
          <5>2. c \in [ino : Inodes, dir : BOOLEAN]
            BY <4>1, <5>1
          <5> QED
            BY <5>2, CacheBasics
        <4>3. disk[m] # c
          BY <3>1, <4>1
        <4>4. ASSUME disk[m].ino = of.uniq
              PROVE  FALSE
          <5>1. CASE Possible(n, c)
            <6>1. \A x \in Names \ {n} : disk[x] # None /\ disk[x].ino = c.ino => disk[x] = c
              BY <4>2, <5>1, Zenon DEF Possible
            <6>2. c.ino = of.uniq
              BY <4>1
            <6> QED
              BY <2>2, <3>1, <4>3, <4>4, <6>1, <6>2
          <5> QED
            BY <3>3, <5>1
        <4> QED
          BY <1>10, <3>1, <3>3, <4>4
      <3> QED
        BY <2>1, <3>2, <3>3
    <2>3. CASE m = n
      <3>1. [disk EXCEPT ![n] = c][m] = c /\ c # None /\ c.dir
        BY <1>1, <2>3
      <3>2. of.fd = 0
        BY <3>1 DEF AnswerIs
      <3>3. F[d].ino = st.fds[d].ino
        BY <1>5, <2>1, <3>2
      <3> QED
        BY <1>1, <1>10, <3>1, <3>3, <2>3 DEF Possible, DirsApart
    <2> QED
      BY <2>2, <2>3
  <1> QED
    BY <1>10, <1>13, <1>14, <1>15 DEF AfterAnswer, Held

(* The invariant of the process that runs.                                 *)
LEMMA InTheCache ==
  ASSUME CacheInv, exited = FALSE
  PROVE  /\ Consistent(st, held, lost, None) /\ DirsApart(disk, st) /\ disk \in [Names -> Contents]
         /\ st \in States /\ st.tree \subseteq Entries /\ held \in [Requests -> Handle \cup {Nothing}]
         /\ \A e \in st.tree : e \in Entries /\ st.file[e] \in File
  BY DEF CacheInv, CacheTypeOK, Consistent, States, HandlesOK

(* Closing descriptors cannot give the number of a directory to a file.    *)
LEMMA DirsKept ==
  ASSUME NEW D \in [Names -> Contents], NEW S, NEW T, NEW L, DirsApart(D, S), Shrinks(T, S, L)
  PROVE  DirsApart(D, T)
  <1> SUFFICES ASSUME NEW n \in Names, D[n] # None, D[n].dir, NEW d \in Fds
               PROVE  T.fds[d].ino # D[n].ino
    BY DEF DirsApart
  <1>1. D[n].ino \in Inodes
    BY DEF Contents
  <1>2. S.fds[d].ino # D[n].ino
    BY DEF DirsApart
  <1> QED
    BY <1>1, <1>2, CacheBasics DEF Shrinks

(* Who gets a descriptor finds it in an entry of the cache, which was      *)
(* tested less than `valid` seconds ago.                                   *)
Served ==
  \A r \in Requests : held[r] = Nothing /\ held'[r] # Nothing =>
    LET f == st'.file[held'[r].entry] IN
    /\ held'[r].entry \in st'.tree /\ f.fd = held'[r].fd
    /\ f.created = 0 \/ f.created < Valid

GoesOn ==
  /\ Consistent(st', held', lost', None) /\ DirsApart(disk', st') /\ disk' \in [Names -> Contents]
  /\ exited' = FALSE /\ Served

(* An entry that may be trusted is used as it is.                          *)
LEMMA HitOK ==
  ASSUME CacheInv, exited = FALSE, NEW r \in Requests, held[r] = Nothing, NEW n \in Names, Hit(r, n)
  PROVE  GoesOn
  <1>1. PICK e \in Cached(n), uniq \in Wanted, minUses \in MinUses :
          /\ ~ ClosedEarly(st.file[e]) /\ Trusted(st.file[e], uniq)
          /\ st' = ToHead(IF st.file[e].err \/ st.file[e].dir THEN Touched(st, e)
                          ELSE [Touched(st, e) EXCEPT !.file[e].count = @ + 1], e)
          /\ Answer(r, e, st.file[e], minUses)
          /\ UNCHANGED << disk, lost, exited >>
    BY DEF Hit
  <1>2. /\ Consistent(st, held, lost, None) /\ DirsApart(disk, st) /\ disk \in [Names -> Contents]
        /\ st \in States /\ st.tree \subseteq Entries /\ held \in [Requests -> Handle \cup {Nothing}]
        /\ e \in st.tree /\ e \in Entries /\ st.file[e] \in File
    BY InTheCache DEF Cached
  <1>3. PICK S : S = Touched(st, e)
    OBVIOUS
  <1>4. /\ Consistent(S, held, lost, e)
        /\ S.tree = st.tree /\ S.fds = st.fds /\ S.current = st.current
        /\ Alike(S.file[e], st.file[e]) /\ S.file[e].created = st.file[e].created
        /\ e \in S.tree
    BY <1>2, <1>3, TouchedOK
  <1>5. CASE st.file[e].err = TRUE \/ st.file[e].dir = TRUE
    <2>1. st' = ToHead(S, e) /\ held' = held
      BY <1>1, <1>3, <1>5 DEF Answer
    <2>2. Consistent(st', held, lost, None) /\ st'.fds = st.fds
      BY <1>4, <2>1, ToHeadOK
    <2> QED
      BY <1>1, <1>2, <2>1, <2>2 DEF GoesOn, Served, DirsApart
  <1>6. CASE ~ (st.file[e].err = TRUE \/ st.file[e].dir = TRUE)
    <2>1. st.file[e].err = FALSE /\ st.file[e].dir = FALSE
      BY <1>2, <1>6 DEF File
    <2>2. st.file[e].fd # 0
      BY <1>1, <2>1 DEF ClosedEarly
    <2>3. st.file[e].fd \in Fds /\ st.file[e].uniq \in Inodes
      BY <1>2, <2>2 DEF Consistent, OwnersOK, OwnerOK, File
    <2>4. PICK h : h = [entry |-> e, fd |-> st.file[e].fd, ino |-> st.file[e].uniq, minUses |-> minUses]
      OBVIOUS
    <2>5. h \in Handle /\ h.entry = e /\ h.fd = S.file[e].fd /\ h.ino = S.file[e].uniq
      BY <1>2, <1>4, <2>3, <2>4 DEF Handle, Alike
    <2>6. PICK B : B = [S EXCEPT !.file[e].count = @ + 1]
      OBVIOUS
    <2>7. S \in States /\ S.file[e] \in File /\ S.file[e].count + 1 \in 0 .. Cardinality(Requests)
      <3>1. S \in States
        BY <1>4 DEF Consistent
      <3>2. S.file[e].count + 1 \in 0 .. Cardinality(Requests)
        BY <1>2, <1>4, CountIs
      <3> QED
        BY <1>2, <3>1, <3>2 DEF States
    <2>8. PICK b : b = [S.file[e] EXCEPT !.count = @ + 1]
      OBVIOUS
    <2>9. b \in File /\ b.fd = S.file[e].fd /\ b.created = S.file[e].created
      BY <2>7, <2>8 DEF File
    <2>10. B = [S EXCEPT !.file[e] = b]
      BY <1>2, <2>6, <2>7, <2>8 DEF States
    <2>11. B \in States /\ B.tree = S.tree /\ B.fds = S.fds /\ B.file[e] = b /\ e \in B.tree
      BY <1>2, <1>4, <2>7, <2>9, <2>10 DEF States
    <2>12. S.file[e].fd # 0
      BY <1>4, <2>2 DEF Alike
    <2>13. Consistent(B, [held EXCEPT ![r] = h], lost, e)
      BY <1>4, <2>5, <2>6, <2>11, <2>12, TakesHold
    <2>14. held' = [held EXCEPT ![r] = h] /\ st' = ToHead(B, e)
      BY <1>1, <1>3, <2>1, <2>4, <2>6 DEF Answer
    <2>15. /\ Consistent(st', held', lost, None) /\ st'.tree = B.tree /\ st'.fds = B.fds
           /\ Alike(st'.file[e], B.file[e]) /\ st'.file[e].created = B.file[e].created
      BY <1>2, <2>11, <2>13, <2>14, ToHeadOK
    <2>16. DirsApart(disk', st')
      <3>1. disk' = disk /\ st'.fds = st.fds
        BY <1>1, <1>4, <2>11, <2>15
      <3> QED
        BY <1>2, <3>1 DEF DirsApart
    <2>17. Served
      <3>1. /\ held'[r] = h /\ \A q \in Requests : q # r => held'[q] = held[q]
            /\ e \in st'.tree /\ st'.file[e].fd = h.fd /\ st'.file[e].created < Valid
        BY <1>1, <1>2, <1>4, <2>5, <2>9, <2>11, <2>14, <2>15 DEF Alike, Trusted
      <3> QED
        BY <2>5, <3>1 DEF Served
    <2> QED
      BY <1>1, <1>2, <2>15, <2>16, <2>17 DEF GoesOn
  <1> QED
    BY <1>5, <1>6

(* Nobody reads from the descriptor of an entry that nobody uses.          *)
LEMMA NobodyReads ==
  ASSUME NEW S, NEW H, NEW L, NEW x, Consistent(S, H, L, x), NEW e \in Entries, Users(H, e) = {},
         S.file[e].fd # 0, NEW q \in Requests
  PROVE  H[q].fd # S.file[e].fd
  <1>1. S.file[e].fd \in Fds \ L /\ 0 \notin Fds
    BY CacheBasics DEF Consistent, OwnersOK, OwnerOK
  <1>2. CASE H[q] = Nothing
    BY <1>1, <1>2, CacheBasics
  <1>3. CASE H[q] # Nothing
    <2>1. HandleOK(S, L, H[q]) /\ H[q].entry \in Entries
      BY <1>3 DEF Consistent, HandlesOK, Handle
    <2>2. H[q].entry # e
      BY DEF Users
    <2> QED
      BY <1>1, <2>1, <2>2 DEF HandleOK, Consistent, OwnersOK
  <1> QED
    BY <1>2, <1>3

(* An answer of the file system can go into an entry.                      *)
LEMMA WelcomeOK ==
  ASSUME CacheInv, exited = FALSE, NEW n \in Names, NEW own, own \notin lost, NEW of, NEW c,
         AnswerIs(of, c, n, own), of.err \in BOOLEAN, of.ok = TRUE \/ of.err = TRUE, NEW S,
         of.fd # 0 => S.fds[of.fd] = [name |-> n, ino |-> of.uniq, stale |-> 0],
         of.fd \in FreeFds => \A r \in Requests : held[r].fd # of.fd
  PROVE  OfOK(S, held, Held(of), own, n, of)
  <1>1. CASE of.ok = FALSE
    BY <1>1 DEF AnswerIs, OfOK
  <1>2. CASE of.ok = TRUE /\ of.dir = TRUE
    BY <1>2 DEF AnswerIs, OfOK
  <1>3. CASE of.ok = TRUE /\ of.dir = FALSE
    <2>1. /\ of.err = FALSE /\ of.uniq \in Inodes
          /\ of.fd \in Fds /\ of.fd \in FreeFds \cup {own} /\ of.fd # 0
      BY <1>3, CacheBasics DEF AnswerIs
    <2>2. of.fd \in Held(of) \cup {own}
      BY <2>1 DEF Held
    <2>3. of.fd \in Held(of) => \A r \in Requests : held[r].fd # of.fd
      BY <2>1 DEF Held
    <2>4. S.fds[of.fd].name = n /\ S.fds[of.fd].ino = of.uniq /\ S.fds[of.fd].stale = 0
      BY <2>1
    <2> QED
      BY <1>3, <2>1, <2>2, <2>3, <2>4 DEF OfOK
  <1> QED
    BY <1>1, <1>2, <1>3 DEF AnswerIs

(* The descriptors without an entry are as before, once the call gives its *)
(* own to an entry.                                                        *)
LEMMA HeldIs ==
  ASSUME CacheInv, exited = FALSE, NEW of
  PROVE  /\ of.fd \notin lost => Held(of) \ {of.fd} = lost
         /\ of.fd \in FreeFds => of.fd \notin lost
         /\ of.fd = 0 => Held(of) = lost /\ of.fd \notin lost
  <1>1. Consistent(st, held, lost, None)
    BY DEF CacheInv
  <1>2. \A d \in lost : d \in Fds /\ st.fds[d].ino # 0 /\ d # 0
    BY <1>1, CacheBasics DEF Consistent, OwnersOK
  <1>3. \A d \in FreeFds : d \in Fds /\ d \notin lost /\ d # 0
    BY <1>2, CacheBasics DEF FreeFds
  <1> QED
    BY <1>2, <1>3 DEF Held

(* The end of a call that updates an entry.                                *)
LEMMA UpdatedOK ==
  ASSUME NEW S, NEW L, NEW e \in S.tree, Consistent(S, held, L, e),
         NEW r \in Requests, held[r] = Nothing, NEW minUses \in MinUses, NEW of,
         OfOK(S, held, L, S.file[e].fd, S.file[e].name, of), ServesUsers(held, e, of),
         NEW K, K = Answered(held, r, e, of, minUses), NEW T, T = Update(S, e, of)
  PROVE  /\ Consistent(T, K, Spare(L, S.file[e].fd, of), None) /\ T.fds = S.fds
         /\ \A q \in Requests : K[q] = held[q] \/ K[q].fd = of.fd
         /\ \A q \in Requests : held[q] = Nothing /\ K[q] # Nothing =>
              /\ K[q].entry \in T.tree /\ T.file[K[q].entry].fd = K[q].fd
              /\ T.file[K[q].entry].created = 0
  <1>1. /\ Consistent(T, K, Spare(L, S.file[e].fd, of), None)
        /\ T.fds = S.fds /\ T.tree = S.tree /\ T.file[e].fd = of.fd /\ T.file[e].created = 0
    BY UpdateOK
  <1>2. held \in [Requests -> Handle \cup {Nothing}]
    BY DEF Consistent, HandlesOK
  <1>3. /\ \A q \in Requests : q # r => K[q] = held[q]
        /\ K[r] # Nothing => K[r].entry = e /\ K[r].fd = of.fd
    BY <1>2 DEF Answered
  <1>4. K[r] = Nothing \/ K[r].fd = of.fd
    BY <1>3
  <1> QED
    BY <1>1, <1>3, <1>4

(* An entry without a descriptor, or one used too rarely, asks the file    *)
(* system again.                                                           *)
LEMMA ReopenOK ==
  ASSUME CacheInv, exited = FALSE, NEW r \in Requests, held[r] = Nothing, NEW n \in Names,
         Reopen(r, n)
  PROVE  GoesOn
  <1>1. PICK e \in Cached(n), testDir \in BOOLEAN, errors \in BOOLEAN, minUses \in MinUses :
          /\ ClosedEarly(st.file[e])
          /\ \E p \in OpenAndStat(n, 0, 0, testDir) :
               LET of == p[1]
                   S  == Touched([st EXCEPT !.fds = Table(n, of, p[2])], e)
               IN  /\ IF Unwelcome(of, errors)
                      THEN st' = FailedEntry(S, e) /\ held' = held
                      ELSE st' = Update(S, e, of) /\ Answer(r, e, of, minUses)
                   /\ disk' = [disk EXCEPT ![n] = p[2]]
          /\ UNCHANGED << lost, exited >>
    BY DEF Reopen
  <1>2. PICK p \in OpenAndStat(n, 0, 0, testDir) :
          /\ IF Unwelcome(p[1], errors)
             THEN st' = FailedEntry(Touched([st EXCEPT !.fds = Table(n, p[1], p[2])], e), e) /\ held' = held
             ELSE /\ st' = Update(Touched([st EXCEPT !.fds = Table(n, p[1], p[2])], e), e, p[1])
                  /\ Answer(r, e, p[1], minUses)
          /\ disk' = [disk EXCEPT ![n] = p[2]]
    BY <1>1
  <1>3. PICK of : of = p[1]
    OBVIOUS
  <1>4. PICK c : c = p[2]
    OBVIOUS
  <1>5. /\ Consistent(st, held, lost, None) /\ disk \in [Names -> Contents]
        /\ e \in st.tree /\ e \in Entries /\ st.file[e].name = n
    BY InTheCache DEF Cached
  <1>6. /\ AnswerIs(of, c, n, 0) /\ c \in Contents /\ of.err \in BOOLEAN
        /\ (c = disk[n] /\ of.fd \notin FreeFds) \/ Possible(n, c)
    BY <1>3, <1>4, OpenAndStatIs
  <1>7. PICK U : U = [st EXCEPT !.fds = Table(n, of, c)]
    OBVIOUS
  <1>8. /\ Consistent(U, held, Held(of), None)
        /\ U.file = st.file /\ U.tree = st.tree
        /\ DirsApart([disk EXCEPT ![n] = c], U)
        /\ of.fd # 0 => U.fds[of.fd] = [name |-> n, ino |-> of.uniq, stale |-> 0]
        /\ of.fd \in FreeFds => \A q \in Requests : held[q].fd # of.fd
    <2>1. AfterAnswer(U, n, of, c)
      BY <1>6, <1>7, TableIs
    <2> QED
      BY <2>1 DEF AfterAnswer
  <1>9. PICK S : S = Touched(U, e)
    OBVIOUS
  <1>10. /\ Consistent(S, held, Held(of), e) /\ S.tree = U.tree /\ S.fds = U.fds
         /\ Alike(S.file[e], U.file[e])
    BY <1>5, <1>8, <1>9, TouchedOK
  <1>11. e \in S.tree /\ S.file[e].fd = 0 /\ S.file[e].name = n
    BY <1>1, <1>5, <1>8, <1>10 DEF ClosedEarly, Alike
  <1>12. disk' = [disk EXCEPT ![n] = c] /\ disk' \in [Names -> Contents] /\ lost' = lost /\ exited' = FALSE
    BY <1>1, <1>2, <1>4, <1>5, <1>6
  <1>13. CASE Unwelcome(of, errors)
    <2>1. st' = FailedEntry(S, e) /\ held' = held
      BY <1>2, <1>3, <1>4, <1>7, <1>9, <1>13
    <2>2. of.fd = 0
      BY <1>6, <1>13 DEF Unwelcome, AnswerIs
    <2>3. Held(of) = lost
      BY <2>2, HeldIs
    <2>4. Consistent(st', held, lost, None) /\ Shrinks(st', S, lost)
      BY <1>10, <1>11, <2>1, <2>3, FailedEntryOK
    <2>5. DirsApart(disk', st')
      <3>1. DirsApart(disk', S)
        BY <1>8, <1>10, <1>12 DEF DirsApart
      <3> QED
        BY <1>12, <2>4, <3>1, DirsKept
    <2> QED
      BY <1>12, <2>1, <2>4, <2>5 DEF GoesOn, Served
  <1>14. CASE ~ Unwelcome(of, errors)
    <2>1. st' = Update(S, e, of) /\ held' = Answered(held, r, e, of, minUses)
      BY <1>2, <1>3, <1>4, <1>7, <1>9, <1>14 DEF Answer, Answered
    <2>2. of.ok = TRUE \/ of.err = TRUE
      BY <1>6, <1>14 DEF Unwelcome, AnswerIs
    <2>3. 0 \notin lost
      BY <1>5, CacheBasics DEF Consistent, OwnersOK
    <2>4. OfOK(S, held, Held(of), S.file[e].fd, S.file[e].name, of)
      <3>1. OfOK(U, held, Held(of), 0, n, of)
        BY <1>6, <1>8, <2>2, <2>3, WelcomeOK
      <3> QED
        BY <1>10, <1>11, <3>1 DEF OfOK
    <2>5. ServesUsers(held, e, of)
      BY <1>5, <1>10, <1>11 DEF ServesUsers, Consistent, UsersOK, UserOK
    <2>6. /\ Consistent(st', held', Spare(Held(of), S.file[e].fd, of), None) /\ st'.fds = S.fds
          /\ \A q \in Requests : held[q] = Nothing /\ held'[q] # Nothing =>
               /\ held'[q].entry \in st'.tree /\ st'.file[held'[q].entry].fd = held'[q].fd
               /\ st'.file[held'[q].entry].created = 0
      BY <1>10, <1>11, <2>1, <2>4, <2>5, UpdatedOK
    <2>7. Spare(Held(of), S.file[e].fd, of) = lost
      <3>1. of.fd \in FreeFds \/ of.fd = 0
        BY <1>6, CacheBasics DEF AnswerIs
      <3>2. Held(of) \ {of.fd} = lost
        BY <3>1, HeldIs
      <3> QED
        BY <1>11, <3>2 DEF Spare
    <2>8. DirsApart(disk', st')
      BY <1>8, <1>10, <1>12, <2>6 DEF DirsApart
    <2> QED
      BY <1>12, <2>6, <2>7, <2>8 DEF GoesOn, Served
  <1> QED
    BY <1>13, <1>14

(* No entry has the name: one is created, or the file is not cached.       *)
LEMMA MissOK ==
  ASSUME CacheInv, exited = FALSE, NEW r \in Requests, held[r] = Nothing, NEW n \in Names,
         Miss(r, n)
  PROVE  GoesOn
  <1>1. PICK testDir \in BOOLEAN, errors \in BOOLEAN, minUses \in MinUses :
          /\ Cached(n) = {}
          /\ \E p \in OpenAndStat(n, 0, 0, testDir) :
               LET of == p[1]
                   S  == [st EXCEPT !.fds = Table(n, of, p[2])]
               IN  /\ IF Unwelcome(of, errors) THEN st' = S /\ held' = held
                      ELSE Create(S, r, n, of, minUses)
                   /\ disk' = [disk EXCEPT ![n] = p[2]]
          /\ UNCHANGED << lost, exited >>
    BY DEF Miss
  <1>2. PICK p \in OpenAndStat(n, 0, 0, testDir) :
          /\ IF Unwelcome(p[1], errors)
             THEN st' = [st EXCEPT !.fds = Table(n, p[1], p[2])] /\ held' = held
             ELSE Create([st EXCEPT !.fds = Table(n, p[1], p[2])], r, n, p[1], minUses)
          /\ disk' = [disk EXCEPT ![n] = p[2]]
    BY <1>1
  <1>3. PICK of : of = p[1]
    OBVIOUS
  <1>4. PICK c : c = p[2]
    OBVIOUS
  <1>5. Consistent(st, held, lost, None) /\ disk \in [Names -> Contents]
    BY InTheCache
  <1>6. /\ AnswerIs(of, c, n, 0) /\ c \in Contents /\ of.err \in BOOLEAN
        /\ (c = disk[n] /\ of.fd \notin FreeFds) \/ Possible(n, c)
    BY <1>3, <1>4, OpenAndStatIs
  <1>7. PICK U : U = [st EXCEPT !.fds = Table(n, of, c)]
    OBVIOUS
  <1>8. /\ Consistent(U, held, Held(of), None)
        /\ U.file = st.file /\ U.tree = st.tree
        /\ DirsApart([disk EXCEPT ![n] = c], U)
        /\ of.fd # 0 => U.fds[of.fd] = [name |-> n, ino |-> of.uniq, stale |-> 0]
        /\ of.fd \in FreeFds => \A q \in Requests : held[q].fd # of.fd
    <2>1. AfterAnswer(U, n, of, c)
      BY <1>6, <1>7, TableIs
    <2> QED
      BY <2>1 DEF AfterAnswer
  <1>9. disk' = [disk EXCEPT ![n] = c] /\ disk' \in [Names -> Contents] /\ lost' = lost /\ exited' = FALSE
    BY <1>1, <1>2, <1>4, <1>5, <1>6
  <1>10. CASE Unwelcome(of, errors)
    <2>1. st' = U /\ held' = held
      BY <1>2, <1>3, <1>4, <1>7, <1>10
    <2>2. of.fd = 0
      BY <1>6, <1>10 DEF Unwelcome, AnswerIs
    <2>3. Held(of) = lost
      BY <2>2, HeldIs
    <2> QED
      BY <1>8, <1>9, <2>1, <2>3 DEF GoesOn, Served
  <1>11. CASE ~ Unwelcome(of, errors)
    <2>1. Create(U, r, n, of, minUses)
      BY <1>2, <1>3, <1>4, <1>7, <1>11
    <2>2. of.ok = TRUE \/ of.err = TRUE
      BY <1>6, <1>11 DEF Unwelcome, AnswerIs
    <2>3. 0 \notin lost
      BY <1>5, CacheBasics DEF Consistent, OwnersOK
    <2>4. OfOK(U, held, Held(of), 0, n, of)
      BY <1>6, <1>8, <2>2, <2>3, WelcomeOK
    <2>5. of.dir \in BOOLEAN /\ of.uniq \in Inodes \cup {0}
      BY <1>6 DEF AnswerIs
    <2>6. \A e \in U.tree : U.file[e].name # n
      BY <1>1, <1>8 DEF Cached
    <2>7. /\ Consistent(st', held', Held(of) \ {of.fd}, None) /\ Shrinks(st', U, Held(of) \ {of.fd})
          /\ \A q \in Requests : q # r => held'[q] = held[q]
          /\ held'[r] # Nothing => /\ held'[r].entry \in st'.tree
                                   /\ st'.file[held'[r].entry].fd = held'[r].fd
                                   /\ st'.file[held'[r].entry].created = 0
      BY <1>8, <2>1, <2>4, <2>5, <2>6, CreateOK
    <2>8. Held(of) \ {of.fd} = lost
      <3>1. of.fd \in FreeFds \/ of.fd = 0
        BY <1>6, CacheBasics DEF AnswerIs
      <3> QED
        BY <3>1, HeldIs
    <2>9. DirsApart(disk', st')
      BY <1>8, <1>9, <2>7, DirsKept
    <2> QED
      BY <1>9, <2>7, <2>8, <2>9 DEF GoesOn, Served
  <1> QED
    BY <1>10, <1>11

(* The end of every call that opens.                                       *)
Opens(r, S, L) ==
  /\ Consistent(st', held', L, None) /\ Shrinks(st', S, L)
  /\ \A q \in Requests : held[q] = Nothing /\ held'[q] # Nothing =>
       /\ held'[q].entry \in st'.tree /\ st'.file[held'[q].entry].fd = held'[q].fd
       /\ st'.file[held'[q].entry].created = 0

(* What ToHead makes of an entry that becomes g. *)
StateOf(file, tree, queue, current, fds) ==
  [file |-> file, tree |-> tree, queue |-> queue, current |-> current, fds |-> fds]
Changed(S, e, g) == [S EXCEPT !.file[e] = g]
Heading(file, e, g) == [file EXCEPT ![e] = [g EXCEPT !.accessed = 0]]

(* The fields after an entry moves to the head of the queue.               *)
LEMMA ToHeadIs ==
  ASSUME NEW e \in Entries, NEW g, NEW file \in [Entries -> File], NEW tree, NEW queue, NEW current,
         NEW fds
  PROVE  ToHead(Changed(StateOf(file, tree, queue, current, fds), e, g), e) =
           StateOf(Heading(file, e, g), tree, << e >> \o queue, current, fds)
  <1>1. PICK b : b = [g EXCEPT !.accessed = 0]
    OBVIOUS
  <1>2. PICK F : F = [file EXCEPT ![e] = g]
    OBVIOUS
  <1>3. PICK G : G = [file EXCEPT ![e] = b]
    OBVIOUS
  <1>4. F[e] = g /\ [F EXCEPT ![e] = b] = G
    BY <1>2, <1>3
  <1>5. PICK S : S = [file |-> file, tree |-> tree, queue |-> queue, current |-> current, fds |-> fds]
    OBVIOUS
  <1>6. PICK A : A = [S EXCEPT !.file[e] = g]
    OBVIOUS
  <1>7. A = [file |-> F, tree |-> tree, queue |-> queue, current |-> current, fds |-> fds]
    BY <1>2, <1>5, <1>6
  <1>8. PICK q : q = << e >> \o queue
    OBVIOUS
  <1>9. A.file = F /\ A.queue = queue
    BY <1>7
  <1>10. ToHead(A, e) = [A EXCEPT !.queue = q, !.file = [F EXCEPT ![e] = [F[e] EXCEPT !.accessed = 0]]]
    BY <1>8, <1>9 DEF ToHead
  <1>11. ToHead(A, e) = [A EXCEPT !.queue = q, !.file = G]
    BY <1>1, <1>4, <1>10
  <1>12. [A EXCEPT !.queue = q, !.file = G] =
           [file |-> G, tree |-> tree, queue |-> q, current |-> current, fds |-> fds]
    <2>1. PICK B : B = [A EXCEPT !.queue = q]
      OBVIOUS
    <2>2. B = [file |-> F, tree |-> tree, queue |-> q, current |-> current, fds |-> fds]
      BY <1>7, <2>1
    <2>3. [B EXCEPT !.file = G] =
            [file |-> G, tree |-> tree, queue |-> q, current |-> current, fds |-> fds]
      BY <2>2
    <2> QED
      BY <2>1, <2>3
  <1>13. A = Changed(StateOf(file, tree, queue, current, fds), e, g)
    BY <1>5, <1>6 DEF Changed, StateOf
  <1>14. [file |-> G, tree |-> tree, queue |-> q, current |-> current, fds |-> fds] =
           StateOf(Heading(file, e, g), tree, << e >> \o queue, current, fds)
    BY <1>1, <1>3, <1>8 DEF StateOf, Heading
  <1> QED
    BY <1>11, <1>12, <1>13, <1>14

(* A descriptor is closed before or after the answer goes into the entry.  *)
LEMMA UpdateCommutes ==
  ASSUME NEW S \in States, NEW e \in Entries, NEW of, NEW d,
         NEW A, A = CloseFd(S, d), NEW B, B = Update(S, e, of)
  PROVE  Update(A, e, of) = CloseFd(B, d)
  <1>1. CASE d = 0
    BY <1>1 DEF CloseFd
  <1>2. CASE d # 0
    <2>1. A = [S EXCEPT !.fds[d] = Closed] /\ CloseFd(B, d) = [B EXCEPT !.fds[d] = Closed]
      BY <1>2 DEF CloseFd
    <2>2. PICK fds : fds = [S.fds EXCEPT ![d] = Closed]
      OBVIOUS
    <2>3. S = StateOf(S.file, S.tree, S.queue, S.current, S.fds)
      BY DEF States, StateOf
    <2>4. A = StateOf(S.file, S.tree, S.queue, S.current, fds)
      BY <2>1, <2>2, <2>3 DEF StateOf
    <2>5. A.file = S.file /\ A.queue = S.queue /\ A.tree = S.tree /\ A.current = S.current
      BY <2>4 DEF StateOf
    <2>6. PICK g : g = IF of.err THEN [S.file[e] EXCEPT !.fd = of.fd, !.err = TRUE, !.created = 0]
                       ELSE [S.file[e] EXCEPT !.fd = of.fd, !.err = FALSE, !.created = 0, !.uniq = of.uniq,
                                      !.close = FALSE, !.dir = of.dir,
                                      !.count = IF of.dir THEN @ ELSE @ + 1]
      OBVIOUS
    <2>7. B = ToHead(Changed(S, e, g), e)
      BY <2>6 DEF Update, Changed
    <2>8. Update(A, e, of) = ToHead(Changed(A, e, g), e)
      BY <2>5, <2>6 DEF Update, Changed
    <2>9. PICK file : file = Heading(S.file, e, g)
      OBVIOUS
    <2>10. S.file \in [Entries -> File]
      BY DEF States
    <2>11. ToHead(Changed(StateOf(S.file, S.tree, S.queue, S.current, S.fds), e, g), e) =
             StateOf(Heading(S.file, e, g), S.tree, << e >> \o S.queue, S.current, S.fds)
      BY <2>10, ToHeadIs
    <2>12. ToHead(Changed(StateOf(S.file, S.tree, S.queue, S.current, fds), e, g), e) =
             StateOf(Heading(S.file, e, g), S.tree, << e >> \o S.queue, S.current, fds)
      BY <2>10, ToHeadIs
    <2>13. B = StateOf(file, S.tree, << e >> \o S.queue, S.current, S.fds)
      BY <2>3, <2>7, <2>9, <2>11, Zenon
    <2>14. Update(A, e, of) = StateOf(file, S.tree, << e >> \o S.queue, S.current, fds)
      BY <2>4, <2>8, <2>9, <2>12, Zenon
    <2>15. PICK queue : queue = << e >> \o S.queue
      OBVIOUS
    <2>16. [B EXCEPT !.fds[d] = Closed] = StateOf(file, S.tree, queue, S.current, fds)
      <3>1. B = [file |-> file, tree |-> S.tree, queue |-> queue, current |-> S.current, fds |-> S.fds]
        BY <2>13, <2>15 DEF StateOf
      <3>2. [B EXCEPT !.fds = fds] = StateOf(file, S.tree, queue, S.current, fds) /\ B.fds = S.fds
        <4> HIDE <2>1, <2>3, <2>4
        <4> QED
          BY <3>1 DEF StateOf
      <3> QED
        BY <2>2, <3>2
    <2> QED
      BY <2>1, <2>14, <2>15, <2>16
  <1> QED
    BY <1>1, <1>2

(* The entry was for another file, and nobody uses it.                     *)
LEMMA ReplacedOK ==
  ASSUME NEW S, NEW L, NEW e \in S.tree, Consistent(S, held, L, e),
         NEW r \in Requests, held[r] = Nothing, NEW minUses \in MinUses, NEW of,
         OfOK(S, held, L, S.file[e].fd, S.file[e].name, of), S.file[e].count = 0,
         S.file[e].fd # 0, of.fd # S.file[e].fd,
         st' = Update(CloseFd(S, S.file[e].fd), e, of), held' = Answered(held, r, e, of, minUses)
  PROVE  Opens(r, S, L \ {of.fd})
  <1>1. PICK d : d = S.file[e].fd
    OBVIOUS
  <1>2. PICK T : T = Update(S, e, of)
    OBVIOUS
  <1>3. S \in States /\ e \in Entries /\ Users(held, e) = {}
    <2>1. S \in States /\ e \in Entries
      BY DEF Consistent, States
    <2> QED
      BY <2>1, CountIs
  <1>4. ServesUsers(held, e, of)
    BY <1>3 DEF ServesUsers
  <1>5. /\ Consistent(T, held', Spare(L, S.file[e].fd, of), None) /\ T.fds = S.fds
        /\ \A q \in Requests : held'[q] = held[q] \/ held'[q].fd = of.fd
        /\ \A q \in Requests : held[q] = Nothing /\ held'[q] # Nothing =>
             /\ held'[q].entry \in T.tree /\ T.file[held'[q].entry].fd = held'[q].fd
             /\ T.file[held'[q].entry].created = 0
    BY <1>2, <1>4, UpdatedOK
  <1>6. st' = CloseFd(T, d)
    <2>1. PICK A : A = CloseFd(S, d)
      OBVIOUS
    <2>2. Update(A, e, of) = CloseFd(T, d)
      BY <1>2, <1>3, <2>1, UpdateCommutes, SMTT(60)
    <2> QED
      BY <1>1, <2>1, <2>2
  <1>7. d \in Fds \ L
    BY <1>1, <1>3 DEF Consistent, OwnersOK, OwnerOK
  <1>8. Spare(L, S.file[e].fd, of) = (L \ {of.fd}) \cup {d} /\ d # 0
    BY <1>1 DEF Spare
  <1>9. \A q \in Requests : held'[q].fd # d
    <2>1. \A q \in Requests : held[q].fd # d
      BY <1>1, <1>3, NobodyReads
    <2> QED
      BY <1>1, <1>5, <2>1
  <1>10. PICK M : M = (L \ {of.fd}) \cup {d}
    OBVIOUS
  <1>11. d \in M /\ M \ {d} = L \ {of.fd} /\ Consistent(T, held', M, None)
    BY <1>5, <1>7, <1>8, <1>10
  <1>12. PICK U : U = CloseFd(T, d)
    OBVIOUS
  <1>13. PICK K : K = held'
    OBVIOUS
  <1>14. /\ Consistent(U, K, M \ {d}, None)
         /\ U.file = T.file /\ U.tree = T.tree /\ Shrinks(U, T, M \ {d})
    BY <1>9, <1>11, <1>12, <1>13, CloseFdOK
  <1>15. Shrinks(U, S, L \ {of.fd})
    BY <1>5, <1>11, <1>14 DEF Shrinks
  <1>16. st' = U /\ held' = K /\ M \ {d} = L \ {of.fd} /\ U.tree = T.tree /\ U.file = T.file
    BY <1>6, <1>11, <1>12, <1>13, <1>14
  <1>17. Consistent(st', held', L \ {of.fd}, None)
    BY <1>14, <1>16
  <1>18. \A q \in Requests : held[q] = Nothing /\ held'[q] # Nothing =>
           /\ held'[q].entry \in st'.tree /\ st'.file[held'[q].entry].fd = held'[q].fd
           /\ st'.file[held'[q].entry].created = 0
    BY <1>5, <1>16
  <1>19. Shrinks(st', S, L \ {of.fd})
    BY <1>15, <1>16
  <1> QED
    BY <1>17, <1>18, <1>19 DEF Opens

(* It is used: it leaves the tree, and another takes its place.            *)
LEMMA SplitOK ==
  ASSUME NEW S, NEW L, NEW e \in S.tree, Consistent(S, held, L, e),
         NEW r \in Requests, held[r] = Nothing, NEW minUses \in MinUses,
         NEW n \in Names, n = S.file[e].name,
         NEW of, OfOK(S, held, L, S.file[e].fd, n, of), of.fd # S.file[e].fd,
         of.dir \in BOOLEAN, of.uniq \in Inodes \cup {0}, S.file[e].count # 0,
         Create([Forget(S, e) EXCEPT !.file[e].close = TRUE], r, n, of, minUses)
  PROVE  Opens(r, S, L \ {of.fd})
  <1>1. PICK T : T = [Forget(S, e) EXCEPT !.file[e].close = TRUE]
    OBVIOUS
  <1>2. /\ S \in States /\ e \in Entries /\ S.tree \subseteq Entries /\ S.file[e] \in File
        /\ ToSet(S.queue) = S.tree \ {e} /\ IsInjective(S.queue)
        /\ \A a, b \in S.tree : S.file[a].name = S.file[b].name => a = b
    BY DEF Consistent, States, ListsOK
  <1>3. /\ S.current - 1 \in Nat /\ S.current - 1 <= MaxFiles
        /\ S.current - 1 = Cardinality(S.tree \ {e})
    BY FewerInTree
  <1>4. [S.file[e] EXCEPT !.close = TRUE] \in File
    BY <1>2 DEF File
  <1>5. /\ T \in States /\ T.tree = S.tree \ {e} /\ T.current = S.current - 1 /\ T.queue = S.queue
        /\ T.fds = S.fds /\ T.file = [S.file EXCEPT ![e].close = TRUE]
    BY <1>1, <1>2, <1>3, <1>4 DEF Forget, States
  <1>6. Users(held, e) # {}
    BY <1>2, CountIs
  <1>7. Consistent(T, held, L, None)
    <2>1. T.tree = S.tree \ {e} /\ T.current = Cardinality(T.tree) /\ T.current <= MaxFiles
      BY <1>3, <1>5
    <2>2. ToSet(T.queue) = T.tree /\ IsInjective(T.queue)
      BY <1>2, <1>5
    <2>3. T \in States /\ T.fds = S.fds /\ T.file = [S.file EXCEPT ![e].close = TRUE]
      BY <1>5
    <2> QED
      BY <1>6, <2>1, <2>2, <2>3, Detached, ZenonT(60)
  <1>8. \A a \in T.tree : T.file[a].name # n
    <2>1. \A a \in T.tree : T.file[a] = S.file[a]
      BY <1>2, <1>5 DEF States
    <2> QED
      BY <1>2, <1>5, <2>1
  <1>9. OfOK(T, held, L, 0, n, of)
    BY <1>5 DEF OfOK
  <1>10. Create(T, r, n, of, minUses)
    BY <1>1
  <1>11. /\ Consistent(st', held', L \ {of.fd}, None) /\ Shrinks(st', T, L \ {of.fd})
         /\ \A q \in Requests : q # r => held'[q] = held[q]
         /\ held'[r] # Nothing => /\ held'[r].entry \in st'.tree
                                  /\ st'.file[held'[r].entry].fd = held'[r].fd
                                  /\ st'.file[held'[r].entry].created = 0
    BY <1>7, <1>8, <1>9, <1>10, CreateOK
  <1> QED
    BY <1>5, <1>11 DEF Opens, Shrinks

(* What an entry that is neither an error nor a directory has.             *)
LEMMA OwnIs ==
  ASSUME CacheInv, exited = FALSE, NEW e \in st.tree
  PROVE  /\ st.file[e].fd # 0 =>
              /\ st.file[e].fd \in Fds \ lost /\ st.fds[st.file[e].fd].name = st.file[e].name
              /\ st.fds[st.file[e].fd].ino = st.file[e].uniq /\ st.file[e].uniq # 0
              /\ st.file[e].err = FALSE /\ st.file[e].dir = FALSE
         /\ st.file[e].err \in BOOLEAN /\ st.file[e].dir \in BOOLEAN
  <1>1. Consistent(st, held, lost, None) /\ e \in Entries /\ st.file[e] \in File
    BY InTheCache
  <1>2. st.file[e].fd # 0 => OwnerOK(st, lost, st.file[e])
    BY <1>1 DEF Consistent, OwnersOK
  <1>3. st.file[e].err \in BOOLEAN /\ st.file[e].dir \in BOOLEAN
    BY <1>1 DEF File
  <1> QED
    BY <1>2, <1>3 DEF OwnerOK

(* The time for trusting the entry is over: the file is the same, or       *)
(* replaced, or gone.                                                      *)
LEMMA RetestOK ==
  ASSUME CacheInv, exited = FALSE, NEW r \in Requests, held[r] = Nothing, NEW n \in Names,
         Retest(r, n)
  PROVE  GoesOn
  <1>1. PICK e \in Cached(n), uniq \in Wanted, testDir \in BOOLEAN, errors \in BOOLEAN,
             minUses \in MinUses :
          LET f == st.file[e] IN
          /\ ~ ClosedEarly(f) /\ ~ Trusted(f, uniq)
          /\ \E p \in OpenAndStat(n, f.fd, f.uniq, testDir \/ f.dir) :
               LET of == p[1]
                   S  == Touched([st EXCEPT !.fds = Table(n, of, p[2])], e)
               IN  /\ \/ /\ Unwelcome(of, errors)
                         /\ st' = FailedEntry(S, e) /\ held' = held
                      \/ /\ ~ Unwelcome(of, errors) /\ Fits(f, of)
                         /\ st' = Update(S, e, of) /\ Answer(r, e, of, minUses)
                      \/ /\ ~ Unwelcome(of, errors) /\ ~ Fits(f, of) /\ f.count = 0
                         /\ st' = Update(CloseFd(S, f.fd), e, of) /\ Answer(r, e, of, minUses)
                      \/ /\ ~ Unwelcome(of, errors) /\ ~ Fits(f, of) /\ f.count > 0
                         /\ Create([Forget(S, e) EXCEPT !.file[e].close = TRUE], r, n, of, minUses)
                   /\ disk' = [disk EXCEPT ![n] = p[2]]
                   /\ lost' = IF SameFile(f, of) THEN lost \cup ({f.fd} \ {of.fd}) ELSE lost
          /\ UNCHANGED exited
    BY Zenon DEF Retest
  <1>2. PICK f : f = st.file[e]
    OBVIOUS
  <1>3. PICK p \in OpenAndStat(n, f.fd, f.uniq, testDir \/ f.dir) :
          LET of == p[1]
              S  == Touched([st EXCEPT !.fds = Table(n, of, p[2])], e)
          IN  /\ \/ /\ Unwelcome(of, errors)
                    /\ st' = FailedEntry(S, e) /\ held' = held
                 \/ /\ ~ Unwelcome(of, errors) /\ Fits(f, of)
                    /\ st' = Update(S, e, of) /\ Answer(r, e, of, minUses)
                 \/ /\ ~ Unwelcome(of, errors) /\ ~ Fits(f, of) /\ f.count = 0
                    /\ st' = Update(CloseFd(S, f.fd), e, of) /\ Answer(r, e, of, minUses)
                 \/ /\ ~ Unwelcome(of, errors) /\ ~ Fits(f, of) /\ f.count > 0
                    /\ Create([Forget(S, e) EXCEPT !.file[e].close = TRUE], r, n, of, minUses)
              /\ disk' = [disk EXCEPT ![n] = p[2]]
              /\ lost' = IF SameFile(f, of) THEN lost \cup ({f.fd} \ {of.fd}) ELSE lost
    BY <1>1, <1>2
  <1>4. PICK of : of = p[1]
    OBVIOUS
  <1>5. PICK c : c = p[2]
    OBVIOUS
  <1>6. PICK U : U = [st EXCEPT !.fds = Table(n, of, c)]
    OBVIOUS
  <1>7. PICK S : S = Touched(U, e)
    OBVIOUS
  <1>8. /\ \/ Unwelcome(of, errors) /\ st' = FailedEntry(S, e) /\ held' = held
           \/ /\ ~ Unwelcome(of, errors) /\ Fits(f, of)
              /\ st' = Update(S, e, of) /\ Answer(r, e, of, minUses)
           \/ /\ ~ Unwelcome(of, errors) /\ ~ Fits(f, of) /\ f.count = 0
              /\ st' = Update(CloseFd(S, f.fd), e, of) /\ Answer(r, e, of, minUses)
           \/ /\ ~ Unwelcome(of, errors) /\ ~ Fits(f, of) /\ f.count > 0
              /\ Create([Forget(S, e) EXCEPT !.file[e].close = TRUE], r, n, of, minUses)
        /\ disk' = [disk EXCEPT ![n] = c]
        /\ lost' = IF SameFile(f, of) THEN lost \cup ({f.fd} \ {of.fd}) ELSE lost
    BY <1>3, <1>4, <1>5, <1>6, <1>7
  <1>9. /\ Consistent(st, held, lost, None) /\ disk \in [Names -> Contents]
        /\ e \in st.tree /\ e \in Entries /\ f.name = n
    BY <1>2, InTheCache DEF Cached
  <1>10. /\ f.fd # 0 => /\ f.fd \in Fds \ lost /\ st.fds[f.fd].name = n
                        /\ st.fds[f.fd].ino = f.uniq /\ f.uniq # 0
                        /\ f.err = FALSE /\ f.dir = FALSE
         /\ f.err \in BOOLEAN /\ f.dir \in BOOLEAN
    BY <1>2, <1>9, OwnIs
  <1>11. f.fd # 0 \/ f.err = TRUE \/ f.dir = TRUE
    BY <1>1, <1>2, <1>10 DEF ClosedEarly
  <1>12. /\ AnswerIs(of, c, n, f.fd) /\ c \in Contents /\ of.err \in BOOLEAN
         /\ (c = disk[n] /\ of.fd \notin FreeFds) \/ Possible(n, c)
    <2>1. PICK looks \in BOOLEAN : looks = (testDir \/ f.dir)
      BY <1>10
    <2>2. p \in OpenAndStat(n, f.fd, f.uniq, looks)
      BY <2>1
    <2> QED
      BY <1>4, <1>5, <1>10, <2>2, OpenAndStatIs
  <1>13. /\ Consistent(U, held, Held(of), None)
         /\ U.file = st.file /\ U.tree = st.tree
         /\ DirsApart([disk EXCEPT ![n] = c], U)
         /\ of.fd # 0 => U.fds[of.fd] = [name |-> n, ino |-> of.uniq, stale |-> 0]
         /\ of.fd \in FreeFds => \A q \in Requests : held[q].fd # of.fd
    <2>1. AfterAnswer(U, n, of, c)
      BY <1>6, <1>10, <1>12, TableIs
    <2> QED
      BY <2>1 DEF AfterAnswer
  <1>14. /\ Consistent(S, held, Held(of), e) /\ S.tree = U.tree /\ S.fds = U.fds
         /\ Alike(S.file[e], U.file[e])
    BY <1>7, <1>9, <1>13, TouchedOK
  <1>15. /\ e \in S.tree /\ S.file[e].fd = f.fd /\ S.file[e].name = n /\ S.file[e].count = f.count
         /\ S.file[e].uniq = f.uniq
    BY <1>2, <1>9, <1>13, <1>14 DEF Alike
  <1>16. disk' = [disk EXCEPT ![n] = c] /\ disk' \in [Names -> Contents] /\ exited' = FALSE
    BY <1>1, <1>8, <1>9, <1>12
  <1>17. DirsApart(disk', S)
    BY <1>13, <1>14, <1>16 DEF DirsApart
  <1>18. of.fd \in FreeFds \/ of.fd = 0 \/ of.fd = f.fd
    BY <1>12 DEF AnswerIs
  <1>19. of.fd \notin lost /\ Held(of) \ {of.fd} = lost /\ (of.fd = 0 => Held(of) = lost) /\ 0 \notin lost
    <2>1. 0 \notin lost
      BY <1>9, CacheBasics DEF Consistent, OwnersOK
    <2>2. of.fd \notin lost
      BY <1>10, <1>18, <2>1, HeldIs
    <2> QED
      BY <2>1, <2>2, HeldIs
  <1>20. CASE Unwelcome(of, errors)
    <2>1. st' = FailedEntry(S, e) /\ held' = held
      BY <1>8, <1>20
    <2>2. of.fd = 0 /\ of.uniq = 0
      BY <1>12, <1>20 DEF Unwelcome, AnswerIs
    <2>3. lost' = lost
      BY <1>8, <1>10, <1>11, <2>2 DEF SameFile
    <2>4. Consistent(st', held, lost, None) /\ Shrinks(st', S, lost)
      BY <1>14, <1>15, <1>19, <2>1, <2>2, FailedEntryOK
    <2>5. DirsApart(disk', st')
      BY <1>16, <1>17, <2>4, DirsKept
    <2> QED
      BY <1>16, <2>1, <2>3, <2>4, <2>5 DEF GoesOn, Served
  <1>21. CASE ~ Unwelcome(of, errors)
    <2>1. of.ok = TRUE \/ of.err = TRUE
      BY <1>12, <1>21 DEF Unwelcome, AnswerIs
    <2>2. f.fd \notin lost
      BY <1>10, <1>19
    <2>3. OfOK(S, held, Held(of), f.fd, n, of)
      <3>1. OfOK(U, held, Held(of), f.fd, n, of)
        BY <1>12, <1>13, <2>1, <2>2, WelcomeOK
      <3> QED
        BY <1>14, <3>1 DEF OfOK
    <2>4. CASE Fits(f, of)
      <3>1. st' = Update(S, e, of) /\ held' = Answered(held, r, e, of, minUses)
        BY <1>8, <1>21, <2>4 DEF Answer, Answered
      <3>2. ServesUsers(held, e, of)
        <4>1. Users(held, e) # {} => f.fd # 0
          BY <1>9, <1>14, <1>15 DEF Consistent, UsersOK, UserOK
        <4>2. f.fd # 0 => SameFile(f, of)
          BY <1>10, <2>4 DEF Fits
        <4> QED
          BY <1>12, <4>1, <4>2 DEF ServesUsers, SameFile, AnswerIs
      <3>3. /\ Consistent(st', held', Spare(Held(of), S.file[e].fd, of), None) /\ st'.fds = S.fds
            /\ \A q \in Requests : held[q] = Nothing /\ held'[q] # Nothing =>
                 /\ held'[q].entry \in st'.tree /\ st'.file[held'[q].entry].fd = held'[q].fd
                 /\ st'.file[held'[q].entry].created = 0
        BY <1>14, <1>15, <2>3, <3>1, <3>2, UpdatedOK
      <3>4. Spare(Held(of), S.file[e].fd, of) = lost'
        <4>1. CASE SameFile(f, of)
          <5>1. f.fd # 0
            BY <1>11, <4>1 DEF SameFile
          <5> QED
            BY <1>8, <1>15, <1>19, <4>1, <5>1 DEF Spare
        <4>2. CASE ~ SameFile(f, of)
          <5>1. f.fd = 0
            BY <1>10, <2>4, <4>2 DEF Fits
          <5> QED
            BY <1>8, <1>15, <1>19, <4>2, <5>1 DEF Spare
        <4> QED
          BY <4>1, <4>2
      <3>5. DirsApart(disk', st')
        BY <1>17, <3>3 DEF DirsApart
      <3> QED
        BY <1>16, <3>3, <3>4, <3>5 DEF GoesOn, Served
    <2>5. CASE ~ Fits(f, of)
      <3>1. f.err = FALSE /\ f.dir = FALSE /\ f.fd # 0 /\ ~ SameFile(f, of)
        BY <1>10, <1>11, <2>5 DEF Fits
      <3>2. of.fd # f.fd
        BY <1>10, <1>12, <3>1 DEF AnswerIs, SameFile
      <3>3. lost' = lost
        BY <1>8, <3>1
      <3>4. Opens(r, S, Held(of) \ {of.fd})
        <4>1. CASE f.count = 0
          <5>1. /\ st' = Update(CloseFd(S, S.file[e].fd), e, of)
                /\ held' = Answered(held, r, e, of, minUses)
            BY <1>8, <1>15, <1>21, <2>5, <4>1 DEF Answer, Answered
          <5>2. /\ OfOK(S, held, Held(of), S.file[e].fd, S.file[e].name, of)
                /\ S.file[e].count = 0 /\ S.file[e].fd # 0 /\ of.fd # S.file[e].fd
            BY <1>15, <2>3, <3>1, <3>2, <4>1
          <5> QED
            BY <1>14, <1>15, <5>1, <5>2, ReplacedOK, ZenonT(60)
        <4>2. CASE f.count # 0
          <5>1. Create([Forget(S, e) EXCEPT !.file[e].close = TRUE], r, n, of, minUses)
            BY <1>8, <1>21, <2>5, <4>2
          <5>2. of.dir \in BOOLEAN /\ of.uniq \in Inodes \cup {0}
            BY <1>12 DEF AnswerIs
          <5>3. /\ OfOK(S, held, Held(of), S.file[e].fd, n, of) /\ n = S.file[e].name
                /\ S.file[e].count # 0 /\ of.fd # S.file[e].fd
            BY <1>15, <2>3, <3>2, <4>2
          <5> QED
            BY <1>14, <1>15, <5>1, <5>2, <5>3, SplitOK, ZenonT(60)
        <4> QED
          BY <4>1, <4>2
      <3>5. /\ Consistent(st', held', lost, None) /\ Shrinks(st', S, lost)
            /\ \A q \in Requests : held[q] = Nothing /\ held'[q] # Nothing =>
                 /\ held'[q].entry \in st'.tree /\ st'.file[held'[q].entry].fd = held'[q].fd
                 /\ st'.file[held'[q].entry].created = 0
        BY <1>19, <3>4 DEF Opens
      <3>6. DirsApart(disk', st')
        BY <1>16, <1>17, <3>5, DirsKept
      <3> QED
        BY <1>16, <3>3, <3>5, <3>6 DEF GoesOn, Served
    <2> QED
      BY <2>4, <2>5
  <1> QED
    BY <1>20, <1>21

(* A request gives up an entry. *)
Without(H, r)    == [H EXCEPT ![r] = Nothing]
Uncounted(S, e)  == [S EXCEPT !.file[e].count = @ - 1]
GivenUp(S, e, minUses) == CloseCached(Uncounted(S, e), e, minUses)

(* A descriptor is closed before or after an entry changes.                *)
LEMMA ChangedCommutes ==
  ASSUME NEW T \in States, NEW e \in Entries, NEW g, NEW d
  PROVE  Changed(CloseFd(T, d), e, g) = CloseFd(Changed(T, e, g), d)
  BY DEF Changed, CloseFd, States

(* Only that entry changes.                                                *)
LEMMA ChangedIs ==
  ASSUME NEW T \in States, NEW e \in Entries, NEW g \in File
  PROVE  /\ Changed(T, e, g) \in States /\ Changed(T, e, g).tree = T.tree
         /\ Changed(T, e, g).current = T.current /\ Changed(T, e, g).queue = T.queue
         /\ Changed(T, e, g).fds = T.fds /\ Changed(T, e, g).file[e] = g
         /\ \A b \in Entries \ {e} : Changed(T, e, g).file[b] = T.file[b]
  BY DEF Changed, States

(* ngx_close_cached_file(): the last user frees the memory and closes the  *)
(* descriptor of an entry that is out of the tree.                         *)
LEMMA CloseCachedOK ==
  ASSUME NEW S, NEW H, NEW L, Consistent(S, H, L, None), NEW r \in Requests, H[r] # Nothing,
         NEW e, e = H[r].entry, NEW minUses
  PROVE  /\ Consistent(GivenUp(S, e, minUses), Without(H, r), L, None)
         /\ Shrinks(GivenUp(S, e, minUses), S, L)
  <1>a. PICK K : K = Without(H, r)
    OBVIOUS
  <1>b. PICK A : A = Uncounted(S, e)
    OBVIOUS
  <1>c. PICK R : R = CloseCached(A, e, minUses)
    OBVIOUS
  <1>1. /\ S \in States /\ H \in [Requests -> Handle \cup {Nothing}] /\ S.tree \subseteq Entries
        /\ ToSet(S.queue) = S.tree \ {None} /\ IsInjective(S.queue)
        /\ S.current = Cardinality(S.tree) /\ S.current <= MaxFiles /\ None \notin Entries
    BY CacheBasics DEF Consistent, States, ListsOK, HandlesOK
  <1>2. H[r] \in Handle /\ e \in Entries /\ r \in Users(H, e)
    BY <1>1 DEF Handle, Users
  <1>3. S.file[e] \in File /\ S.queue \in Seq(Entries)
    BY <1>1, <1>2 DEF States
  <1>4. PICK f : f = S.file[e]
    OBVIOUS
  <1>5. f \in File /\ f.count - 1 \in 0 .. Cardinality(Requests)
    <2>1. f.count \in 0 .. Cardinality(Requests) /\ f.count # 0
      BY <1>2, <1>4, CountIs
    <2>2. Cardinality(Requests) \in Nat
      BY CacheBasics, FS_CardinalityType
    <2> QED
      BY <1>3, <1>4, <2>1, <2>2
  <1>6. PICK a : a = [f EXCEPT !.count = @ - 1]
    OBVIOUS
  <1>7. a \in File /\ a.fd = f.fd /\ a.close = f.close /\ a.count = f.count - 1 /\ a.name = f.name
    BY <1>5, <1>6 DEF File
  <1>8. A = [S EXCEPT !.file[e] = a]
    BY <1>1, <1>2, <1>4, <1>6, <1>b DEF States, Uncounted
  <1>9. /\ A \in States /\ A.tree = S.tree /\ A.fds = S.fds /\ A.file[e] = a /\ A.queue = S.queue
        /\ A.current = S.current /\ A.file = [S.file EXCEPT ![e] = a]
    BY <1>1, <1>2, <1>7, <1>8 DEF States
  <1>10. f.close \in BOOLEAN /\ (f.close <=> e \notin S.tree)
    BY <1>2, <1>4, <1>5 DEF Consistent, UsersOK, UserOK, File
  <1>11. /\ K \in [Requests -> Handle \cup {Nothing}] /\ \A q \in Requests : K[q] = Nothing \/ K[q] = H[q]
         /\ \A b \in Entries \ {e} : Users(K, b) = Users(H, b)
    BY <1>1, <1>2, <1>a, CacheBasics DEF Users, Without
  <1>12. f.fd \notin L /\ (f.fd = 0 \/ f.fd \in Fds)
    BY <1>2, <1>4, CacheBasics DEF Consistent, OwnersOK, OwnerOK
  <1>13. ASSUME e \in S.tree \/ Users(K, e) # {}
         PROVE  Consistent(A, K, L, None)
    <2>1. Users([H EXCEPT ![r] = Nothing], e) = Users(K, e)
      BY <1>a DEF Without
    <2>2. A = [S EXCEPT !.file[e].count = @ - 1] /\ A \in States
      BY <1>9, <1>b DEF Uncounted
    <2>3. Consistent(A, [H EXCEPT ![r] = Nothing], L, None)
      BY <1>2, <1>13, <2>1, <2>2, Released, ZenonT(60)
    <2> QED
      BY <2>3, <1>a DEF Without
  <1>14. ASSUME f.close = TRUE, a.count > 0
         PROVE  Consistent(R, K, L, None) /\ Shrinks(R, S, L)
    <2>1. R = A
      BY <1>7, <1>9, <1>14, <1>c DEF CloseCached
    <2>2. Users(K, e) # {}
      <3>1. Users(K, e) = Users(H, e) \ {r}
        BY <1>1, <1>2, <1>a, CacheBasics DEF Users, Without
      <3>2. Cardinality(Users(H, e)) = f.count /\ IsFiniteSet(Users(H, e))
        BY <1>2, <1>4, CountIs, UsersAre
      <3>3. Cardinality(Users(K, e)) = f.count - 1
        BY <1>2, <3>1, <3>2, FS_RemoveElement
      <3> QED
        BY <1>7, <1>14, <3>3, FS_EmptySet
    <2> QED
      BY <1>9, <1>13, <2>1, <2>2 DEF Shrinks
  <1>15. a.count <= 0 => Users(K, e) = {}
    <2> SUFFICES ASSUME a.count <= 0 PROVE Users(K, e) = {}
      OBVIOUS
    <2>1. Users(K, e) = Users(H, e) \ {r}
      BY <1>1, <1>2, <1>a, CacheBasics DEF Users, Without
    <2>2. Cardinality(Users(H, e)) = f.count /\ IsFiniteSet(Users(H, e))
      BY <1>2, <1>4, CountIs, UsersAre
    <2>3. Cardinality(Users(K, e)) = f.count - 1 /\ IsFiniteSet(Users(K, e))
      BY <1>2, <2>1, <2>2, FS_RemoveElement
    <2>4. f.count - 1 = 0
      <3>1. PICK m : m = f.count - 1
        OBVIOUS
      <3>2. m \in 0 .. Cardinality(Requests) /\ m <= 0
        BY <1>5, <1>7, <3>1
      <3>3. Cardinality(Requests) \in Nat
        BY CacheBasics, FS_CardinalityType
      <3>4. m = 0
        BY <3>2, <3>3
      <3> QED
        BY <3>1, <3>4
    <2> QED
      BY <2>3, <2>4, FS_EmptySet
  <1>16. ASSUME f.close = TRUE, ~ (a.count > 0)
         PROVE  Consistent(R, K, L, None) /\ Shrinks(R, S, L)
    <2>1. PICK U : U = CloseFd(A, f.fd)
      OBVIOUS
    <2>2. R = [U EXCEPT !.file[e] = Free]
      BY <1>7, <1>9, <1>16, <2>1, <1>c DEF CloseCached
    <2>3. PICK V : V = Changed(A, e, Free)
      OBVIOUS
    <2>4. R = CloseFd(V, f.fd)
      <3>1. R = Changed(U, e, Free)
        BY <2>2 DEF Changed
      <3>2. Changed(CloseFd(A, f.fd), e, Free) = CloseFd(Changed(A, e, Free), f.fd)
        BY <1>2, <1>9, ChangedCommutes
      <3> QED
        BY <2>1, <2>3, <3>1, <3>2, Zenon
    <2>5. /\ V \in States /\ V.tree = A.tree /\ V.current = A.current /\ V.queue = A.queue
          /\ V.fds = A.fds /\ V.file = [A.file EXCEPT ![e] = Free]
      BY <1>2, <1>9, <2>3, FreeIs DEF Changed, States
    <2>6. /\ V.tree = S.tree \ {e} /\ V.current = Cardinality(V.tree) /\ V.current <= MaxFiles
          /\ ToSet(V.queue) = V.tree /\ IsInjective(V.queue)
      <3>1. e \notin S.tree /\ None \notin S.tree
        BY <1>1, <1>10, <1>16
      <3>2. S.tree \ {e} = S.tree /\ S.tree \ {None} = S.tree
        BY <3>1
      <3> QED
        BY <1>1, <1>9, <2>5, <3>2
    <2>7. V.file = [S.file EXCEPT ![e] = Free] /\ V.fds = S.fds
      BY <1>1, <1>9, <2>5
    <2>8. Users(K, e) = {}
      BY <1>5, <1>7, <1>15, <1>16
    <2>9. R = CloseFd(V, S.file[e].fd)
      BY <1>4, <2>4
    <2> QED
      <3>1. V \in States
        BY <2>5
      <3>3. PICK W : W = CloseFd(V, S.file[e].fd)
        OBVIOUS
      <3>4. Consistent(W, K, L, None) /\ Shrinks(W, S, L)
        <4>1. /\ V.tree = S.tree \ {e} /\ V.current = Cardinality(V.tree) /\ V.current <= MaxFiles
              /\ ToSet(V.queue) = V.tree /\ IsInjective(V.queue) /\ V.fds = S.fds
          BY <2>6, <2>7
        <4>2. V.file = [S.file EXCEPT ![e] = Free]
          BY <2>7
        <4>3. \A p \in Requests : K[p] = Nothing \/ K[p] = H[p]
          BY <1>11
        <4>4. \A b \in Entries \ {e} : Users(K, b) = Users(H, b)
          BY <1>11
        <4>5. e \in Entries /\ K \in [Requests -> Handle \cup {Nothing}]
          BY <1>2, <1>11
        <4>6. Vacates(V, S, e, K, H)
          BY <2>8, <3>1, <4>1, <4>2, <4>3, <4>4, <4>5 DEF Vacates
        <4> QED
          BY <1>2, <3>3, <4>6, Discarded
      <3> QED
        BY <2>9, <3>3, <3>4
  <1>17. ASSUME f.close = FALSE
         PROVE  Consistent(R, K, L, None) /\ Shrinks(R, S, L)
    <2>1. e \in S.tree /\ Consistent(A, K, L, None)
      BY <1>10, <1>13, <1>17
    <2>2. PICK B : B = [A EXCEPT !.queue = Unqueued(@, e)]
      OBVIOUS
    <2>3. /\ Unqueued(A.queue, e) \in Seq(Entries) /\ IsInjective(Unqueued(A.queue, e))
          /\ ToSet(Unqueued(A.queue, e)) = ToSet(A.queue) \ {e}
      BY <1>1, <1>3, <1>9, UnqueuedIs
    <2>4. PICK q : q = Unqueued(A.queue, e)
      OBVIOUS
    <2>5. B = [A EXCEPT !.queue = q]
      BY <2>2, <2>4
    <2>6. B \in States /\ B.queue = q /\ B.file = A.file /\ B.tree = A.tree /\ B.fds = A.fds
          /\ B.current = A.current
      BY <1>9, <2>3, <2>4, <2>5 DEF States
    <2>7. Consistent(B, K, L, e)
      <3>1. ToSet(B.queue) = B.tree \ {e} /\ IsInjective(B.queue)
        BY <1>1, <1>9, <2>3, <2>4, <2>6
      <3>2. \A b \in Entries : Alike(B.file[b], A.file[b])
        BY <2>6 DEF Alike
      <3>3. SameFds(B.fds, A.fds)
        BY <2>6 DEF SameFds
      <3>4. FreshOK(B)
        BY <2>1, <2>6 DEF Consistent, FreshOK
      <3> QED
        BY <2>1, <2>6, <3>1, <3>2, <3>3, <3>4, Moved, ZenonT(60)
    <2>8. PICK T : T = ToHead(B, e)
      OBVIOUS
    <2>9. /\ Consistent(T, K, L, None) /\ T.tree = B.tree /\ T.fds = B.fds /\ T.current = B.current
          /\ Alike(T.file[e], B.file[e])
      <3>1. e \in B.tree
        BY <1>9, <2>1, <2>6
      <3>2. /\ Consistent(ToHead(B, e), K, L, None)
            /\ ToHead(B, e).tree = B.tree /\ ToHead(B, e).fds = B.fds /\ ToHead(B, e).current = B.current
            /\ \A b \in Entries : Alike(ToHead(B, e).file[b], B.file[b])
        BY <2>7, <3>1, ToHeadOK, ZenonT(60)
      <3> QED
        BY <1>2, <2>8, <3>2
    <2>10. CASE a.count > 0 \/ a.uses >= minUses
      <3>1. R = T
        BY <1>7, <1>9, <1>17, <2>2, <2>8, <2>10, <1>c DEF CloseCached
      <3> QED
        BY <1>9, <2>6, <2>9, <3>1 DEF Shrinks
    <2>11. CASE ~ (a.count > 0 \/ a.uses >= minUses)
      <3>1. PICK U : U = CloseFd(T, f.fd)
        OBVIOUS
      <3>2. R = [U EXCEPT !.file[e].fd = 0]
        BY <1>7, <1>9, <1>17, <2>2, <2>8, <2>11, <3>1, <1>c DEF CloseCached
      <3>3. T \in States /\ T.file[e] \in File /\ T.fds = S.fds /\ e \in T.tree /\ T.file[e].fd = f.fd
            /\ T.file[e].close = FALSE
        <4>1. T \in States
          BY <2>9 DEF Consistent
        <4> QED
          BY <1>2, <1>7, <1>9, <1>17, <2>1, <2>6, <2>9, <4>1 DEF Alike, States
      <3>4. U.file = T.file
        BY <3>1, <3>3 DEF CloseFd, States
      <3>5. PICK g : g = [T.file[e] EXCEPT !.fd = 0]
        OBVIOUS
      <3>6. 0 \in 0 .. MaxFd
        BY CacheBasics
      <3>7. /\ g \in File /\ g.fd = 0 /\ g.name = T.file[e].name /\ g.count = T.file[e].count
            /\ g.close = FALSE
        BY <3>3, <3>5, <3>6 DEF File
      <3>8. R = [U EXCEPT !.file[e] = g]
        BY <3>2, <3>4, <3>5
      <3>9. PICK V : V = Changed(T, e, g)
        OBVIOUS
      <3>10. R = CloseFd(V, f.fd)
        BY <1>2, <3>1, <3>3, <3>8, <3>9, ChangedCommutes DEF Changed
      <3>11. /\ V \in States /\ V.tree = T.tree /\ V.current = T.current /\ V.queue = T.queue
             /\ V.fds = T.fds /\ V.file[e] = g /\ \A b \in Entries \ {e} : V.file[b] = T.file[b]
        <4>1. T \in States /\ g \in File
          BY <3>3, <3>7
        <4> QED
          BY <1>2, <3>9, <4>1, ChangedIs, SMTT(60)
      <3>12. Users(K, e) = {}
        BY <1>5, <1>7, <1>15, <2>11
      <3>13. Consistent(V, K, (L \ {V.file[e].fd}) \cup ({T.file[e].fd} \ {0, V.file[e].fd}), None)
        BY <2>9, <3>3, <3>7, <3>11, <3>12, Assigned, ZenonT(60)
      <3>14. 0 \notin L
        BY <2>9, CacheBasics DEF Consistent, OwnersOK
      <3>15. (L \ {V.file[e].fd}) \cup ({T.file[e].fd} \ {0, V.file[e].fd}) = L \cup ({f.fd} \ {0})
        BY <3>3, <3>7, <3>11, <3>14
      <3>16. PICK M : M = L \cup ({f.fd} \ {0})
        OBVIOUS
      <3>17. Consistent(V, K, M, None) /\ M \ {f.fd} = L
        BY <1>12, <3>13, <3>14, <3>15, <3>16
      <3>18. f.fd = 0 \/ (f.fd \in M /\ \A p \in Requests : K[p].fd # f.fd)
        <4>1. CASE f.fd # 0
          <5>1. \A p \in Requests : K[p].fd # f.fd
            BY <1>2, <2>9, <3>3, <3>12, <4>1, NobodyReads
          <5> QED
            BY <3>16, <4>1, <5>1
        <4> QED
          BY <4>1
      <3>19. Consistent(R, K, M \ {f.fd}, None) /\ Shrinks(R, V, M \ {f.fd})
        BY <3>10, <3>17, <3>18, CloseFdOK
      <3> QED
        BY <3>3, <3>11, <3>17, <3>19 DEF Shrinks
    <2> QED
      BY <2>10, <2>11
  <1>18. Consistent(R, K, L, None) /\ Shrinks(R, S, L)
    BY <1>10, <1>14, <1>16, <1>17
  <1> QED
    BY <1>18, <1>a, <1>b, <1>c DEF GivenUp

(* ngx_open_file_cleanup(): the request ends, and the oldest entries       *)
(* expire.                                                                 *)
LEMMA ReleaseOK ==
  ASSUME CacheInv, exited = FALSE, NEW r \in Requests, Release(r)
  PROVE  GoesOn
  <1>1. PICK e : e = held[r].entry
    OBVIOUS
  <1>3. PICK R : R = GivenUp(st, e, held[r].minUses)
    OBVIOUS
  <1>4. /\ held[r] # Nothing /\ st' = ExpireOld(R) /\ held' = [held EXCEPT ![r] = Nothing]
        /\ disk' = disk /\ lost' = lost /\ exited' = exited
    BY <1>1, <1>3 DEF Release, GivenUp, Uncounted
  <1>5. Consistent(st, held, lost, None) /\ DirsApart(disk, st) /\ disk \in [Names -> Contents]
        /\ held \in [Requests -> Handle \cup {Nothing}]
    BY InTheCache
  <1>6. PICK K : K = Without(held, r)
    OBVIOUS
  <1>7. Consistent(R, K, lost, None) /\ Shrinks(R, st, lost)
    BY <1>1, <1>3, <1>4, <1>5, <1>6, CloseCachedOK
  <1>8. Consistent(ExpireOld(R), K, lost, None) /\ Expired(ExpireOld(R), R, lost)
    BY <1>7, ExpireOldOK
  <1>9. DirsApart(disk, R)
    BY <1>5, <1>7, DirsKept
  <1>10. DirsApart(disk, st')
    BY <1>4, <1>5, <1>8, <1>9, DirsKept DEF Expired
  <1>11. \A q \in Requests : held'[q] = Nothing \/ held'[q] = held[q]
    BY <1>4, <1>5
  <1> QED
    BY <1>4, <1>5, <1>6, <1>8, <1>10, <1>11 DEF GoesOn, Served, Without

(* Somebody renames a file: what a failing call of open() would notice.    *)
LEMMA ChangeOK ==
  ASSUME CacheInv, exited = FALSE, NEW n \in Names, NEW c \in Contents, Change(n, c)
  PROVE  GoesOn
  <1>1. PICK of : of = Failure(TRUE)
    OBVIOUS
  <1>2. of.ok = FALSE /\ of.fd = 0 /\ of.uniq = 0 /\ of.dir = FALSE
    BY <1>1 DEF Failure
  <1>3. AnswerIs(of, c, n, 0)
    BY <1>2 DEF AnswerIs, Contents
  <1>4. of.fd \notin FreeFds
    BY <1>2, CacheBasics DEF FreeFds
  <1>5. Possible(n, c) /\ disk' = [disk EXCEPT ![n] = c] /\ held' = held /\ lost' = lost /\ exited' = exited
    BY DEF Change
  <1>6. PICK S : S = [st EXCEPT !.fds = Table(n, of, c)]
    OBVIOUS
  <1>7. Table(n, of, c) = Watched(st.fds, n, c)
    BY <1>4 DEF Table
  <1>8. st' = S
    BY <1>6, <1>7 DEF Change
  <1>9. AfterAnswer(S, n, of, c)
    BY <1>3, <1>5, <1>6, TableIs
  <1>10. Held(of) = lost
    BY <1>2, HeldIs
  <1>11. disk' \in [Names -> Contents]
    BY <1>5, InTheCache
  <1> QED
    BY <1>5, <1>8, <1>9, <1>10, <1>11 DEF AfterAnswer, GoesOn, Served

(* Time passes for the entry and for its descriptor.                       *)
LEMMA AgedTogether ==
  ASSUME NEW cap \in Nat, NEW a \in 0 .. cap, NEW b \in 0 .. cap, a <= b
  PROVE  Aged(a, cap) <= Aged(b, cap) /\ 0 <= Aged(b, cap)
  BY DEF Aged

(* Time passes: an entry ages at least as fast as its descriptor becomes   *)
(* stale.                                                                  *)
LEMMA TickOK ==
  ASSUME CacheInv, exited = FALSE, Tick
  PROVE  GoesOn
  <1> DEFINE file == [e \in Entries |-> Older(st.file[e])]
             fds == [d \in Fds |-> Staler(st.fds[d])]
  <1>1. PICK F : F = file
    OBVIOUS
  <1>2. PICK G : G = fds
    OBVIOUS
  <1>3. PICK T : T = [st EXCEPT !.file = F, !.fds = G]
    OBVIOUS
  <1>4. st' = T /\ disk' = disk /\ held' = held /\ lost' = lost /\ exited' = exited
    <2>1. st' = [st EXCEPT !.file = file, !.fds = fds]
      BY Zenon DEF Tick
    <2>2. disk' = disk /\ held' = held /\ lost' = lost /\ exited' = exited
      BY DEF Tick
    <2> HIDE DEF file, fds
    <2> QED
      BY <1>1, <1>2, <1>3, <2>1, <2>2
  <1>5. /\ Consistent(st, held, lost, None) /\ DirsApart(disk, st) /\ disk \in [Names -> Contents]
        /\ st \in States /\ st.tree \subseteq Entries
    BY InTheCache
  <1>6. ASSUME NEW e \in Entries
        PROVE  /\ F[e] \in File /\ Alike(F[e], st.file[e])
               /\ st.file[e] # Free => F[e].created = Aged(st.file[e].created, Valid)
    <2>1. F[e] = IF st.file[e] = Free THEN Free ELSE
                   [st.file[e] EXCEPT !.created = Aged(@, Valid), !.accessed = Aged(@, AgeCap)]
      BY <1>1 DEF Older
    <2>2. st.file[e] \in File
      BY <1>5 DEF States
    <2>3. CASE st.file[e] = Free
      BY <2>1, <2>2, <2>3 DEF Alike
    <2>4. CASE st.file[e] # Free
      <3>1. PICK created : created = Aged(st.file[e].created, Valid)
        OBVIOUS
      <3>2. PICK accessed : accessed = Aged(st.file[e].accessed, AgeCap)
        OBVIOUS
      <3>3. created \in 0 .. Valid
        <4>1. st.file[e].created \in 0 .. Valid
          BY <2>2 DEF File
        <4> QED
          BY <3>1, <4>1, CapsAre, AgedIs
      <3>4. accessed \in 0 .. AgeCap
        <4>1. st.file[e].accessed \in 0 .. AgeCap
          BY <2>2 DEF File
        <4> QED
          BY <3>2, <4>1, CapsAre, AgedIs
      <3>5. F[e] = [st.file[e] EXCEPT !.created = created, !.accessed = accessed]
        BY <2>1, <2>4, <3>1, <3>2
      <3>6. F[e] \in File /\ F[e].created = created
        BY <2>2, <3>3, <3>4, <3>5 DEF File
      <3>7. Alike(F[e], st.file[e])
        BY <2>2, <2>4, <3>5 DEF File, Alike
      <3> QED
        BY <3>1, <3>6, <3>7
    <2> QED
      BY <2>3, <2>4
  <1>7. ASSUME NEW d \in Fds
        PROVE  /\ G[d] \in Fd /\ G[d].name = st.fds[d].name /\ G[d].ino = st.fds[d].ino
               /\ st.fds[d] = Closed => G[d] = Closed
               /\ st.fds[d] # Closed => G[d].stale = 0 \/ G[d].stale = Aged(st.fds[d].stale, Valid)
    <2>1. G[d] = Staler(st.fds[d])
      BY <1>2
    <2>2. st.fds[d] \in Fd
      BY <1>5 DEF States
    <2>3. PICK s : s = IF disk[st.fds[d].name] = [ino |-> st.fds[d].ino, dir |-> FALSE]
                       THEN 0 ELSE Aged(st.fds[d].stale, Valid)
      OBVIOUS
    <2>4. s = 0 \/ s = Aged(st.fds[d].stale, Valid)
      BY <2>3
    <2>5. s \in 0 .. Valid
      <3>1. st.fds[d].stale \in 0 .. Valid
        BY <2>2 DEF Fd
      <3>2. Aged(st.fds[d].stale, Valid) \in 0 .. Valid
        BY <3>1, CapsAre, AgedIs
      <3> QED
        BY <2>4, <3>2, CapsAre
    <2>6. G[d] = IF st.fds[d] = Closed THEN Closed ELSE [st.fds[d] EXCEPT !.stale = s]
      BY <2>1, <2>3 DEF Staler
    <2> QED
      BY <2>2, <2>4, <2>5, <2>6 DEF Fd
  <1>8. F \in [Entries -> File] /\ G \in [Fds -> Fd]
    <2>1. F = [e \in Entries |-> F[e]] /\ G = [d \in Fds |-> G[d]]
      BY <1>1, <1>2
    <2> HIDE DEF file, fds
    <2> QED
      BY <1>6, <1>7, <2>1
  <1> HIDE DEF file, fds
  <1>9. /\ T \in States /\ T.tree = st.tree /\ T.current = st.current /\ T.queue = st.queue
        /\ T.file = F /\ T.fds = G
    BY <1>3, <1>5, <1>8 DEF States
  <1>10. FreshOK(T)
    <2> SUFFICES ASSUME NEW e \in st.tree, F[e].fd # 0
                 PROVE  G[F[e].fd].stale <= F[e].created
      BY <1>9 DEF FreshOK
    <2>1. e \in Entries /\ st.file[e] \in File
      BY <1>5 DEF States
    <2>2. PICK d : d = st.file[e].fd
      OBVIOUS
    <2>3. F[e].fd = d /\ d # 0
      BY <1>6, <2>1, <2>2 DEF Alike
    <2>4. d \in Fds /\ st.fds[d].ino # 0 /\ st.fds[d].stale <= st.file[e].created
      BY <1>5, <2>1, <2>2, <2>3 DEF Consistent, OwnersOK, OwnerOK, FreshOK
    <2>5. st.file[e] # Free /\ st.fds[d] # Closed
      BY <2>2, <2>3, <2>4, CacheBasics
    <2>6. st.fds[d].stale \in 0 .. Valid /\ st.file[e].created \in 0 .. Valid
      BY <1>5, <2>1, <2>4 DEF States, File, Fd
    <2>7. /\ Aged(st.fds[d].stale, Valid) <= Aged(st.file[e].created, Valid)
          /\ 0 <= Aged(st.file[e].created, Valid)
      BY <2>4, <2>6, CapsAre, AgedTogether
    <2>8. F[e].created = Aged(st.file[e].created, Valid)
      BY <1>6, <2>1, <2>5
    <2>9. G[d].stale = 0 \/ G[d].stale = Aged(st.fds[d].stale, Valid)
      BY <1>7, <2>4, <2>5
    <2> QED
      BY <2>3, <2>7, <2>8, <2>9
  <1>11. Consistent(T, held, lost, None)
    <2>1. ToSet(T.queue) = T.tree \ {None} /\ IsInjective(T.queue)
      BY <1>5, <1>9 DEF Consistent, ListsOK
    <2>2. \A a \in Entries : Alike(T.file[a], st.file[a])
      BY <1>6, <1>9
    <2>3. SameFds(T.fds, st.fds)
      BY <1>7, <1>9 DEF SameFds
    <2> QED
      BY <1>5, <1>9, <1>10, <2>1, <2>2, <2>3, Moved
  <1>12. DirsApart(disk, T)
    BY <1>5, <1>7, <1>9 DEF DirsApart
  <1> QED
    BY <1>4, <1>5, <1>11, <1>12 DEF GoesOn, Served

(* A list without repetitions is as long as the set of its elements.       *)
LEMMA LengthIs ==
  ASSUME NEW S, NEW s \in Seq(S), IsInjective(s)
  PROVE  Len(s) \in Nat /\ Cardinality(ToSet(s)) = Len(s)
  <1>1. Len(s) \in Nat /\ DOMAIN s = 1 .. Len(s)
    OBVIOUS
  <1>2. s \in [1 .. Len(s) -> ToSet(s)]
    BY <1>1 DEF ToSet
  <1>3. s \in Surjection(1 .. Len(s), ToSet(s))
    BY <1>1, <1>2 DEF Surjection, ToSet
  <1>4. s \in Injection(1 .. Len(s), ToSet(s))
    BY <1>2 DEF Injection
  <1>5. IsFiniteSet(1 .. Len(s)) /\ Cardinality(1 .. Len(s)) = Len(s)
    <2>1. /\ IsFiniteSet(1 .. Len(s))
          /\ Cardinality(1 .. Len(s)) = IF 1 > Len(s) THEN 0 ELSE Len(s) - 1 + 1
      BY <1>1, FS_Interval
    <2> QED
      BY <1>1, <2>1
  <1>6. Cardinality(ToSet(s)) = Cardinality(1 .. Len(s))
    BY <1>3, <1>4, <1>5, FS_Surjection
  <1> QED
    BY <1>1, <1>5, <1>6

(* Each open descriptor that is not lost has the one live entry.           *)
LEMMA OwnedIs ==
  ASSUME NEW S, NEW L, OwnersOK(S, L), TableOK(S)
  PROVE  /\ \A d \in Fds : S.fds[d] # Closed /\ d \notin L =>
              \E e \in {e \in Entries : S.file[e] # Free} :
                /\ S.file[e].fd = d /\ S.file[e].uniq = S.fds[d].ino
                /\ S.file[e].name = S.fds[d].name
                /\ \A x \in {x \in Entries : S.file[x] # Free} \ {e} : S.file[x].fd # d
         /\ \A e \in {e \in Entries : S.file[e] # Free} : S.file[e].fd # 0 =>
              /\ S.fds[S.file[e].fd] # Closed
              /\ ~ S.file[e].err /\ ~ S.file[e].dir
  <1>1. ASSUME NEW d \in Fds, S.fds[d] # Closed, d \notin L
        PROVE  \E e \in {e \in Entries : S.file[e] # Free} :
                 /\ S.file[e].fd = d /\ S.file[e].uniq = S.fds[d].ino
                 /\ S.file[e].name = S.fds[d].name
                 /\ \A x \in {x \in Entries : S.file[x] # Free} \ {e} : S.file[x].fd # d
    <2>1. S.fds[d].ino # 0 /\ d # 0
      BY <1>1, CacheBasics DEF TableOK
    <2>2. PICK e \in Entries : S.file[e].fd = d
      BY <1>1, <2>1 DEF OwnersOK
    <2>3. OwnerOK(S, L, S.file[e]) /\ S.file[e] # Free
      BY <2>1, <2>2, CacheBasics DEF OwnersOK
    <2>4. \A x \in Entries : S.file[x].fd = d => x = e
      BY <2>1, <2>2 DEF OwnersOK
    <2> QED
      BY <2>2, <2>3, <2>4 DEF OwnerOK
  <1>2. ASSUME NEW e \in Entries, S.file[e].fd # 0
        PROVE  S.fds[S.file[e].fd] # Closed /\ ~ S.file[e].err /\ ~ S.file[e].dir
    BY <1>2, CacheBasics DEF OwnersOK, OwnerOK
  <1> QED
    BY <1>1, <1>2

(* The property follows while the process runs.                            *)
LEMMA SoundWhileRunning ==
  ASSUME CacheInv, exited = FALSE
  PROVE  CacheIsSound
  <1>1. Consistent(st, held, lost, None) /\ CacheTypeOK
    BY DEF CacheInv
  <1>2. UsersOK(st, held) /\ ListsOK(st, None) /\ OwnersOK(st, lost) /\ TableOK(st)
        /\ HandlesOK(st, held, lost) /\ st.tree \subseteq Entries
    BY <1>1 DEF Consistent, States
  <1>3. \A e \in Entries : HoldersOf(e) = Users(held, e)
    BY DEF HoldersOf, Users
  <1>4. \A e \in Entries : /\ st.file[e].count = Cardinality(Users(held, e))
                           /\ st.file[e] # Free <=> (e \in st.tree \/ Users(held, e) # {})
                           /\ st.file[e] # Free => (st.file[e].close <=> e \notin st.tree)
    BY <1>2, CacheBasics DEF UsersOK, UserOK
  <1>5. ListsAgree
    BY <1>2, <1>4, CacheBasics DEF ListsOK, ListsAgree, Live
  <1>6. EntriesOutliveTheirUsers
    BY <1>3, <1>4 DEF EntriesOutliveTheirUsers, Live
  <1>7. HandlesStayOpen
    BY <1>2 DEF HandlesStayOpen, HandlesOK, HandleOK
  <1>8. DescriptorsAreOwned
    BY <1>2, OwnedIs, Zenon DEF DescriptorsAreOwned, Live
  <1> QED
    BY <1>1, <1>5, <1>6, <1>7, <1>8 DEF CacheIsSound

(* The process ends with what the queue listed closed and freed.           *)
LEMMA ExitOK ==
  ASSUME CacheInv, exited = FALSE, Exit
  PROVE  CacheIsSound' /\ exited' = TRUE /\ held' = held
  <1> DEFINE file == [e \in Entries |-> IF e \in ToSet(st.queue) THEN Free ELSE st.file[e]]
             fds == [d \in Fds |-> IF \E e \in ToSet(st.queue) : st.file[e].fd = d THEN Closed
                                   ELSE st.fds[d]]
  <1>1. PICK F : F = file
    OBVIOUS
  <1>2. PICK G : G = fds
    OBVIOUS
  <1>3. PICK A : A = st.tree \ ToSet(st.queue)
    OBVIOUS
  <1>4. PICK n : n = st.current - Len(st.queue)
    OBVIOUS
  <1>5. PICK T : T = [st EXCEPT !.file = F, !.fds = G, !.tree = A, !.current = n, !.queue = << >>]
    OBVIOUS
  <1>6. st' = T /\ disk' = disk /\ held' = held /\ lost' = lost /\ exited' = TRUE
    BY <1>1, <1>2, <1>3, <1>4, <1>5 DEF Exit
  <1>7. /\ Consistent(st, held, lost, None) /\ disk \in [Names -> Contents] /\ CacheTypeOK
        /\ st \in States /\ st.tree \subseteq Entries
    BY InTheCache DEF CacheInv
  <1>8. /\ T.file = F /\ T.fds = G /\ T.tree = A /\ T.current = n /\ T.queue = << >>
    BY <1>5, <1>7 DEF States
  <1>9. /\ ToSet(st.queue) = st.tree /\ IsInjective(st.queue) /\ st.queue \in Seq(Entries)
        /\ st.current = Cardinality(st.tree)
    BY <1>7, CacheBasics DEF Consistent, ListsOK, States
  <1>10. A = {} /\ n = 0
    <2>1. Len(st.queue) \in Nat /\ Cardinality(st.tree) = Len(st.queue)
      BY <1>9, LengthIs
    <2> QED
      BY <1>3, <1>4, <1>9, <2>1
  <1>11. \A e \in Entries : F[e] = IF e \in st.tree THEN Free ELSE st.file[e]
    BY <1>1, <1>9
  <1>12. \A d \in Fds : G[d] = IF \E e \in st.tree : st.file[e].fd = d THEN Closed ELSE st.fds[d]
    BY <1>2, <1>9
  <1>13. F \in [Entries -> File] /\ G \in [Fds -> Fd]
    <2>1. F = [e \in Entries |-> F[e]] /\ G = [d \in Fds |-> G[d]]
      BY <1>1, <1>2
    <2>2. \A e \in Entries : st.file[e] \in File
      BY <1>7 DEF States
    <2>3. \A d \in Fds : st.fds[d] \in Fd
      BY <1>7 DEF States
    <2>4. Closed \in Fd
      BY CacheBasics DEF Closed, Fd
    <2>5. \A e \in Entries : F[e] \in File
      BY <1>11, <2>2, FreeIs
    <2>6. \A d \in Fds : G[d] \in Fd
      BY <1>12, <2>3, <2>4
    <2> HIDE DEF file, fds
    <2> QED
      BY <2>1, <2>5, <2>6
  <1> HIDE DEF file, fds
  <1>14. CacheTypeOK'
    BY <1>6, <1>7, <1>8, <1>13 DEF CacheTypeOK, Fd
  <1>15. ListsAgree'
    <2>1. ToSet(<< >>) = {} /\ IsInjective(<< >>)
      BY DEF ToSet, IsInjective
    <2>2. Cardinality({}) = 0 /\ 0 <= MaxFiles
      BY FS_EmptySet, CacheBasics
    <2> QED
      BY <1>6, <1>8, <1>10, <2>1, <2>2 DEF ListsAgree
  <1>16. OwnersOK(T, lost) /\ TableOK(T)
    <2>1. OwnersOK(st, lost) /\ TableOK(st)
      BY <1>7 DEF Consistent
    <2>2. ASSUME NEW e \in Entries, F[e].fd # 0
          PROVE  /\ F[e] = st.file[e] /\ OwnerOK(st, lost, st.file[e])
                 /\ G[st.file[e].fd] = st.fds[st.file[e].fd]
      <3>1. F[e] = st.file[e] /\ e \notin st.tree
        BY <1>11, <2>2, CacheBasics
      <3>2. OwnerOK(st, lost, st.file[e])
        BY <2>1, <2>2, <3>1 DEF OwnersOK
      <3>3. \A x \in st.tree : st.file[x].fd # st.file[e].fd
        BY <1>7, <2>1, <2>2, <3>1 DEF OwnersOK
      <3> QED
        BY <1>12, <3>1, <3>2, <3>3 DEF OwnerOK
    <2>3. \A e \in Entries : T.file[e].fd # 0 => OwnerOK(T, lost, T.file[e])
      <3> SUFFICES ASSUME NEW e \in Entries, F[e].fd # 0
                   PROVE  OwnerOK(T, lost, F[e])
        BY <1>8
      <3>1. /\ F[e] = st.file[e] /\ OwnerOK(st, lost, st.file[e])
            /\ T.fds[st.file[e].fd] = st.fds[st.file[e].fd]
        BY <1>8, <2>2
      <3> QED
        BY <3>1 DEF OwnerOK
    <2>4. \A e, f \in Entries : T.file[e].fd = T.file[f].fd /\ T.file[e].fd # 0 => e = f
      BY <1>8, <2>1, <2>2 DEF OwnersOK
    <2>5. ASSUME NEW d \in Fds \ lost, G[d].ino # 0
          PROVE  \E e \in Entries : F[e].fd = d
      <3>1. G[d] = st.fds[d] /\ \A e \in st.tree : st.file[e].fd # d
        BY <1>12, <2>5, CacheBasics
      <3>2. PICK e \in Entries : st.file[e].fd = d
        BY <2>1, <2>5, <3>1 DEF OwnersOK
      <3> QED
        BY <1>11, <3>1, <3>2
    <2>6. lost \subseteq Fds /\ \A d \in lost : G[d].ino # 0
      <3>1. lost \subseteq Fds /\ \A d \in lost : st.fds[d].ino # 0 /\ d # 0
        BY <2>1, CacheBasics DEF OwnersOK
      <3>2. \A d \in lost : \A e \in st.tree : st.file[e].fd # d
        BY <1>7, <2>1, <3>1 DEF OwnersOK, OwnerOK
      <3> QED
        BY <1>12, <3>1, <3>2
    <2>7. TableOK(T)
      BY <1>8, <1>12, <2>1 DEF TableOK
    <2> QED
      BY <1>8, <2>3, <2>4, <2>5, <2>6, <2>7 DEF OwnersOK
  <1>17. DescriptorsAreOwned'
    <2>1. /\ \A d \in Fds : T.fds[d] # Closed /\ d \notin lost =>
               \E e \in {e \in Entries : T.file[e] # Free} :
                 /\ T.file[e].fd = d /\ T.file[e].uniq = T.fds[d].ino
                 /\ T.file[e].name = T.fds[d].name
                 /\ \A x \in {x \in Entries : T.file[x] # Free} \ {e} : T.file[x].fd # d
          /\ \A e \in {e \in Entries : T.file[e] # Free} : T.file[e].fd # 0 =>
               /\ T.fds[T.file[e].fd] # Closed
               /\ ~ T.file[e].err /\ ~ T.file[e].dir
      BY <1>16, OwnedIs, Zenon
    <2>2. Live' = {e \in Entries : T.file[e] # Free}
      BY <1>6 DEF Live
    <2>3. st' = T /\ lost' = lost
      BY <1>6
    <2> QED
      BY <2>1, <2>2, <2>3 DEF DescriptorsAreOwned
  <1>18. EntriesOutliveTheirUsers' /\ HandlesStayOpen'
    BY <1>6 DEF EntriesOutliveTheirUsers, HandlesStayOpen
  <1> QED
    BY <1>6, <1>14, <1>15, <1>17, <1>18 DEF CacheIsSound

(* ngx_open_file_cache_init()                                              *)
LEMMA CacheInitOK == CacheInit => CacheInv
  <1> SUFFICES ASSUME CacheInit
               PROVE  CacheInv
    OBVIOUS
  <1>1. /\ disk \in [Names -> Contents] /\ lost = {} /\ exited = FALSE
        /\ held = [r \in Requests |-> Nothing]
        /\ st = [file |-> [e \in Entries |-> Free], tree |-> {}, queue |-> << >>,
                 current |-> 0, fds |-> [d \in Fds |-> Closed]]
    BY DEF CacheInit
  <1>2. /\ \A e \in Entries : st.file[e] = Free
        /\ \A d \in Fds : st.fds[d] = Closed
        /\ st.tree = {} /\ st.queue = << >> /\ st.current = 0
    BY <1>1
  <1>3. Closed \in Fd
    BY CacheBasics DEF Closed, Fd
  <1>4. st \in States
    <2>1. [e \in Entries |-> Free] \in [Entries -> File] /\ [d \in Fds |-> Closed] \in [Fds -> Fd]
      BY <1>3, FreeIs
    <2>2. << >> \in Seq(Entries)
      OBVIOUS
    <2> QED
      BY <1>1, <2>1, <2>2 DEF States
  <1>5. \A e \in Entries : Users(held, e) = {}
    BY <1>1, CacheBasics DEF Users
  <1>6. ListsOK(st, None)
    <2>1. ToSet(<< >>) = {} /\ IsInjective(<< >>)
      BY DEF ToSet, IsInjective
    <2>2. Cardinality({}) = 0 /\ 0 <= MaxFiles
      BY FS_EmptySet, CacheBasics
    <2> QED
      BY <1>2, <2>1, <2>2 DEF ListsOK
  <1>7. UsersOK(st, held)
    <2>1. Cardinality({}) = 0
      BY FS_EmptySet
    <2> QED
      BY <1>2, <1>5, <2>1, CacheBasics DEF UsersOK, UserOK
  <1>8. TableOK(st) /\ OwnersOK(st, lost) /\ FreshOK(st)
    BY <1>1, <1>2, CacheBasics DEF TableOK, OwnersOK, FreshOK
  <1>9. HandlesOK(st, held, lost)
    BY <1>1 DEF HandlesOK
  <1>10. DirsApart(disk, st)
    BY <1>1, <1>2, CacheBasics DEF DirsApart, Contents
  <1>11. CacheTypeOK
    BY <1>1, <1>4 DEF CacheTypeOK, States, Fd
  <1> QED
    BY <1>1, <1>4, <1>6, <1>7, <1>8, <1>9, <1>10, <1>11 DEF CacheInv, Consistent

(* A step after which the process runs keeps the invariant.                *)
LEMMA StillSound ==
  ASSUME GoesOn
  PROVE  CacheInv'
  <1>1. /\ st' \in States /\ lost' \subseteq Fds /\ disk' \in [Names -> Contents] /\ exited' = FALSE
        /\ Consistent(st', held', lost', None) /\ DirsApart(disk', st')
    BY DEF GoesOn, Consistent, OwnersOK
  <1>2. CacheTypeOK'
    BY <1>1 DEF CacheTypeOK, States, Fd
  <1> QED
    BY <1>1, <1>2 DEF CacheInv

(* Every step but the last.                                                *)
LEMMA StepOK ==
  ASSUME CacheInv, CacheNext, ~ Exit
  PROVE  GoesOn
  <1>1. exited = FALSE
    BY DEF CacheInv, CacheTypeOK, CacheNext
  <1>2. ASSUME NEW r \in Requests, Release(r)
        PROVE  GoesOn
    BY <1>1, <1>2, ReleaseOK
  <1>3. ASSUME NEW r \in Requests, NEW n \in Names, OpenCachedFile(r, n)
        PROVE  GoesOn
    <2>1. held[r] = Nothing
      BY <1>3 DEF OpenCachedFile
    <2>2. CASE Hit(r, n)
      BY <1>1, <2>1, <2>2, HitOK
    <2>3. CASE Reopen(r, n)
      BY <1>1, <2>1, <2>3, ReopenOK
    <2>4. CASE Retest(r, n)
      BY <1>1, <2>1, <2>4, RetestOK
    <2>5. CASE Miss(r, n)
      BY <1>1, <2>1, <2>5, MissOK
    <2> QED
      BY <1>3, <2>2, <2>3, <2>4, <2>5 DEF OpenCachedFile
  <1>4. ASSUME NEW n \in Names, NEW c \in Contents, Change(n, c)
        PROVE  GoesOn
    BY <1>1, <1>4, ChangeOK
  <1>5. ASSUME Tick
        PROVE  GoesOn
    BY <1>1, <1>5, TickOK
  <1> QED
    BY <1>2, <1>3, <1>4, <1>5 DEF CacheNext

(* Between calls of the cache, and whatever happens to the files, tree,    *)
(* queue and count agree, each entry counts its requests, each descriptor  *)
(* belongs to one entry or was given up, and no entry is younger than its  *)
(* descriptor is stale (ngx_open_file_cache.c).                            *)
THEOREM CacheInvariance == CacheSpec => []CacheInv
  <1>1. CacheInit => CacheInv
    BY CacheInitOK
  <1>2. CacheInv /\ [CacheNext]_cacheVars => CacheInv'
    <2> SUFFICES ASSUME CacheInv, [CacheNext]_cacheVars
                 PROVE  CacheInv'
      OBVIOUS
    <2>1. CASE CacheNext /\ ~ Exit
      BY <2>1, StepOK, StillSound
    <2>2. CASE CacheNext /\ Exit
      <3>1. exited = FALSE
        BY <2>2 DEF CacheInv, CacheTypeOK, CacheNext
      <3>2. CacheIsSound' /\ exited' = TRUE
        BY <2>2, <3>1, ExitOK
      <3> QED
        BY <3>2 DEF CacheInv, CacheIsSound
    <2>3. CASE UNCHANGED cacheVars
      <3>1. disk' = disk /\ st' = st /\ held' = held /\ lost' = lost /\ exited' = exited
        BY <2>3 DEF cacheVars
      <3>2. CacheTypeOK' <=> CacheTypeOK
        BY <3>1 DEF CacheTypeOK
      <3>3. CacheIsSound' <=> CacheIsSound
        <4>1. Live' = Live /\ \A e \in Entries : HoldersOf(e)' = HoldersOf(e)
          BY <3>1 DEF Live, HoldersOf
        <4>2. ListsAgree' <=> ListsAgree
          BY <3>1, <4>1 DEF ListsAgree
        <4>3. EntriesOutliveTheirUsers' <=> EntriesOutliveTheirUsers
          BY <3>1, <4>1 DEF EntriesOutliveTheirUsers
        <4>4. HandlesStayOpen' <=> HandlesStayOpen
          BY <3>1 DEF HandlesStayOpen
        <4>5. DescriptorsAreOwned' <=> DescriptorsAreOwned
          BY <3>1, <4>1 DEF DescriptorsAreOwned
        <4> QED
          BY <3>2, <4>2, <4>3, <4>4, <4>5 DEF CacheIsSound
      <3> QED
        BY <3>1, <3>2, <3>3 DEF CacheInv
    <2> QED
      BY <2>1, <2>2, <2>3
  <1> QED
    BY <1>1, <1>2, PTL DEF CacheSpec

(* Entries outlive their users, handles in use stay open and are of the    *)
(* file that was opened, no descriptor is lost while an entry has it, and  *)
(* the exit of the process frees everything that is not in use             *)
(* (ngx_close_cached_file(), ngx_expire_old_cached_files(),                *)
(* ngx_open_file_cache_cleanup()).                                         *)
THEOREM CacheStaysSound == CacheSpec => []CacheIsSound
  <1>1. CacheInv => CacheIsSound
    <2> SUFFICES ASSUME CacheInv
                 PROVE  CacheIsSound
      OBVIOUS
    <2>1. exited = TRUE \/ exited = FALSE
      BY DEF CacheInv, CacheTypeOK
    <2> QED
      BY <2>1, SoundWhileRunning DEF CacheInv
  <1> QED
    BY <1>1, CacheInvariance, PTL

(* What the entry knows of the age of its descriptor.                      *)
LEMMA FreshEnough ==
  ASSUME GoesOn, NEW r \in Requests, held[r] = Nothing, held'[r] # Nothing
  PROVE  /\ st'.fds[held'[r].fd].name = st'.file[held'[r].entry].name
         /\ st'.fds[held'[r].fd].stale = 0 \/ st'.fds[held'[r].fd].stale < Valid
  <1>1. PICK S : S = st'
    OBVIOUS
  <1>2. PICK e : e = held'[r].entry
    OBVIOUS
  <1>3. PICK L : L = lost'
    OBVIOUS
  <1>4. /\ Consistent(S, held', L, None) /\ e \in S.tree /\ S.file[e].fd = held'[r].fd
        /\ S.file[e].created = 0 \/ S.file[e].created < Valid
    BY <1>1, <1>2, <1>3 DEF GoesOn, Served
  <1>5. /\ S \in States /\ S.tree \subseteq Entries /\ held' \in [Requests -> Handle \cup {Nothing}]
        /\ OwnersOK(S, L) /\ FreshOK(S)
    BY <1>4 DEF Consistent, States, HandlesOK
  <1>6. S.file[e].fd # 0 /\ e \in Entries
    BY <1>4, <1>5, CacheBasics DEF Handle
  <1>7. /\ S.file[e].fd \in Fds /\ S.fds[S.file[e].fd].name = S.file[e].name
        /\ S.fds[S.file[e].fd].stale <= S.file[e].created
    BY <1>4, <1>5, <1>6 DEF OwnersOK, OwnerOK, FreshOK
  <1>8. S.fds[S.file[e].fd].stale \in 0 .. Valid /\ S.file[e].created \in 0 .. Valid
    BY <1>5, <1>6, <1>7 DEF States, Fd, File
  <1>9. S.fds[S.file[e].fd].stale = 0 \/ S.fds[S.file[e].fd].stale < Valid
    BY <1>4, <1>7, <1>8, CapsAre
  <1> QED
    BY <1>1, <1>2, <1>4, <1>7, <1>9

(* Nobody gets a descriptor from the cache that stopped being the file of  *)
(* the name `valid` seconds ago or earlier (the test of                    *)
(* ngx_open_cached_file() at line 238).                                    *)
THEOREM CacheServesFresh == CacheSpec => ServedFresh
  <1> DEFINE Fresh ==
        \A r \in Requests : held[r] = Nothing /\ held'[r] # Nothing =>
          LET f == st'.fds[held'[r].fd] IN
          /\ f.name = st'.file[held'[r].entry].name
          /\ f.stale = 0 \/ f.stale < Valid
  <1>1. CacheInv /\ [CacheNext]_cacheVars => [Fresh]_cacheVars
    <2> SUFFICES ASSUME CacheInv, CacheNext
                 PROVE  Fresh
      OBVIOUS
    <2>1. CASE Exit
      <3>1. held' = held
        BY <2>1 DEF Exit
      <3> QED
        BY <3>1
    <2>2. CASE ~ Exit
      <3>1. GoesOn
        BY <2>2, StepOK
      <3> QED
        BY <3>1, FreshEnough
    <2> QED
      BY <2>1, <2>2
  <1> QED
    BY <1>1, CacheInvariance, PTL DEF CacheSpec, ServedFresh
=============================================================================
