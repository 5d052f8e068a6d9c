-------------------------- MODULE ConnectionsProofs --------------------------
(***************************************************************************)
(* Proofs about Connections, for any number of connections and uses: the   *)
(* lists of the pool and of the events, and the delivery of events.        *)
(***************************************************************************)
EXTENDS Connections, FiniteSetTheorems, TLAPS

-----------------------------------------------------------------------------
(* Queues: sequences in which nothing occurs twice. *)

(* A sequence without its element at k.                                    *)
LEMMA RemoveAtIs ==
  ASSUME NEW S, NEW s \in Seq(S), NEW k \in 1 .. Len(s)
  PROVE  /\ RemoveAt(s, k) \in Seq(S) /\ Len(RemoveAt(s, k)) = Len(s) - 1
         /\ \A j \in 1 .. Len(s) - 1 :
              RemoveAt(s, k)[j] = IF j < k THEN s[j] ELSE s[j + 1]
  <1> DEFINE a == SubSeq(s, 1, k - 1)
             b == SubSeq(s, k + 1, Len(s))
  <1>1. Len(s) \in Nat /\ k \in Nat /\ k <= Len(s) /\ k >= 1
    OBVIOUS
  <1>2. a \in Seq(S) /\ Len(a) = k - 1 /\ \A j \in 1 .. k - 1 : a[j] = s[j]
    BY <1>1
  <1>3. b \in Seq(S) /\ Len(b) = Len(s) - k /\ \A j \in 1 .. Len(s) - k : b[j] = s[k + j]
    BY <1>1
  <1> HIDE DEF a, b
  <1>4. a \o b \in Seq(S) /\ Len(a \o b) = Len(s) - 1
    <2> \A p, q \in Seq(S) : p \o q \in Seq(S) /\ Len(p \o q) = Len(p) + Len(q)
      OBVIOUS
    <2>1. a \o b \in Seq(S) /\ Len(a \o b) = Len(a) + Len(b)
      BY <1>2, <1>3, Zenon
    <2>2. \A m, n \in Int : (m - 1) + (n - m) = n - 1
      OBVIOUS
    <2>3. (k - 1) + (Len(s) - k) = Len(s) - 1
      BY <1>1, <2>2
    <2> QED
      BY <1>2, <1>3, <2>1, <2>3, Zenon
  <1>5. ASSUME NEW j \in 1 .. Len(s) - 1
        PROVE  (a \o b)[j] = IF j < k THEN s[j] ELSE s[j + 1]
    <2>1. CASE j < k
      BY <1>1, <1>2, <1>3, <2>1
    <2>2. CASE ~ (j < k)
      <3>1. (a \o b)[j] = b[j - Len(a)]
        BY <1>1, <1>2, <1>3, <2>2
      <3>2. j - Len(a) \in 1 .. Len(s) - k /\ k + (j - Len(a)) = j + 1
        BY <1>1, <1>2, <2>2
      <3> QED
        BY <1>3, <2>2, <3>1, <3>2
    <2> QED
      BY <2>1, <2>2
  <1> QED
    BY <1>4, <1>5 DEF RemoveAt, a, b

(* ngx_queue_remove takes out what it is given, and nothing else. *)
LEMMA RemovedIs ==
  ASSUME NEW S, NEW s \in Seq(S), IsInjective(s), NEW x
  PROVE  /\ Removed(s, x) \in Seq(S) /\ IsInjective(Removed(s, x))
         /\ ToSet(Removed(s, x)) = ToSet(s) \ {x}
  <1>1. DOMAIN s = 1 .. Len(s) /\ Len(s) \in Nat
    OBVIOUS
  <1>2. CASE \E i \in DOMAIN s : s[i] = x
    <2> DEFINE k == CHOOSE i \in DOMAIN s : s[i] = x
               r == RemoveAt(s, k)
               f(j) == IF j < k THEN j ELSE j + 1
    <2>1. k \in 1 .. Len(s) /\ s[k] = x
      BY <1>1, <1>2
    <2> HIDE DEF k
    <2>2. /\ r \in Seq(S) /\ Len(r) = Len(s) - 1
          /\ \A j \in 1 .. Len(s) - 1 : r[j] = IF j < k THEN s[j] ELSE s[j + 1]
      BY <2>1, RemoveAtIs
    <2>3. DOMAIN r = 1 .. Len(s) - 1
      BY <2>2
    <2> HIDE DEF r
    <2>4. \A j \in DOMAIN r : f(j) \in DOMAIN s /\ r[j] = s[f(j)] /\ f(j) # k
      <3> SUFFICES ASSUME NEW j \in 1 .. Len(s) - 1
                   PROVE  f(j) \in 1 .. Len(s) /\ r[j] = s[f(j)] /\ f(j) # k
        BY <1>1, <2>3
      <3>1. r[j] = IF j < k THEN s[j] ELSE s[j + 1]
        BY <2>2
      <3>2. f(j) \in 1 .. Len(s) /\ f(j) # k
        BY <1>1, <2>1
      <3>3. r[j] = s[f(j)]
        BY <3>1, Zenon
      <3> QED
        BY <3>2, <3>3
    <2>5. \A i, j \in DOMAIN r : f(i) = f(j) => i = j
      BY <1>1, <2>1, <2>3
    <2>6. \A i \in DOMAIN s : i # k => \E j \in DOMAIN r : f(j) = i
      <3> SUFFICES ASSUME NEW i \in 1 .. Len(s), i # k
                   PROVE  \E j \in 1 .. Len(s) - 1 : f(j) = i
        BY <1>1, <2>3
      <3>1. CASE i < k
        <4>1. i \in 1 .. Len(s) - 1 /\ f(i) = i
          BY <1>1, <2>1, <3>1
        <4> QED
          BY <4>1
      <3>2. CASE i > k
        <4>1. i - 1 \in 1 .. Len(s) - 1 /\ f(i - 1) = i
          BY <1>1, <2>1, <3>2
        <4> QED
          BY <4>1
      <3> QED
        BY <2>1, <3>1, <3>2
    <2> HIDE DEF f
    <2>7. IsInjective(r)
      BY <2>4, <2>5 DEF IsInjective
    <2>8. ToSet(r) \subseteq ToSet(s) \ {x}
      BY <1>1, <2>1, <2>4 DEF ToSet, IsInjective
    <2>9. ToSet(s) \ {x} \subseteq ToSet(r)
      BY <2>1, <2>4, <2>6 DEF ToSet
    <2>10. Removed(s, x) = r
      BY <1>2 DEF Removed, r, k
    <2> QED
      BY <2>2, <2>7, <2>8, <2>9, <2>10
  <1>3. CASE ~ \E i \in DOMAIN s : s[i] = x
    <2>1. Removed(s, x) = s
      BY <1>3 DEF Removed
    <2>2. x \notin ToSet(s)
      BY <1>3 DEF ToSet
    <2> QED
      BY <2>1, <2>2
  <1> QED
    BY <1>2, <1>3

(* The queue of posted events without the two of one connection.           *)
LEMMA UnpostedIs ==
  ASSUME NEW s \in Seq(Events), IsInjective(s), NEW c
  PROVE  /\ Unposted(s, c) \in Seq(Events) /\ IsInjective(Unposted(s, c))
         /\ ToSet(Unposted(s, c)) = ToSet(s) \ Of(c)
  <1> DEFINE r == Removed(s, << c, "read" >>)
  <1>1. /\ r \in Seq(Events) /\ IsInjective(r)
        /\ ToSet(r) = ToSet(s) \ {<< c, "read" >>}
    BY RemovedIs
  <1> HIDE DEF r
  <1>2. /\ Removed(r, << c, "write" >>) \in Seq(Events)
        /\ IsInjective(Removed(r, << c, "write" >>))
        /\ ToSet(Removed(r, << c, "write" >>)) = ToSet(r) \ {<< c, "write" >>}
    BY <1>1, RemovedIs
  <1>3. Of(c) = {<< c, "read" >>, << c, "write" >>}
    BY DEF Of
  <1> QED
    BY <1>1, <1>2, <1>3 DEF Unposted, r

(* A sequence with one more element at its end.                            *)
LEMMA AppendIs ==
  ASSUME NEW S, NEW s \in Seq(S), IsInjective(s), NEW x \in S, x \notin ToSet(s)
  PROVE  /\ Append(s, x) \in Seq(S) /\ IsInjective(Append(s, x))
         /\ ToSet(Append(s, x)) = ToSet(s) \cup {x}
  <1>1. Append(s, x) \in Seq(S) /\ IsInjective(Append(s, x))
    BY DEF IsInjective, ToSet
  <1> DEFINE r == Append(s, x)
  <1>2. /\ DOMAIN s = 1 .. Len(s) /\ Len(s) \in Nat /\ DOMAIN r = 1 .. Len(s) + 1
        /\ r[Len(s) + 1] = x /\ \A i \in 1 .. Len(s) : r[i] = s[i]
    OBVIOUS
  <1> HIDE DEF r
  <1>3. ToSet(r) \subseteq ToSet(s) \cup {x}
    BY <1>2 DEF ToSet
  <1>4. x \in ToSet(r)
    BY <1>2 DEF ToSet
  <1>5. ToSet(s) \subseteq ToSet(r)
    BY <1>2 DEF ToSet
  <1> QED
    BY <1>1, <1>3, <1>4, <1>5 DEF r

(* A sequence without its first element.                                   *)
LEMMA TailIs ==
  ASSUME NEW S, NEW s \in Seq(S), IsInjective(s), s # << >>
  PROVE  /\ Tail(s) \in Seq(S) /\ IsInjective(Tail(s)) /\ Len(Tail(s)) = Len(s) - 1
         /\ ToSet(Tail(s)) = ToSet(s) \ {Head(s)} /\ Head(s) \in ToSet(s) /\ Head(s) \in S
  <1>1. /\ DOMAIN s = 1 .. Len(s) /\ Len(s) \in Nat \ {0} /\ Head(s) = s[1]
        /\ Tail(s) \in Seq(S) /\ Len(Tail(s)) = Len(s) - 1
        /\ DOMAIN Tail(s) = 1 .. Len(s) - 1
        /\ \A i \in 1 .. Len(s) - 1 : Tail(s)[i] = s[i + 1]
    OBVIOUS
  <1>2. IsInjective(Tail(s))
    BY <1>1 DEF IsInjective
  <1>3. ToSet(Tail(s)) \subseteq ToSet(s) \ {s[1]}
    BY <1>1 DEF IsInjective, ToSet
  <1>4. ToSet(s) \ {s[1]} \subseteq ToSet(Tail(s))
    <2> SUFFICES ASSUME NEW i \in 2 .. Len(s)
                 PROVE  s[i] \in ToSet(Tail(s))
      BY <1>1 DEF ToSet
    <2>1. i - 1 \in 1 .. Len(s) - 1 /\ (i - 1) + 1 = i
      BY <1>1
    <2> QED
      BY <1>1, <2>1 DEF ToSet
  <1>5. s[1] \in ToSet(s) /\ s[1] \in S
    BY <1>1 DEF ToSet
  <1> QED
    BY <1>1, <1>2, <1>3, <1>4, <1>5

(* A list with one more element at its head.                               *)
LEMMA ConsIs ==
  ASSUME NEW S, NEW s \in Seq(S), IsInjective(s), NEW x \in S, x \notin ToSet(s)
  PROVE  /\ << x >> \o s \in Seq(S) /\ IsInjective(<< x >> \o s)
         /\ ToSet(<< x >> \o s) = ToSet(s) \cup {x} /\ Len(<< x >> \o s) = Len(s) + 1
  <1> DEFINE r == << x >> \o s
  <1>1. /\ DOMAIN s = 1 .. Len(s) /\ Len(s) \in Nat /\ r \in Seq(S) /\ Len(r) = Len(s) + 1
        /\ DOMAIN r = 1 .. Len(s) + 1
        /\ r[1] = x /\ \A i \in 2 .. Len(s) + 1 : r[i] = s[i - 1]
    OBVIOUS
  <1> HIDE DEF r
  <1>2. \A i \in 2 .. Len(s) + 1 : i - 1 \in 1 .. Len(s) /\ r[i] \in ToSet(s)
    BY <1>1 DEF ToSet
  <1>3. IsInjective(r)
    <2> SUFFICES ASSUME NEW i \in 1 .. Len(s) + 1, NEW j \in 1 .. Len(s) + 1, r[i] = r[j]
                 PROVE  i = j
      BY <1>1 DEF IsInjective
    <2>1. CASE i = 1
      BY <1>1, <1>2, <2>1
    <2>2. CASE j = 1
      BY <1>1, <1>2, <2>2
    <2>3. CASE i # 1 /\ j # 1
      <3>1. i \in 2 .. Len(s) + 1 /\ j \in 2 .. Len(s) + 1
        BY <1>1, <2>3
      <3>2. s[i - 1] = s[j - 1] /\ i - 1 \in 1 .. Len(s) /\ j - 1 \in 1 .. Len(s)
        BY <1>1, <1>2, <3>1
      <3>3. i - 1 = j - 1
        BY <1>1, <3>2 DEF IsInjective
      <3> QED
        BY <3>1, <3>3
    <2> QED
      BY <2>1, <2>2, <2>3
  <1>4. ToSet(r) \subseteq ToSet(s) \cup {x}
    BY <1>1, <1>2 DEF ToSet
  <1>5. ToSet(s) \subseteq ToSet(r)
    <2> SUFFICES ASSUME NEW i \in 1 .. Len(s)
                 PROVE  s[i] \in ToSet(r)
      BY <1>1 DEF ToSet
    <2>1. i + 1 \in 2 .. Len(s) + 1 /\ (i + 1) - 1 = i /\ i + 1 \in 1 .. Len(s) + 1
      BY <1>1
    <2>2. r[i + 1] = s[(i + 1) - 1]
      BY <1>1, <2>1
    <2>3. r[i + 1] = s[i] /\ i + 1 \in DOMAIN r
      BY <1>1, <2>1, <2>2
    <2> QED
      BY <2>3 DEF ToSet
  <1>6. x \in ToSet(r)
    BY <1>1 DEF ToSet
  <1> QED
    BY <1>1, <1>3, <1>4, <1>5, <1>6 DEF r

(* Two sequences, one after the other.                                     *)
LEMMA ConcatIs ==
  ASSUME NEW S, NEW s \in Seq(S), NEW r \in Seq(S), IsInjective(s), IsInjective(r),
         ToSet(s) \cap ToSet(r) = {}
  PROVE  IsInjective(s \o r)
  <1> SUFFICES ASSUME NEW i \in DOMAIN (s \o r), NEW j \in DOMAIN (s \o r), (s \o r)[i] = (s \o r)[j]
               PROVE  i = j
    BY DEF IsInjective
  <1>1. /\ Len(s) \in Nat /\ Len(r) \in Nat
        /\ DOMAIN s = 1 .. Len(s) /\ DOMAIN r = 1 .. Len(r)
        /\ i \in 1 .. Len(s) + Len(r) /\ j \in 1 .. Len(s) + Len(r)
    OBVIOUS
  <1>2. \A m \in 1 .. Len(s) + Len(r) :
          /\ m <= Len(s) => m \in 1 .. Len(s) /\ (s \o r)[m] = s[m]
          /\ m > Len(s) => m - Len(s) \in 1 .. Len(r) /\ (s \o r)[m] = r[m - Len(s)]
    BY <1>1
  <1>3. CASE i <= Len(s) /\ j <= Len(s)
    BY <1>1, <1>2, <1>3 DEF IsInjective
  <1>4. CASE i > Len(s) /\ j > Len(s)
    <2>1. i - Len(s) = j - Len(s)
      BY <1>1, <1>2, <1>4 DEF IsInjective
    <2> QED
      BY <1>1, <2>1
  <1>5. \A m, n \in 1 .. Len(s) + Len(r) :
          m <= Len(s) /\ n > Len(s) => (s \o r)[m] # (s \o r)[n]
    <2> SUFFICES ASSUME NEW m \in 1 .. Len(s) + Len(r), NEW n \in 1 .. Len(s) + Len(r),
                        m <= Len(s), n > Len(s)
                 PROVE  (s \o r)[m] # (s \o r)[n]
      OBVIOUS
    <2>1. (s \o r)[m] = s[m] /\ m \in DOMAIN s
      BY <1>1, <1>2
    <2>2. (s \o r)[n] = r[n - Len(s)] /\ n - Len(s) \in DOMAIN r
      BY <1>1, <1>2
    <2>3. s[m] \in ToSet(s) /\ r[n - Len(s)] \in ToSet(r)
      BY <2>1, <2>2 DEF ToSet
    <2> QED
      BY <2>1, <2>2, <2>3
  <1> QED
    BY <1>1, <1>3, <1>4, <1>5

(* The empty sequence.                                                     *)
LEMMA NoneIs ==
  ASSUME NEW S
  PROVE  << >> \in Seq(S) /\ IsInjective(<< >>) /\ ToSet(<< >>) = {}
  <1>1. ToSet(<< >>) = {}
    BY DEF ToSet
  <1> QED
    BY <1>1 DEF IsInjective

-----------------------------------------------------------------------------
(* The inductive invariant. *)

Kinds == {"read", "write"}

(* Each connection is open or once in the free list. *)
PoolOK ==
  /\ open \subseteq Slots /\ Listener \in open
  /\ freeList \in Seq(Slots) /\ IsInjective(freeList)
  /\ ToSet(freeList) = Slots \ open
  /\ Len(freeList) = Cardinality(Slots \ open)

(* The flag says that an event is in one of the two queues; the connection *)
(* of a queued event is open.                                              *)
QueuesOK ==
  /\ acceptQueue \in Seq(Events) /\ IsInjective(acceptQueue)
  /\ postQueue \in Seq(Events) /\ IsInjective(postQueue)
  /\ ToSet(acceptQueue) \cap ToSet(postQueue) = {}
  /\ postedFlag = ToSet(acceptQueue) \cup ToSet(postQueue)
  /\ postedFlag \subseteq open \X Kinds

(* So is that of a registered event, and of one with a timer. *)
WatchedOK ==
  /\ active \subseteq open \X Kinds
  /\ timers \subseteq open \X Kinds /\ timerSet = timers

ReusableOK ==
  /\ reusable \in Seq(Slots) /\ IsInjective(reusable)
  /\ ToSet(reusable) \subseteq open

(* The bit is the parity of the number of uses. *)
UsesOK ==
  /\ use \in [Slots -> 0 .. MaxUse]
  /\ instance \in [Slots -> {0, 1}]
  /\ \A c \in Slots : instance[c] = use[c] % 2

StageOK == stage \in {"wait", "events", "accept", "timers", "posted"}

(* An event that epoll_wait reported remembers the use it was reported for,*)
(* the present one or one of the MaxReuse before it.                       *)
Remembers(c, e) ==
  /\ c \in Slots
  /\ e.use \in Nat /\ e.instance = e.use % 2
  /\ e.use <= use[c] /\ use[c] <= e.use + MaxReuse

DueOK ==
  /\ \A c \in DOMAIN batch : Remembers(c, batch[c])
  /\ writeDue = None \/ Remembers(writeDue[1], writeDue[2])

Lists == PoolOK /\ QueuesOK /\ WatchedOK /\ ReusableOK /\ StageOK
IInv == Lists /\ UsesOK /\ DueOK

-----------------------------------------------------------------------------
(* The initial states *)

(* ngx_event_process_init()                                                *)
LEMMA InitIInv == ConnInit => IInv
  <1> SUFFICES ASSUME ConnInit
               PROVE  IInv
    OBVIOUS
  <1>1. /\ IsFiniteSet(Slots) /\ Listener \in Slots
        /\ MaxUse \in Nat \ {0} /\ MaxReuse \in Nat
    BY ConnectionsAssumption
  <1> DEFINE others == Slots \ {Listener}
             N == 1 .. Cardinality(others)
  <1>2. IsFiniteSet(others) /\ Cardinality(others) \in Nat
    BY <1>1, FS_RemoveElement, FS_CardinalityType
  <1>3. freeList \in [N -> others] /\ \A i, j \in N : i # j => freeList[i] # freeList[j]
    BY DEF ConnInit, SetToSeqs
  <1> HIDE DEF others
  <1>4. freeList \in Seq(others) /\ Len(freeList) = Cardinality(others) /\ DOMAIN freeList = N
    BY <1>2, <1>3
  <1>5. IsInjective(freeList)
    BY <1>3, <1>4 DEF IsInjective
  <1>6. ToSet(freeList) = others
    <2>1. IsFiniteSet(N) /\ Cardinality(N) = Cardinality(others)
      <3>1. 1 \in Int /\ Cardinality(others) \in Int
        BY <1>2
      <3>2. /\ IsFiniteSet(N)
            /\ Cardinality(N) = IF 1 > Cardinality(others) THEN 0 ELSE Cardinality(others) - 1 + 1
        BY <3>1, FS_Interval
      <3> QED
        BY <1>2, <3>2
    <2> HIDE DEF N
    <2>2. freeList \in Injection(N, others)
      BY <1>3 DEF Injection, IsInjective
    <2>3. freeList \in Surjection(N, others)
      BY <1>2, <2>1, <2>2, FS_Injection
    <2> QED
      BY <1>4, <2>3 DEF Surjection, ToSet
  <1>7. PoolOK
    <2>1. open = {Listener} /\ Slots \ open = others
      BY DEF ConnInit, others
    <2> QED
      BY <1>1, <1>4, <1>5, <1>6, <2>1 DEF PoolOK, others
  <1>8. QueuesOK /\ ReusableOK
    <2>1. /\ acceptQueue = << >> /\ postQueue = << >> /\ reusable = << >> /\ postedFlag = {}
      BY DEF ConnInit
    <2> QED
      BY <2>1, NoneIs DEF QueuesOK, ReusableOK
  <1>9. WatchedOK /\ StageOK
    BY DEF ConnInit, WatchedOK, StageOK, Kinds
  <1>10. UsesOK
    BY <1>1 DEF ConnInit, UsesOK
  <1>11. DueOK
    BY DEF ConnInit, DueOK, NoBatch
  <1> QED
    BY <1>7, <1>8, <1>9, <1>10, <1>11 DEF IInv, Lists

-----------------------------------------------------------------------------
(* What the operations do to the lists *)

(* An event that is posted twice is in the queue once. *)
LEMMA PostToIs ==
  ASSUME QueuesOK, NEW ev \in Events, NEW queue \in {acceptQueue, postQueue}
  PROVE  /\ PostTo(ev, queue) \in Seq(Events) /\ IsInjective(PostTo(ev, queue))
         /\ ToSet(PostTo(ev, queue)) = IF ev \in postedFlag THEN ToSet(queue) ELSE ToSet(queue) \cup {ev}
  <1>1. queue \in Seq(Events) /\ IsInjective(queue) /\ ToSet(queue) \subseteq postedFlag
    BY DEF QueuesOK
  <1>2. CASE ev \in postedFlag
    BY <1>1, <1>2 DEF PostTo
  <1>3. CASE ev \notin postedFlag
    <2>1. ev \notin ToSet(queue)
      BY <1>1, <1>3
    <2> QED
      BY <1>1, <1>3, <2>1, AppendIs DEF PostTo
  <1> QED
    BY <1>2, <1>3

(* After Clear no list knows the connection. *)
LEMMA ClearIs ==
  ASSUME Lists, NEW c \in Slots, Clear(c)
  PROVE  /\ acceptQueue' \in Seq(Events) /\ IsInjective(acceptQueue')
         /\ postQueue' \in Seq(Events) /\ IsInjective(postQueue')
         /\ ToSet(acceptQueue') \cap ToSet(postQueue') = {}
         /\ postedFlag' = ToSet(acceptQueue') \cup ToSet(postQueue')
         /\ postedFlag' \subseteq (open \ {c}) \X Kinds
         /\ active' \subseteq (open \ {c}) \X Kinds
         /\ timers' \subseteq (open \ {c}) \X Kinds /\ timerSet' = timers'
         /\ reusable' \in Seq(Slots) /\ IsInjective(reusable')
         /\ ToSet(reusable') \subseteq open \ {c}
  <1>1. /\ acceptQueue' \in Seq(Events) /\ IsInjective(acceptQueue')
        /\ ToSet(acceptQueue') = ToSet(acceptQueue) \ Of(c)
    BY UnpostedIs DEF Clear, Lists, QueuesOK
  <1>2. /\ postQueue' \in Seq(Events) /\ IsInjective(postQueue')
        /\ ToSet(postQueue') = ToSet(postQueue) \ Of(c)
    BY UnpostedIs DEF Clear, Lists, QueuesOK
  <1>3. /\ reusable' \in Seq(Slots) /\ IsInjective(reusable')
        /\ ToSet(reusable') = ToSet(reusable) \ {c}
    BY RemovedIs DEF Clear, Lists, ReusableOK
  <1>4. \A X : X \subseteq open \X Kinds => X \ Of(c) \subseteq (open \ {c}) \X Kinds
    BY DEF Of, Kinds
  <1>5. /\ ToSet(acceptQueue') \cap ToSet(postQueue') = {}
        /\ postedFlag' = ToSet(acceptQueue') \cup ToSet(postQueue')
    BY <1>1, <1>2 DEF Clear, Lists, QueuesOK
  <1>6. /\ postedFlag' \subseteq (open \ {c}) \X Kinds
        /\ active' \subseteq (open \ {c}) \X Kinds
        /\ timers' \subseteq (open \ {c}) \X Kinds /\ timerSet' = timers'
    BY <1>4 DEF Clear, Lists, QueuesOK, WatchedOK
  <1>7. ToSet(reusable') \subseteq open \ {c}
    BY <1>3 DEF Lists, ReusableOK
  <1> QED
    BY <1>1, <1>2, <1>3, <1>5, <1>6, <1>7

(* The next use flips the bit, and it may be taken only while the events   *)
(* that are due are not too old.                                           *)
LEMMA TakeIs ==
  ASSUME UsesOK, DueOK, NEW c \in Slots, Take(c), UNCHANGED loop
  PROVE  UsesOK' /\ DueOK'
  <1>1. /\ use[c] \in 0 .. MaxUse /\ use[c] < MaxUse /\ MaxUse \in Nat /\ MaxReuse \in Nat
        /\ instance[c] = use[c] % 2 /\ use[c] \in Nat
    BY ConnectionsAssumption DEF UsesOK, Take, MayTake
  <1>2. /\ use' = [use EXCEPT ![c] = use[c] + 1]
        /\ instance' = [instance EXCEPT ![c] = 1 - instance[c]]
    BY DEF Take
  <1>3. \A n \in Nat : 1 - (n % 2) = (n + 1) % 2 /\ n % 2 \in {0, 1}
    OBVIOUS
  <1>4. 1 - instance[c] = (use[c] + 1) % 2 /\ 1 - instance[c] \in {0, 1} /\ use[c] + 1 \in 0 .. MaxUse
    BY <1>1, <1>3
  <1>5. UsesOK'
    BY <1>2, <1>4 DEF UsesOK
  <1>6. ASSUME NEW d, NEW e, Remembers(d, e), d = c => use[c] < e.use + MaxReuse
        PROVE  Remembers(d, e)'
    <2>1. CASE d = c
      <3>1. use'[d] = use[c] + 1
        BY <1>2, <2>1 DEF UsesOK
      <3> QED
        BY <1>1, <1>6, <2>1, <3>1 DEF Remembers
    <2>2. CASE d # c
      <3>1. use'[d] = use[d]
        BY <1>2, <1>6, <2>2 DEF UsesOK, Remembers
      <3> QED
        BY <1>6, <3>1 DEF Remembers
    <2> QED
      BY <2>1, <2>2
  <1>7. batch' = batch /\ writeDue' = writeDue
    BY DEF loop
  <1>8. \A d \in DOMAIN batch' : Remembers(d, batch[d])'
    BY <1>6, <1>7 DEF DueOK, Take, MayTake
  <1>9. writeDue' = None \/ Remembers(writeDue[1], writeDue[2])'
    BY <1>6, <1>7 DEF DueOK, Take, MayTake
  <1> QED
    BY <1>5, <1>7, <1>8, <1>9 DEF DueOK

-----------------------------------------------------------------------------
(* The steps *)

USE DEF pool, queues, loop

(* ngx_close_connection()                                                  *)
LEMMA CloseStep ==
  ASSUME IInv, NEW c \in Slots \ {Listener}, Close(c)
  PROVE  IInv'
  <1>1. /\ c \in open /\ open' = open \ {c} /\ freeList' = << c >> \o freeList
        /\ Clear(c) /\ UNCHANGED << use, instance, stage, batch, writeDue >>
    BY DEF Close
  <1>2. PoolOK'
    <2>1. PoolOK
      BY DEF IInv, Lists
    <2>2. c \notin ToSet(freeList) /\ c \in Slots /\ freeList \in Seq(Slots) /\ IsInjective(freeList)
      BY <1>1, <2>1 DEF PoolOK
    <2>3. /\ freeList' \in Seq(Slots) /\ IsInjective(freeList')
          /\ ToSet(freeList') = ToSet(freeList) \cup {c} /\ Len(freeList') = Len(freeList) + 1
      BY <1>1, <2>2, ConsIs
    <2>4. Slots \ open' = (Slots \ open) \cup {c} /\ c \notin Slots \ open
      BY <1>1
    <2>5. IsFiniteSet(Slots \ open)
      BY ConnectionsAssumption, FS_Difference
    <2>6. Cardinality((Slots \ open) \cup {c}) = Cardinality(Slots \ open) + 1
      BY <2>4, <2>5, FS_AddElement
    <2>7. Len(freeList') = Cardinality(Slots \ open')
      BY <2>1, <2>3, <2>4, <2>6, Zenon DEF PoolOK
    <2> QED
      BY <1>1, <2>1, <2>3, <2>4, <2>7 DEF PoolOK
  <1>3. QueuesOK' /\ WatchedOK' /\ ReusableOK'
    BY <1>1, ClearIs DEF IInv, QueuesOK, WatchedOK, ReusableOK
  <1>4. StageOK' /\ UsesOK' /\ DueOK'
    BY <1>1 DEF IInv, Lists, StageOK, UsesOK, DueOK, Remembers
  <1> QED
    BY <1>2, <1>3, <1>4 DEF IInv, Lists

(* ngx_get_connection() with a free connection                             *)
LEMMA GetFreeStep ==
  ASSUME IInv, GetFree
  PROVE  IInv'
  <1>1. PICK c : c = Head(freeList)
    OBVIOUS
  <1>2. /\ freeList # << >> /\ Take(c) /\ freeList' = Tail(freeList) /\ open' = open \cup {c}
        /\ active' = active \ Of(c) /\ postedFlag' = postedFlag \ Of(c)
        /\ timerSet' = timerSet \ Of(c)
        /\ UNCHANGED << reusable, acceptQueue, postQueue, timers, stage, post, batch, writeDue >>
    BY <1>1 DEF GetFree
  <1>3. PoolOK
    BY DEF IInv, Lists
  <1>4. /\ freeList' \in Seq(Slots) /\ IsInjective(freeList') /\ Len(freeList') = Len(freeList) - 1
        /\ ToSet(freeList') = ToSet(freeList) \ {c} /\ c \in ToSet(freeList) /\ c \in Slots
    BY <1>1, <1>2, <1>3, TailIs DEF PoolOK
  <1>5. c \in Slots \ open
    BY <1>3, <1>4 DEF PoolOK
  <1>6. PoolOK'
    <2>1. Slots \ open' = (Slots \ open) \ {c}
      BY <1>2
    <2>2. IsFiniteSet(Slots \ open)
      BY ConnectionsAssumption, FS_Difference
    <2>3. Cardinality((Slots \ open) \ {c}) = Cardinality(Slots \ open) - 1
      BY <1>5, <2>2, FS_RemoveElement
    <2>4. Len(freeList') = Cardinality(Slots \ open')
      BY <1>3, <1>4, <2>1, <2>3, Zenon DEF PoolOK
    <2> QED
      BY <1>2, <1>3, <1>4, <1>5, <2>1, <2>4 DEF PoolOK
  <1>7. \A X : X \subseteq open \X Kinds => X \ Of(c) = X /\ X \subseteq open' \X Kinds
    BY <1>2, <1>5 DEF Of
  <1>8. QueuesOK' /\ WatchedOK' /\ ReusableOK'
    BY <1>2, <1>7 DEF IInv, Lists, QueuesOK, WatchedOK, ReusableOK
  <1>9. StageOK' /\ UsesOK' /\ DueOK'
    BY <1>2, <1>4, TakeIs DEF IInv, Lists, StageOK
  <1> QED
    BY <1>6, <1>8, <1>9 DEF IInv, Lists

(* ngx_get_connection() after ngx_drain_connections()                      *)
LEMMA GetDrainedStep ==
  ASSUME IInv, GetDrained
  PROVE  IInv'
  <1>1. PICK c : c = Last(reusable)
    OBVIOUS
  <1>2. /\ reusable # << >> /\ Take(c) /\ Clear(c)
        /\ UNCHANGED << freeList, open, stage, post, batch, writeDue >>
    BY <1>1 DEF GetDrained
  <1>3. c \in Slots
    BY <1>1, <1>2 DEF IInv, Lists, ReusableOK, Last
  <1>4. PoolOK'
    BY <1>2 DEF IInv, Lists, PoolOK
  <1>5. QueuesOK' /\ WatchedOK' /\ ReusableOK'
    BY <1>2, <1>3, ClearIs DEF IInv, QueuesOK, WatchedOK, ReusableOK
  <1>6. StageOK' /\ UsesOK' /\ DueOK'
    BY <1>2, <1>3, TakeIs DEF IInv, Lists, StageOK
  <1> QED
    BY <1>4, <1>5, <1>6 DEF IInv, Lists

(* ngx_reusable_connection()                                               *)
LEMMA ReusableStep ==
  ASSUME IInv, NEW c \in Slots, NEW yes \in BOOLEAN, Reusable(c, yes)
  PROVE  IInv'
  <1>1. PICK r : r = Removed(reusable, c)
    OBVIOUS
  <1>2. /\ r \in Seq(Slots) /\ IsInjective(r) /\ ToSet(r) = ToSet(reusable) \ {c}
    BY <1>1, RemovedIs DEF IInv, Lists, ReusableOK
  <1>3. c \in open /\ reusable' = (IF yes THEN << c >> ELSE << >>) \o r
    BY <1>1 DEF Reusable
  <1>4. ReusableOK'
    <2>1. open' = open /\ ToSet(reusable) \subseteq open
      BY DEF Reusable, IInv, Lists, ReusableOK
    <2>2. CASE yes
      <3>1. /\ reusable' \in Seq(Slots) /\ IsInjective(reusable')
            /\ ToSet(reusable') = ToSet(r) \cup {c}
        BY <1>2, <1>3, <2>2, ConsIs
      <3> QED
        BY <1>2, <1>3, <2>1, <3>1 DEF ReusableOK
    <2>3. CASE ~yes
      <3>1. reusable' = r
        BY <1>2, <1>3, <2>3
      <3> QED
        BY <1>2, <2>1, <3>1 DEF ReusableOK
    <2> QED
      BY <2>2, <2>3
  <1>5. PoolOK' /\ QueuesOK' /\ WatchedOK' /\ StageOK'
    BY DEF Reusable, IInv, Lists, PoolOK, QueuesOK, WatchedOK, StageOK
  <1>6. UsesOK' /\ DueOK'
    BY DEF Reusable, IInv, UsesOK, DueOK, Remembers
  <1> QED
    BY <1>4, <1>5, <1>6 DEF IInv, Lists

(* A posted event is handled.                                              *)
LEMMA HandlerStep ==
  ASSUME IInv, Handler
  PROVE  IInv'
  <1>1. ASSUME NEW evs, evs \subseteq Events, Register(evs)
        PROVE  IInv'
    <2>1. evs \subseteq open \X Kinds
      BY <1>1 DEF Register, Events, Kinds
    <2>2. Lists'
      BY <1>1, <2>1 DEF Register, IInv, Lists, PoolOK, QueuesOK, WatchedOK, ReusableOK, StageOK
    <2> QED
      BY <1>1, <2>2 DEF Register, IInv, UsesOK, DueOK, Remembers
  <1>2. ASSUME NEW ev, Unregister(ev)
        PROVE  IInv'
    <2>1. Lists'
      BY <1>2 DEF Unregister, IInv, Lists, PoolOK, QueuesOK, WatchedOK, ReusableOK, StageOK
    <2> QED
      BY <1>2, <2>1 DEF Unregister, IInv, UsesOK, DueOK, Remembers
  <1>3. ASSUME NEW ev \in Events, Post(ev)
        PROVE  IInv'
    <2>1. ev \in open \X Kinds
      BY <1>3 DEF Post, Events, Kinds
    <2>2. /\ postQueue' \in Seq(Events) /\ IsInjective(postQueue')
          /\ ToSet(postQueue') = IF ev \in postedFlag THEN ToSet(postQueue) ELSE ToSet(postQueue) \cup {ev}
      BY <1>3, PostToIs DEF Post, IInv, Lists
    <2>3. QueuesOK'
      BY <1>3, <2>1, <2>2 DEF Post, IInv, Lists, QueuesOK
    <2>4. PoolOK' /\ WatchedOK' /\ ReusableOK' /\ StageOK'
      BY <1>3 DEF Post, IInv, Lists, PoolOK, WatchedOK, ReusableOK, StageOK
    <2> QED
      BY <1>3, <2>3, <2>4 DEF Post, IInv, Lists, UsesOK, DueOK, Remembers
  <1>4. ASSUME NEW ev \in Events, SetTimer(ev) \/ DelTimer(ev)
        PROVE  IInv'
    <2>1. WatchedOK'
      BY <1>4 DEF SetTimer, DelTimer, IInv, Lists, WatchedOK, Events, Kinds
    <2>2. PoolOK' /\ QueuesOK' /\ ReusableOK' /\ StageOK'
      BY <1>4 DEF SetTimer, DelTimer, IInv, Lists, PoolOK, QueuesOK, ReusableOK, StageOK
    <2> QED
      BY <1>4, <2>1, <2>2 DEF SetTimer, DelTimer, IInv, Lists, UsesOK, DueOK, Remembers
  <1>5. CASE Return
    <2>1. Lists'
      BY <1>5 DEF Return, IInv, Lists, PoolOK, QueuesOK, WatchedOK, ReusableOK, StageOK
    <2> QED
      BY <1>5, <2>1 DEF Return, IInv, UsesOK, DueOK, Remembers
  <1>6. \A c \in Slots : Of(c) \subseteq Events /\ {<< c, "read" >>} \subseteq Events
    BY DEF Of, Events
  <1>7. Posting \subseteq Events
    BY ConnectionsAssumption
  <1> QED
    BY <1>1, <1>2, <1>3, <1>4, <1>5, <1>6, <1>7,
       CloseStep, GetFreeStep, GetDrainedStep, ReusableStep DEF Handler

(* ngx_epoll_process_events() waits, and takes up its events one after the *)
(* other.                                                                  *)
LEMMA DeliverStep ==
  ASSUME IInv, Deliver
  PROVE  IInv'
  <1>1. CASE EpollWait
    <2>1. Lists' /\ UsesOK'
      BY <1>1 DEF EpollWait, IInv, Lists, PoolOK, QueuesOK, WatchedOK, ReusableOK, StageOK, UsesOK
    <2>2. \A d \in DOMAIN batch' : Remembers(d, batch[d])'
      <3>1. PICK some \in SUBSET open : \E revents \in [some -> SUBSET {"read", "write"}] :
              batch' = [c \in some |-> [revents |-> revents[c], instance |-> instance[c], use |-> use[c]]]
        BY <1>1 DEF EpollWait
      <3>2. some \subseteq Slots /\ MaxReuse \in Nat
        BY ConnectionsAssumption DEF IInv, Lists, PoolOK
      <3> QED
        BY <1>1, <3>1, <3>2 DEF EpollWait, IInv, UsesOK, Remembers
    <2>3. DueOK'
      BY <1>1, <2>2 DEF EpollWait, IInv, DueOK, Remembers
    <2> QED
      BY <2>1, <2>3 DEF IInv
  <1>2. ASSUME NEW c \in DOMAIN batch, EventRead(c)
        PROVE  IInv'
    <2> DEFINE ev == << c, "read" >>
    <2>1. c \in Slots /\ c \in open /\ ev \in Events /\ ev \in open \X Kinds
      BY <1>2 DEF EventRead, Fresh, IInv, DueOK, Remembers, Events, Kinds
    <2>2. PoolOK' /\ WatchedOK' /\ ReusableOK' /\ StageOK' /\ UsesOK'
      BY <1>2 DEF EventRead, IInv, Lists, PoolOK, WatchedOK, ReusableOK, StageOK, UsesOK
    <2>3. DueOK'
      <3>1. batch' = Without(batch, c) /\ writeDue' = << c, batch[c] >> /\ use' = use
        BY <1>2 DEF EventRead
      <3>2. \A d \in DOMAIN batch' : Remembers(d, batch'[d])
        BY <3>1 DEF IInv, DueOK, Without
      <3>3. Remembers(writeDue'[1], writeDue'[2])
        BY <3>1 DEF IInv, DueOK
      <3> QED
        BY <3>1, <3>2, <3>3 DEF DueOK, Remembers
    <2>4. QueuesOK
      BY DEF IInv, Lists
    <2>5. QueuesOK'
      <3>1. CASE UNCHANGED queues
        BY <1>2, <2>4, <3>1 DEF EventRead, QueuesOK
      <3>2. CASE /\ postedFlag' = postedFlag \cup {ev}
                 /\ acceptQueue' = PostTo(ev, acceptQueue) /\ UNCHANGED postQueue
        <4>1. /\ acceptQueue' \in Seq(Events) /\ IsInjective(acceptQueue')
              /\ ToSet(acceptQueue') = IF ev \in postedFlag THEN ToSet(acceptQueue) ELSE ToSet(acceptQueue) \cup {ev}
          BY <2>1, <2>4, <3>2, PostToIs
        <4> QED
          BY <1>2, <2>1, <2>4, <3>2, <4>1 DEF EventRead, QueuesOK
      <3>3. CASE /\ postedFlag' = postedFlag \cup {ev}
                 /\ postQueue' = PostTo(ev, postQueue) /\ UNCHANGED acceptQueue
        <4>1. /\ postQueue' \in Seq(Events) /\ IsInjective(postQueue')
              /\ ToSet(postQueue') = IF ev \in postedFlag THEN ToSet(postQueue) ELSE ToSet(postQueue) \cup {ev}
          BY <2>1, <2>4, <3>3, PostToIs
        <4> QED
          BY <1>2, <2>1, <2>4, <3>3, <4>1 DEF EventRead, QueuesOK
      <3> QED
        BY <1>2, <3>1, <3>2, <3>3 DEF EventRead
    <2> QED
      BY <2>2, <2>3, <2>5 DEF IInv, Lists
  <1>3. ASSUME NEW c \in DOMAIN batch, EventStale(c)
        PROVE  IInv'
    <2>1. Lists' /\ UsesOK'
      BY <1>3 DEF EventStale, IInv, Lists, PoolOK, QueuesOK, WatchedOK, ReusableOK, StageOK, UsesOK
    <2>2. DueOK'
      BY <1>3 DEF EventStale, IInv, DueOK, Without, Remembers
    <2> QED
      BY <2>1, <2>2 DEF IInv
  <1>4. CASE EventWrite
    <2> DEFINE c == writeDue[1]
               ev == << c, "write" >>
    <2>1. PoolOK' /\ WatchedOK' /\ ReusableOK' /\ StageOK' /\ UsesOK'
      BY <1>4 DEF EventWrite, IInv, Lists, PoolOK, WatchedOK, ReusableOK, StageOK, UsesOK
    <2>2. DueOK'
      BY <1>4 DEF EventWrite, IInv, DueOK, Remembers
    <2>3. QueuesOK
      BY DEF IInv, Lists
    <2>4. QueuesOK'
      <3>1. CASE UNCHANGED queues
        BY <1>4, <2>3, <3>1 DEF EventWrite, QueuesOK
      <3>2. CASE /\ postedFlag' = postedFlag \cup {ev} /\ Fresh(c, writeDue[2])
                 /\ postQueue' = PostTo(ev, postQueue) /\ UNCHANGED acceptQueue
        <4>1. ev \in Events /\ ev \in open \X Kinds
          BY <1>4, <3>2 DEF EventWrite, Fresh, IInv, DueOK, Remembers, Events, Kinds
        <4>2. /\ postQueue' \in Seq(Events) /\ IsInjective(postQueue')
              /\ ToSet(postQueue') = IF ev \in postedFlag THEN ToSet(postQueue) ELSE ToSet(postQueue) \cup {ev}
          BY <2>3, <3>2, <4>1, PostToIs
        <4> QED
          BY <1>4, <2>3, <3>2, <4>1, <4>2 DEF EventWrite, QueuesOK
      <3> QED
        BY <1>4, <3>1, <3>2 DEF EventWrite
    <2> QED
      BY <2>1, <2>2, <2>4 DEF IInv, Lists
  <1>5. CASE NextStage
    <2>1. Lists'
      BY <1>5 DEF NextStage, IInv, Lists, PoolOK, QueuesOK, WatchedOK, ReusableOK, StageOK
    <2> QED
      BY <1>5, <2>1 DEF NextStage, IInv, UsesOK, DueOK, Remembers
  <1>6. CASE PostedAccept
    <2>1. /\ acceptQueue' \in Seq(Events) /\ IsInjective(acceptQueue')
          /\ ToSet(acceptQueue') = ToSet(acceptQueue) \ {Head(acceptQueue)}
          /\ Head(acceptQueue) \in ToSet(acceptQueue)
      BY <1>6, TailIs DEF PostedAccept, IInv, Lists, QueuesOK
    <2>2. QueuesOK'
      BY <1>6, <2>1 DEF PostedAccept, IInv, Lists, QueuesOK
    <2>3. PoolOK' /\ WatchedOK' /\ ReusableOK' /\ StageOK' /\ UsesOK' /\ DueOK'
      BY <1>6 DEF PostedAccept, IInv, Lists, PoolOK, WatchedOK, ReusableOK, StageOK, UsesOK, DueOK, Remembers
    <2> QED
      BY <2>2, <2>3 DEF IInv, Lists
  <1>7. CASE PostedEvent
    <2>1. /\ postQueue' \in Seq(Events) /\ IsInjective(postQueue')
          /\ ToSet(postQueue') = ToSet(postQueue) \ {Head(postQueue)}
          /\ Head(postQueue) \in ToSet(postQueue)
      BY <1>7, TailIs DEF PostedEvent, IInv, Lists, QueuesOK
    <2>2. QueuesOK'
      BY <1>7, <2>1 DEF PostedEvent, IInv, Lists, QueuesOK
    <2>3. PoolOK' /\ WatchedOK' /\ ReusableOK' /\ StageOK' /\ UsesOK' /\ DueOK'
      BY <1>7 DEF PostedEvent, IInv, Lists, PoolOK, WatchedOK, ReusableOK, StageOK, UsesOK, DueOK, Remembers
    <2> QED
      BY <2>2, <2>3 DEF IInv, Lists
  <1>8. ASSUME NEW ev \in timers, Expire(ev)
        PROVE  IInv'
    <2>1. Lists'
      BY <1>8 DEF Expire, IInv, Lists, PoolOK, QueuesOK, WatchedOK, ReusableOK, StageOK
    <2> QED
      BY <1>8, <2>1 DEF Expire, IInv, UsesOK, DueOK, Remembers
  <1> QED
    BY <1>1, <1>2, <1>3, <1>4, <1>5, <1>6, <1>7, <1>8 DEF Deliver

(* Every step keeps the invariant.                                         *)
LEMMA Step == IInv /\ [ConnNext]_connVars => IInv'
  <1>1. CASE UNCHANGED connVars
    BY <1>1 DEF connVars, IInv, Lists, PoolOK, QueuesOK, WatchedOK, ReusableOK, StageOK,
                UsesOK, DueOK, Remembers
  <1> QED
    BY <1>1, HandlerStep, DeliverStep DEF ConnNext

-----------------------------------------------------------------------------
(* The theorems *)

(* The lists of the pool, of the posted events and of the timers hold what *)
(* the flags say, whatever handlers do between the events of one call of   *)
(* epoll_wait().                                                           *)
THEOREM Invariance == ConnSpec => []IInv
  <1> QED
    BY InitIInv, Step, PTL DEF ConnSpec

(* No connection is lost or handed out twice, no event is linked twice,    *)
(* and a closed connection has left every list: ngx_get_connection,        *)
(* ngx_close_connection, ngx_drain_connections.                            *)
THEOREM ListsAreSound == ConnSpec => []ConnectionsAreSound
  <1>1. ASSUME IInv
        PROVE  ConnectionsAreSound
    <2>1. ConnTypeOK
      BY <1>1 DEF IInv, Lists, PoolOK, QueuesOK, WatchedOK, ReusableOK, StageOK, UsesOK,
                  ConnTypeOK, Events, Kinds
    <2>2. PoolIsPartition
      BY <1>1 DEF IInv, Lists, PoolOK, PoolIsPartition
    <2>3. LinkedOnce
      BY <1>1, ConcatIs DEF IInv, Lists, QueuesOK, WatchedOK, ReusableOK, LinkedOnce
    <2>4. ClosedIsQuiet
      BY <1>1 DEF IInv, Lists, PoolOK, QueuesOK, WatchedOK, ReusableOK, ClosedIsQuiet, Of
    <2> QED
      BY <2>1, <2>2, <2>3, <2>4 DEF ConnectionsAreSound
  <1> QED
    BY <1>1, Invariance, PTL

(* The test for a stale event is enough while no connection is taken twice *)
(* before an event of its former use is looked at: instance is one bit.    *)
LEMMA FreshIs ==
  ASSUME IInv, MaxReuse <= 1, NEW c, NEW e, Remembers(c, e), Fresh(c, e)
  PROVE  c \in open /\ e.use = use[c]
  <1>1. /\ use[c] \in Nat /\ e.use \in Nat /\ MaxReuse \in Nat
        /\ e.use <= use[c] /\ use[c] <= e.use + MaxReuse
        /\ use[c] % 2 = e.use % 2 /\ c \in open
    BY ConnectionsAssumption DEF IInv, UsesOK, Remembers, Fresh
  <1>2. \A m, n \in Nat : m <= n /\ n <= m + 1 /\ n % 2 = m % 2 => m = n
    OBVIOUS
  <1> QED
    BY <1>1, <1>2

(* ngx_epoll_process_events, ngx_event_process_posted and                  *)
(* ngx_event_expire_timers: an event reaches the use of the connection     *)
(* that it was reported for, and no handler is called for a closed one.    *)
THEOREM Delivery ==
  ASSUME MaxReuse <= 1
  PROVE  ConnSpec => DeliveredToItsUse
  <1> DEFINE Right == (serving = None /\ serving' # None) =>
                        /\ serving'.event[1] \in open
                        /\ serving'.use = use[serving'.event[1]]
  <1>1. ASSUME IInv, ConnNext, serving = None, serving' # None
        PROVE  Right
    <2>1. Deliver
      BY <1>1 DEF ConnNext, Handler, Close, Register, Unregister, Reusable, Post, SetTimer,
                  DelTimer, GetFree, GetDrained, Return, Running
    <2>2. ~EpollWait /\ ~NextStage /\ \A c : ~EventStale(c)
      BY <1>1 DEF EpollWait, NextStage, EventStale
    <2>3. ASSUME NEW c \in DOMAIN batch, EventRead(c)
          PROVE  Right
      <3>1. serving' = [event |-> << c, "read" >>, use |-> batch[c].use] /\ Fresh(c, batch[c])
        BY <1>1, <2>3 DEF EventRead, Run
      <3>2. c \in open /\ batch[c].use = use[c]
        BY <1>1, <3>1, FreshIs DEF IInv, DueOK
      <3> QED
        BY <3>1, <3>2
    <2>4. CASE EventWrite
      <3>1. /\ serving' = [event |-> << writeDue[1], "write" >>, use |-> writeDue[2].use]
            /\ Fresh(writeDue[1], writeDue[2]) /\ writeDue # None
        BY <1>1, <2>4 DEF EventWrite, Run
      <3>2. writeDue[1] \in open /\ writeDue[2].use = use[writeDue[1]]
        BY <1>1, <3>1, FreshIs DEF IInv, DueOK
      <3> QED
        BY <3>1, <3>2
    <2>5. ASSUME NEW ev \in open \X Kinds, Run(ev, use[ev[1]])
          PROVE  Right
      BY <2>5 DEF Run
    <2>6. CASE PostedAccept
      <3>1. Head(acceptQueue) \in open \X Kinds
        BY <1>1, <2>6, TailIs DEF PostedAccept, IInv, Lists, QueuesOK
      <3> QED
        BY <2>5, <2>6, <3>1 DEF PostedAccept
    <2>7. CASE PostedEvent
      <3>1. Head(postQueue) \in open \X Kinds
        BY <1>1, <2>7, TailIs DEF PostedEvent, IInv, Lists, QueuesOK
      <3> QED
        BY <2>5, <2>7, <3>1 DEF PostedEvent
    <2>8. ASSUME NEW ev \in timers, Expire(ev)
          PROVE  Right
      <3>1. ev \in open \X Kinds
        BY <1>1, <2>8 DEF IInv, Lists, WatchedOK
      <3> QED
        BY <2>5, <2>8, <3>1 DEF Expire
    <2> QED
      BY <2>1, <2>2, <2>3, <2>4, <2>6, <2>7, <2>8 DEF Deliver
  <1>2. IInv /\ [ConnNext]_connVars => [Right]_connVars
    BY <1>1
  <1> QED
    BY <1>2, Invariance, PTL DEF ConnSpec, DeliveredToItsUse
=============================================================================
