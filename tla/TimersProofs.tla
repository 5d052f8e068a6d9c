---------------------------- MODULE TimersProofs ----------------------------
(***************************************************************************)
(* Proofs about the time of a worker: the timers, for any events, and the  *)
(* cached time, for any number of slots: the texts that threads and        *)
(* handlers of signals read are whole, and the published time is that of   *)
(* the last update.                                                        *)
(***************************************************************************)
EXTENDS Timers, CachedTime, SequenceTheorems, TLAPS

-----------------------------------------------------------------------------
(* Words. *)

LEMMA DivMod ==
  ASSUME NEW a \in Int, NEW w \in Nat \ {0}
  PROVE  /\ a % w \in 0 .. w - 1 /\ a \div w \in Int
         /\ a = (w * (a \div w)) + (a % w)
  OBVIOUS

LEMMA NoQuotient ==
  ASSUME NEW r \in Int, NEW q \in Int, NEW w \in Nat \ {0},
         r \in 0 .. w - 1, (w * q) + r \in 0 .. w - 1
  PROVE  q = 0
<1>1. CASE q >= 1
  <2>1. w * q >= w
    BY <1>1
  <2> QED
    BY <2>1
<1>2. CASE q <= -1
  <2>1. w * q <= -w
    BY <1>2
  <2> QED
    BY <2>1
<1> QED
  BY <1>1, <1>2

LEMMA Remainder ==
  ASSUME NEW r \in Int, NEW q \in Int, NEW w \in Nat \ {0}, r \in 0 .. w - 1
  PROVE  ((w * q) + r) % w = r
<1> DEFINE a == (w * q) + r
<1>1. a \in Int
  OBVIOUS
<1>2. /\ a % w \in 0 .. w - 1 /\ a \div w \in Int
      /\ a = (w * (a \div w)) + (a % w)
  BY <1>1, DivMod
<1>3. r = (w * ((a \div w) - q)) + (a % w)
  BY <1>2
<1>4. (a \div w) - q = 0
  BY <1>2, <1>3, NoQuotient
<1> QED
  BY <1>2, <1>3, <1>4

LEMMA Distribute ==
  ASSUME NEW w \in Int, NEW p \in Int, NEW q \in Int, NEW r \in Int, NEW t \in Int
  PROVE  r - t = (w * (q - p)) + (((w * p) + r) - ((w * q) + t))
  OBVIOUS

LEMMA OneMore ==
  ASSUME NEW w \in Int, NEW q \in Int, NEW d \in Int
  PROVE  (w * q) + d = (w * (q - 1)) + (d + w)
  OBVIOUS

(* Two remainders differ as the numbers do, up to a multiple of w. *)
LEMMA RemaindersDiffer ==
  ASSUME NEW w \in Nat \ {0}, NEW a \in Int, NEW b \in Int
  PROVE  \E q \in Int : (a % w) - (b % w) = (w * q) + (a - b)
<1>1. /\ a % w \in Int /\ a \div w \in Int /\ a = (w * (a \div w)) + (a % w)
      /\ b % w \in Int /\ b \div w \in Int /\ b = (w * (b \div w)) + (b % w)
  BY DivMod
<1> DEFINE p == a \div w
           r == a % w
           q == b \div w
           t == b % w
<1>2. p \in Int /\ q \in Int /\ r \in Int /\ t \in Int
  BY <1>1
<1>3. a = (w * p) + r /\ b = (w * q) + t
  BY <1>1
<1> HIDE DEF p, q, r, t
<1>4. r - t = (w * (q - p)) + (a - b)
  BY <1>2, <1>3, Distribute
<1>5. q - p \in Int
  BY <1>2
<1> QED
  BY <1>4, <1>5 DEF r, t

(* The signed difference of the words of two times is the difference of    *)
(* the times, if that is less than half of the words.                      *)
LEMMA SignedDifference ==
  ASSUME NEW a \in Int, NEW b \in Int, a - b < Half, - Half < a - b
  PROVE  Tree!Signed(Word(a) - Word(b)) = a - b
<1> DEFINE w == 2 * Half
           x == (a % w) - (b % w)
           d == a - b
<1>1. w \in Nat \ {0} /\ Half \in Nat \ {0} /\ d \in Int
  BY TimersAssumption
<1>2. PICK q \in Int : x = (w * q) + d
  BY <1>1, RemaindersDiffer
<1>3. Tree!Signed(Word(a) - Word(b)) = IF x % w < Half THEN x % w ELSE (x % w) - w
  BY DEF Tree!Signed, Tree!Width, Word
<1>4. d < Half /\ - Half < d /\ w = 2 * Half
  OBVIOUS
<1> HIDE DEF w, x, d
<1>5. CASE d >= 0
  <2>1. d \in 0 .. w - 1
    BY <1>1, <1>4, <1>5
  <2>2. x % w = d
    BY <1>1, <1>2, <2>1, Remainder
  <2>3. Tree!Signed(Word(a) - Word(b)) = d
    BY <1>3, <1>4, <2>2
  <2> QED
    BY <2>3 DEF d
<1>6. CASE d < 0
  <2>1. x = (w * (q - 1)) + (d + w)
    BY <1>1, <1>2, OneMore
  <2>2. d + w \in 0 .. w - 1 /\ d + w \in Int /\ q - 1 \in Int /\ ~(d + w < Half)
    BY <1>1, <1>4, <1>6
  <2>3. x % w = d + w
    BY <1>1, <2>1, <2>2, Remainder
  <2>4. Tree!Signed(Word(a) - Word(b)) = d
    BY <1>1, <1>3, <2>2, <2>3
  <2> QED
    BY <2>4 DEF d
<1> QED
  BY <1>1, <1>5, <1>6

LEMMA WordType == \A t \in Int : Word(t) \in 0 .. 2 * Half - 1
  BY TimersAssumption, DivMod DEF Word

-----------------------------------------------------------------------------
(* Rows of nodes. *)

Distinct(s) == \A i, j \in DOMAIN s : s[i] = s[j] => i = j

LEMMA InsertAtIs ==
  ASSUME NEW S, NEW s \in Seq(S), NEW e \in S, NEW i \in 1 .. Len(s) + 1
  PROVE  /\ Tree!InsertAt(s, i, e) \in Seq(S)
         /\ Len(Tree!InsertAt(s, i, e)) = Len(s) + 1
         /\ \A j \in 1 .. Len(s) + 1 :
              Tree!InsertAt(s, i, e)[j] = IF j < i THEN s[j]
                                          ELSE IF j = i THEN e ELSE s[j - 1]
<1> DEFINE a == SubSeq(s, 1, i - 1)
           b == << e >>
           c == SubSeq(s, i, Len(s))
<1>1. /\ a \in Seq(S) /\ Len(a) = i - 1
      /\ \A j \in 1 .. i - 1 : a[j] = s[j]
  OBVIOUS
<1>2. /\ c \in Seq(S) /\ Len(c) = Len(s) - i + 1
      /\ \A j \in 1 .. Len(s) - i + 1 : c[j] = s[i + j - 1]
  OBVIOUS
<1>3. b \in Seq(S) /\ Len(b) = 1 /\ b[1] = e
  OBVIOUS
<1>4. Tree!InsertAt(s, i, e) = (a \o b) \o c
  BY DEF Tree!InsertAt
<1> HIDE DEF a, b, c
<1>5. /\ a \o b \in Seq(S) /\ Len(a \o b) = i
      /\ \A j \in 1 .. i : (a \o b)[j] = IF j < i THEN s[j] ELSE e
  <2>1. /\ Len(a) + Len(b) = i /\ Len(a) = i - 1
        /\ \A j \in 1 .. i : j > i - 1 => b[j - (i - 1)] = e
    BY <1>1, <1>3
  <2>2. /\ a \o b \in Seq(S) /\ Len(a \o b) = Len(a) + Len(b)
        /\ \A j \in 1 .. Len(a) + Len(b) :
             (a \o b)[j] = IF j <= Len(a) THEN a[j] ELSE b[j - Len(a)]
    BY <1>1, <1>3, ConcatProperties
  <2>3. a \o b \in Seq(S) /\ Len(a \o b) = i
    BY <2>1, <2>2
  <2>4. ASSUME NEW j \in 1 .. i
        PROVE  (a \o b)[j] = IF j < i THEN s[j] ELSE e
    <3>1. (a \o b)[j] = IF j <= i - 1 THEN a[j] ELSE b[j - (i - 1)]
      BY <2>1, <2>2
    <3>2. CASE j < i
      <4>1. j \in 1 .. i - 1 /\ j <= i - 1
        BY <3>2
      <4> QED
        BY <1>1, <3>1, <3>2, <4>1
    <3>3. CASE ~(j < i)
      <4>1. j > i - 1 /\ ~(j <= i - 1)
        BY <3>3
      <4> QED
        BY <2>1, <3>1, <3>3, <4>1
    <3> QED
      BY <3>2, <3>3
  <2> QED
    BY <2>3, <2>4
<1> DEFINE ab == a \o b
<1> HIDE DEF ab
<1>6. /\ ab \o c \in Seq(S) /\ Len(ab \o c) = Len(s) + 1
      /\ \A j \in 1 .. Len(s) + 1 :
           (ab \o c)[j] = IF j <= i THEN ab[j] ELSE c[j - i]
  <2>1. ab \in Seq(S) /\ Len(ab) = i
    BY <1>5 DEF ab
  <2>2. Len(ab) + Len(c) = Len(s) + 1
    BY <1>2, <2>1
  <2> QED
    BY <1>2, <2>1, <2>2, ConcatProperties
<1>7. \A j \in 1 .. Len(s) + 1 : j > i => c[j - i] = s[j - 1]
  BY <1>2
<1> QED
  BY <1>4, <1>5, <1>6, <1>7, SMTT(40) DEF ab

LEMMA WithoutIs ==
  ASSUME NEW S, NEW s \in Seq(S), Distinct(s), NEW e \in S,
         NEW k \in DOMAIN s, s[k] = e
  PROVE  /\ Without(s, e) \in Seq(S)
         /\ Len(Without(s, e)) = Len(s) - 1
         /\ \A j \in 1 .. Len(s) - 1 :
              Without(s, e)[j] = IF j < k THEN s[j] ELSE s[j + 1]
<1>1. k = CHOOSE i \in DOMAIN s : s[i] = e
  BY DEF Distinct
<1>2. Without(s, e) = [j \in 1 .. Len(s) - 1 |-> IF j < k THEN s[j] ELSE s[j + 1]]
  BY <1>1 DEF Without
<1> QED
  BY <1>2

Sorted(s, T) == \A i, j \in DOMAIN s : i < j => T[s[i]] <= T[s[j]]

(* A row without one of its nodes. *)
LEMMA RowWithout ==
  ASSUME NEW S, NEW s \in Seq(S), Distinct(s), NEW e \in S,
         NEW T \in [S -> Int], Sorted(s, T)
  PROVE  /\ Without(s, e) \in Seq(S) /\ Distinct(Without(s, e))
         /\ Sorted(Without(s, e), T)
         /\ \A j \in DOMAIN Without(s, e) :
              /\ Without(s, e)[j] # e
              /\ \E i \in DOMAIN s : Without(s, e)[j] = s[i]
<1>1. CASE \E k \in DOMAIN s : s[k] = e
  <2>1. PICK k \in DOMAIN s : s[k] = e
    BY <1>1
  <2> DEFINE r == Without(s, e)
  <2>2. /\ r \in Seq(S) /\ Len(r) = Len(s) - 1
        /\ \A j \in 1 .. Len(s) - 1 : r[j] = IF j < k THEN s[j] ELSE s[j + 1]
    BY <2>1, WithoutIs
  <2>3. /\ DOMAIN r = 1 .. Len(s) - 1 /\ DOMAIN s = 1 .. Len(s)
        /\ k \in 1 .. Len(s) /\ Len(s) \in Nat
    BY <2>2
  <2> HIDE DEF r
  <2> DEFINE f(j) == IF j < k THEN j ELSE j + 1
  <2>4. \A j \in DOMAIN r : f(j) \in DOMAIN s /\ r[j] = s[f(j)] /\ f(j) # k
    <3> SUFFICES ASSUME NEW j \in 1 .. Len(s) - 1
                 PROVE  f(j) \in 1 .. Len(s) /\ r[j] = s[f(j)] /\ f(j) # k
      BY <2>3
    <3>1. r[j] = IF j < k THEN s[j] ELSE s[j + 1]
      BY <2>2
    <3>2. f(j) \in 1 .. Len(s) /\ f(j) # k
      BY <2>3
    <3>3. r[j] = s[f(j)]
      <4>1. CASE j < k
        BY <3>1, <4>1
      <4>2. CASE ~(j < k)
        BY <3>1, <4>2
      <4> QED
        BY <4>1, <4>2
    <3> QED
      BY <3>2, <3>3
  <2>5. \A i, j \in DOMAIN r : (i < j => f(i) < f(j)) /\ (f(i) = f(j) => i = j)
    BY <2>3
  <2> HIDE DEF f
  <2>6. Distinct(r)
    BY <2>4, <2>5 DEF Distinct
  <2>7. Sorted(r, T)
    BY <2>4, <2>5 DEF Sorted
  <2>8. \A j \in DOMAIN r : r[j] # e /\ \E i \in DOMAIN s : r[j] = s[i]
    BY <2>1, <2>4 DEF Distinct
  <2> QED
    BY <2>2, <2>6, <2>7, <2>8 DEF r
<1>2. CASE ~ \E k \in DOMAIN s : s[k] = e
  <2>1. Without(s, e) = s
    BY <1>2 DEF Without
  <2> QED
    BY <1>2, <2>1
<1> QED
  BY <1>1, <1>2

(* A row with a node more, between two neighbours. *)
LEMMA RowInsert ==
  ASSUME NEW S, NEW s \in Seq(S), Distinct(s), NEW e \in S,
         \A j \in DOMAIN s : s[j] # e,
         NEW T \in [S -> Int], Sorted(s, T), NEW i \in 1 .. Len(s) + 1,
         i > 1 => T[s[i - 1]] <= T[e],
         i <= Len(s) => T[e] <= T[s[i]]
  PROVE  /\ Tree!InsertAt(s, i, e) \in Seq(S)
         /\ Distinct(Tree!InsertAt(s, i, e)) /\ Sorted(Tree!InsertAt(s, i, e), T)
         /\ \A j \in DOMAIN Tree!InsertAt(s, i, e) :
              \/ Tree!InsertAt(s, i, e)[j] = e
              \/ \E m \in DOMAIN s : Tree!InsertAt(s, i, e)[j] = s[m]
<1> DEFINE r == Tree!InsertAt(s, i, e)
<1>1. /\ r \in Seq(S) /\ Len(r) = Len(s) + 1
      /\ \A j \in 1 .. Len(s) + 1 :
           r[j] = IF j < i THEN s[j] ELSE IF j = i THEN e ELSE s[j - 1]
  <2> HIDE DEF r
  <2>1. r = Tree!InsertAt(s, i, e)
    BY DEF r
  <2>2. /\ Tree!InsertAt(s, i, e) \in Seq(S)
        /\ Len(Tree!InsertAt(s, i, e)) = Len(s) + 1
        /\ \A j \in 1 .. Len(s) + 1 :
             Tree!InsertAt(s, i, e)[j] = IF j < i THEN s[j]
                                         ELSE IF j = i THEN e ELSE s[j - 1]
    BY InsertAtIs
  <2> QED
    BY <2>1, <2>2
<1>2. /\ DOMAIN r = 1 .. Len(s) + 1 /\ DOMAIN s = 1 .. Len(s) /\ Len(s) \in Nat
  BY <1>1
<1> HIDE DEF r
<1> DEFINE f(j) == IF j < i THEN j ELSE j - 1
<1>3. \A j \in DOMAIN r : j # i => f(j) \in DOMAIN s /\ r[j] = s[f(j)]
  <2> SUFFICES ASSUME NEW j \in 1 .. Len(s) + 1, j # i
               PROVE  f(j) \in 1 .. Len(s) /\ r[j] = s[f(j)]
    BY <1>2
  <2>1. r[j] = IF j < i THEN s[j] ELSE IF j = i THEN e ELSE s[j - 1]
    BY <1>1
  <2>2. f(j) \in 1 .. Len(s)
    BY <1>2
  <2>3. r[j] = s[f(j)]
    <3>1. CASE j < i
      BY <2>1, <3>1
    <3>2. CASE ~(j < i)
      BY <2>1, <3>2
    <3> QED
      BY <3>1, <3>2
  <2> QED
    BY <2>2, <2>3
<1>4. r[i] = e
  BY <1>1
<1>5. \A j, m \in DOMAIN r : j # i /\ m # i =>
        (j < m => f(j) < f(m)) /\ (f(j) = f(m) => j = m)
  BY <1>2
<1>6. \A j \in DOMAIN r : j < i => i > 1 /\ f(j) \in DOMAIN s /\ i - 1 \in DOMAIN s
                                   /\ (f(j) < i - 1 \/ f(j) = i - 1)
  <2> SUFFICES ASSUME NEW j \in 1 .. Len(s) + 1, j < i
               PROVE  /\ i > 1 /\ f(j) \in 1 .. Len(s) /\ i - 1 \in 1 .. Len(s)
                      /\ (f(j) < i - 1 \/ f(j) = i - 1)
    BY <1>2
  <2>1. f(j) = j
    OBVIOUS
  <2> QED
    BY <1>2, <2>1
<1>7. \A j \in DOMAIN r : j > i => i <= Len(s) /\ f(j) \in DOMAIN s /\ i \in DOMAIN s
                                   /\ (i < f(j) \/ i = f(j))
  BY <1>2
<1> HIDE DEF f
<1>8. \A m \in DOMAIN s : T[s[m]] \in Int
  BY <1>2
<1>9. \A j \in DOMAIN r : j < i => T[r[j]] <= T[e]
  BY <1>3, <1>6, <1>8, <1>2, SMTT(40) DEF Sorted
<1>10. \A j \in DOMAIN r : j > i => T[e] <= T[r[j]]
  BY <1>3, <1>7, <1>8, <1>2, SMTT(40) DEF Sorted
<1>11. Distinct(r)
  BY <1>2, <1>3, <1>4, <1>5 DEF Distinct
<1>12. Sorted(r, T)
  <2> SUFFICES ASSUME NEW j \in DOMAIN r, NEW m \in DOMAIN r, j < m
               PROVE  T[r[j]] <= T[r[m]]
    BY DEF Sorted
  <2>1. CASE j = i
    BY <1>4, <1>10, <2>1
  <2>2. CASE m = i
    BY <1>4, <1>9, <2>2
  <2>3. CASE j # i /\ m # i
    BY <1>3, <1>5, <2>3 DEF Sorted
  <2> QED
    BY <2>1, <2>2, <2>3
<1>13. \A j \in DOMAIN r : r[j] = e \/ \E m \in DOMAIN s : r[j] = s[m]
  BY <1>3, <1>4
<1> QED
  BY <1>1, <1>11, <1>12, <1>13 DEF r

-----------------------------------------------------------------------------
(* The inductive invariant.  The key of a timer that is set is the word of *)
(* its time; all times lie in a window around the present that is shorter  *)
(* than half of the words; and unless the clock has moved since the timers *)
(* were served, none of the times is past.                                 *)

Keyed == \A ev \in Events : IsSet(ev) => key[ev] = Word(at[ev])

Window ==
  \A ev \in Events :
    IsSet(ev) => now - MaxLate <= at[ev] /\ at[ev] <= now + MaxTimeout + back

Served == stage \in {"wait", "posted"} \/ (stage = "handle" /\ ~delta)

Ahead == Served => \A ev \in Events : IsSet(ev) => now <= at[ev]

IInv == TypeOK /\ Keyed /\ Window /\ OrderIsTimely /\ KeyIsNear /\ Ahead

(* In the window words are compared as the times they stand for. *)
LEMMA InWindow ==
  ASSUME IInv, NEW ev \in Events, IsSet(ev), NEW t \in Int,
         now - MaxLate <= t, t <= now + MaxTimeout + back
  PROVE  /\ Tree!Signed(Word(t) - key[ev]) = t - at[ev]
         /\ Tree!Signed(key[ev] - Word(t)) = at[ev] - t
<1>1. key[ev] = Word(at[ev]) /\ at[ev] \in Int
  BY DEF IInv, Keyed, TypeOK
<1>2. /\ now - MaxLate <= at[ev] /\ at[ev] <= now + MaxTimeout + back
      /\ now \in Int /\ back \in Int /\ back <= MaxBack
  BY TimersAssumption DEF IInv, Window, TypeOK
<1>3. /\ t - at[ev] < Half /\ - Half < t - at[ev]
      /\ at[ev] - t < Half /\ - Half < at[ev] - t
  BY <1>1, <1>2, TimersAssumption
<1> QED
  BY <1>1, <1>3, SignedDifference

LEMMA InWindowNow ==
  ASSUME IInv, NEW ev \in Events, IsSet(ev)
  PROVE  Tree!Signed(key[ev] - Word(now)) = at[ev] - now
<1>1. now \in Int /\ now - MaxLate <= now /\ now <= now + MaxTimeout + back
  BY TimersAssumption DEF IInv, TypeOK
<1> QED
  BY <1>1, InWindow

(* The first node of the tree has the first time. *)
LEMMA FirstIsLeast ==
  ASSUME IInv, order # << >>
  PROVE  /\ order[1] \in Events /\ IsSet(order[1])
         /\ \A ev \in Events : IsSet(ev) => at[order[1]] <= at[ev]
<1>1. /\ order \in Seq(Events) /\ at \in [Events -> Int]
      /\ \A i, j \in DOMAIN order : i < j => at[order[i]] <= at[order[j]]
  BY DEF IInv, TypeOK, OrderIsTimely
<1>2. 1 \in DOMAIN order /\ \A i \in DOMAIN order : i = 1 \/ 1 < i
  BY <1>1
<1>3. order[1] \in Events /\ at[order[1]] \in Int
  BY <1>1, <1>2
<1>4. \A i \in DOMAIN order : at[order[1]] <= at[order[i]]
  BY <1>1, <1>2, <1>3
<1> QED
  BY <1>2, <1>3, <1>4 DEF IsSet

(* A timer is taken out of the tree. *)
LEMMA Removal ==
  ASSUME IInv, NEW ev \in Events,
         order' \in Seq(Events), Distinct(order)', Sorted(order', at),
         \A x \in Events : IsSet(x)' => IsSet(x) /\ x # ev,
         key' = [key EXCEPT ![ev] = 0], at' = [at EXCEPT ![ev] = 0],
         due' = [due EXCEPT ![ev] = 0]
  PROVE  /\ key' \in [Events -> 0 .. 2 * Half - 1]
         /\ at' \in [Events -> Int] /\ due' \in [Events -> Int]
         /\ Keyed' /\ OrderIsTimely' /\ KeyIsNear'
         /\ \A x \in Events : IsSet(x)' => IsSet(x) /\ at'[x] = at[x]
<1>1. /\ key \in [Events -> 0 .. 2 * Half - 1]
      /\ at \in [Events -> Int] /\ due \in [Events -> Int]
  BY DEF IInv, TypeOK
<1>2. 0 \in 0 .. 2 * Half - 1
  BY TimersAssumption
<1>3. \A x \in Events : x # ev => key'[x] = key[x] /\ at'[x] = at[x] /\ due'[x] = due[x]
  BY <1>1
<1>4. /\ key' \in [Events -> 0 .. 2 * Half - 1]
      /\ at' \in [Events -> Int] /\ due' \in [Events -> Int]
  BY <1>1, <1>2
<1>5. Keyed'
  BY <1>3 DEF IInv, Keyed, Word
<1>6. KeyIsNear'
  BY <1>3 DEF IInv, KeyIsNear
<1>7. OrderIsTimely'
  <2>1. \A i \in DOMAIN order' : order'[i] \in Events /\ at'[order'[i]] = at[order'[i]]
    BY <1>3 DEF IsSet
  <2> QED
    BY <2>1 DEF OrderIsTimely, Sorted
<1> QED
  BY <1>3, <1>4, <1>5, <1>6, <1>7

LEMMA InitInv == Init => IInv
<1> SUFFICES ASSUME Init PROVE IInv
  OBVIOUS
<1>0. order \in Seq(Events) /\ DOMAIN order = {}
  <2>1. order \in Seq(Events) /\ Len(order) = 0
    BY DEF Init
  <2>2. DOMAIN order = 1 .. 0
    BY <2>1
  <2> QED
    BY <2>1, <2>2
<1>1. \A ev \in Events : ~IsSet(ev)
  BY <1>0 DEF IsSet
<1>2. TypeOK
  <2>1. key \in [Events -> 0 .. 2 * Half - 1]
    <3>1. 0 \in 0 .. 2 * Half - 1
      BY TimersAssumption
    <3> QED
      BY <3>1 DEF Init
  <2>2. at \in [Events -> Int] /\ due \in [Events -> Int]
    BY DEF Init
  <2>3. now \in 0 .. MaxNow /\ back \in 0 .. MaxBack
    BY TimersAssumption DEF Init
  <2>4. delta \in BOOLEAN /\ stage \in {"wait", "handle", "expire", "timedout", "posted"}
    BY DEF Init
  <2> QED
    BY <1>0, <2>1, <2>2, <2>3, <2>4 DEF TypeOK
<1>3. OrderIsTimely
  BY <1>0 DEF OrderIsTimely
<1> QED
  BY <1>1, <1>2, <1>3 DEF IInv, Keyed, Window, KeyIsNear, Ahead

(* FindTimer is the time until the first timer. *)
LEMMA FindTimerIs ==
  ASSUME IInv, order # << >>
  PROVE  FindTimer = IF at[order[1]] - now > 0 THEN at[order[1]] - now ELSE 0
BY FirstIsLeast, InWindowNow DEF FindTimer

LEMMA WaitInv == IInv /\ Wait => IInv'
<1> SUFFICES ASSUME IInv, Wait PROVE IInv'
  OBVIOUS
<1>1. stage = "wait" /\ UNCHANGED << order, key, at, due, back >> /\ stage' = "handle"
  BY DEF Wait
<1>2. PICK d \in 0 .. (IF order = << >> THEN Half ELSE FindTimer) + MaxLate :
        now + d <= MaxNow /\ now' = now + d /\ delta' = (d # 0)
  BY DEF Wait
<1>3. now \in 0 .. MaxNow /\ at \in [Events -> Int]
  BY DEF IInv, TypeOK
<1>4. d \in Nat
  <2>1. (IF order = << >> THEN Half ELSE FindTimer) + MaxLate \in Int
    BY <1>3, FindTimerIs, FirstIsLeast, TimersAssumption
  <2> QED
    BY <1>2, <2>1
<1>5. \A ev \in Events : IsSet(ev)' <=> IsSet(ev)
  BY <1>1 DEF IsSet
<1>6. \A ev \in Events : IsSet(ev) => now <= at[ev]
  BY <1>1 DEF IInv, Ahead, Served
<1>7. TypeOK'
  <2>1. now' \in 0 .. MaxNow
    BY <1>2, <1>3, <1>4, TimersAssumption
  <2>2. delta' \in BOOLEAN
    BY <1>2
  <2> QED
    BY <1>1, <2>1, <2>2 DEF IInv, TypeOK
<1>8. Window'
  <2> SUFFICES ASSUME NEW ev \in Events, IsSet(ev)
               PROVE  now' - MaxLate <= at[ev] /\ at[ev] <= now' + MaxTimeout + back
    BY <1>1, <1>5 DEF Window
  <2>1. order # << >>
    <3>1. PICK i \in DOMAIN order : order[i] = ev
      BY DEF IsSet
    <3> QED
      BY <3>1
  <2>2. /\ at[order[1]] \in Int /\ at[ev] \in Int
        /\ now <= at[order[1]] /\ at[order[1]] <= at[ev]
    BY <1>3, <1>6, <2>1, FirstIsLeast
  <2>3. FindTimer = at[order[1]] - now
    BY <1>3, <2>1, <2>2, FindTimerIs
  <2>4. d <= at[order[1]] - now + MaxLate
    BY <1>2, <1>3, <2>1, <2>2, <2>3, TimersAssumption
  <2>5. at[ev] <= now + MaxTimeout + back /\ back \in Int
    BY TimersAssumption DEF IInv, Window, TypeOK
  <2> QED
    BY <1>2, <1>3, <1>4, <2>2, <2>4, <2>5, TimersAssumption
<1>9. Ahead'
  <2> SUFFICES ASSUME d = 0 PROVE \A ev \in Events : IsSet(ev) => now' <= at[ev]
    BY <1>1, <1>2, <1>5 DEF Ahead, Served
  <2> QED
    BY <1>2, <1>3, <1>6
<1>10. Keyed' /\ OrderIsTimely' /\ KeyIsNear'
  BY <1>1, <1>5 DEF IInv, Keyed, OrderIsTimely, KeyIsNear
<1> QED
  BY <1>7, <1>8, <1>9, <1>10 DEF IInv

LEMMA SetBackInv == IInv /\ SetBack => IInv'
<1> SUFFICES ASSUME IInv, SetBack PROVE IInv'
  OBVIOUS
<1>1. /\ stage = "wait" /\ UNCHANGED << order, key, at, due >>
      /\ stage' = "handle" /\ delta' = TRUE
  BY DEF SetBack
<1>2. PICK d \in 1 .. MaxBack : /\ back + d <= MaxBack /\ d <= now
                                /\ now' = now - d /\ back' = back + d
  BY DEF SetBack
<1>3. now \in 0 .. MaxNow /\ back \in 0 .. MaxBack /\ at \in [Events -> Int]
  BY DEF IInv, TypeOK
<1>4. \A ev \in Events : IsSet(ev)' <=> IsSet(ev)
  BY <1>1 DEF IsSet
<1>5. now' \in 0 .. MaxNow /\ back' \in 0 .. MaxBack /\ now' < now /\ now' + back' = now + back
  BY <1>2, <1>3, TimersAssumption
<1>6. TypeOK'
  BY <1>1, <1>5 DEF IInv, TypeOK
<1>7. Window'
  <2> SUFFICES ASSUME NEW ev \in Events, IsSet(ev)
               PROVE  now' - MaxLate <= at[ev] /\ at[ev] <= now' + MaxTimeout + back'
    BY <1>1, <1>4 DEF Window
  <2>1. /\ now - MaxLate <= at[ev] /\ at[ev] <= now + MaxTimeout + back
        /\ at[ev] \in Int
    BY <1>3 DEF IInv, Window
  <2>2. /\ now \in Int /\ now' \in Int /\ back \in Int /\ back' \in Int
        /\ MaxLate \in Int /\ MaxTimeout \in Int
    BY <1>3, <1>5, TimersAssumption
  <2>3. now' + MaxTimeout + back' = now + MaxTimeout + back
    <3>1. now' = now - d /\ back' = back + d /\ d \in Int
      BY <1>2
    <3>2. (now - d) + MaxTimeout + (back + d) = now + MaxTimeout + back
      BY <2>2, <3>1
    <3> QED
      BY <3>1, <3>2
  <2>4. now' - MaxLate <= at[ev]
    BY <1>5, <2>1, <2>2
  <2> QED
    BY <2>1, <2>3, <2>4
<1>8. Ahead'
  BY <1>1 DEF Ahead, Served
<1>9. Keyed' /\ OrderIsTimely' /\ KeyIsNear'
  BY <1>1, <1>4 DEF IInv, Keyed, OrderIsTimely, KeyIsNear
<1> QED
  BY <1>6, <1>7, <1>8, <1>9 DEF IInv

(* The steps of the loop that change nothing but its place. *)
LEMMA MoveInv ==
  IInv /\ (Handled \/ HandlerReturns \/ NoneLeft \/ Posted) => IInv'
<1> SUFFICES ASSUME IInv, Handled \/ HandlerReturns \/ NoneLeft \/ Posted
             PROVE  IInv'
  OBVIOUS
<1>1. UNCHANGED << order, key, now, at, due, delta, back >>
  BY DEF Handled, HandlerReturns, NoneLeft, Posted
<1>2. \A ev \in Events : IsSet(ev)' <=> IsSet(ev)
  BY <1>1 DEF IsSet
<1>3. stage' \in {"wait", "handle", "expire", "timedout", "posted"}
  BY DEF Handled, HandlerReturns, NoneLeft, Posted
<1>4. TypeOK'
  BY <1>1, <1>3 DEF IInv, TypeOK
<1>5. Keyed' /\ Window' /\ OrderIsTimely' /\ KeyIsNear'
  BY <1>1, <1>2 DEF IInv, Keyed, Window, OrderIsTimely, KeyIsNear
<1>6. ASSUME Served' PROVE \A ev \in Events : IsSet(ev) => now <= at[ev]
  <2>1. CASE Handled
    <3>1. stage = "handle" /\ ~delta
      BY <1>1, <1>6, <2>1 DEF Handled, Served
    <3> QED
      BY <3>1 DEF IInv, Ahead, Served
  <2>2. CASE HandlerReturns
    BY <1>6, <2>2 DEF HandlerReturns, Served
  <2>3. CASE NoneLeft
    <3> SUFFICES ASSUME NEW ev \in Events, IsSet(ev) PROVE now <= at[ev]
      OBVIOUS
    <3>1. order # << >>
      <4>1. PICK i \in DOMAIN order : order[i] = ev
        BY DEF IsSet
      <4> QED
        BY <4>1
    <3>2. at[order[1]] - now > 0
      BY <2>3, <3>1, FirstIsLeast, InWindowNow DEF NoneLeft
    <3>3. at[order[1]] \in Int /\ at[ev] \in Int /\ now \in Int /\ at[order[1]] <= at[ev]
      BY <3>1, FirstIsLeast DEF IInv, TypeOK
    <3> QED
      BY <3>2, <3>3
  <2>4. CASE Posted
    BY <2>4 DEF IInv, Ahead, Served, Posted
  <2> QED
    BY <2>1, <2>2, <2>3, <2>4
<1>7. Ahead'
  BY <1>1, <1>2, <1>6 DEF Ahead
<1> QED
  BY <1>4, <1>5, <1>7 DEF IInv

LEMMA SortedAt == IInv => Sorted(order, at) /\ Distinct(order) /\ order \in Seq(Events)
BY DEF IInv, OrderIsTimely, TypeOK, Sorted, Distinct

LEMMA DelTimerInv ==
  ASSUME IInv, NEW ev \in Events, DelTimer(ev)
  PROVE  IInv'
<1>1. /\ order' = Without(order, ev)
      /\ key' = [key EXCEPT ![ev] = 0] /\ at' = [at EXCEPT ![ev] = 0]
      /\ due' = [due EXCEPT ![ev] = 0]
      /\ UNCHANGED << now, stage, delta, back >>
  BY DEF DelTimer
<1>2. at \in [Events -> Int]
  BY DEF IInv, TypeOK
<1>3. /\ order' \in Seq(Events) /\ Distinct(order)' /\ Sorted(order', at)
      /\ \A j \in DOMAIN order' :
           order'[j] # ev /\ \E i \in DOMAIN order : order'[j] = order[i]
  <2>1. /\ Without(order, ev) \in Seq(Events) /\ Distinct(Without(order, ev))
        /\ Sorted(Without(order, ev), at)
        /\ \A j \in DOMAIN Without(order, ev) :
             /\ Without(order, ev)[j] # ev
             /\ \E i \in DOMAIN order : Without(order, ev)[j] = order[i]
    BY <1>2, SortedAt, RowWithout
  <2> QED
    BY <1>1, <2>1 DEF Distinct
<1>4. \A x \in Events : IsSet(x)' => IsSet(x) /\ x # ev
  BY <1>3 DEF IsSet
<1>5. /\ key' \in [Events -> 0 .. 2 * Half - 1]
      /\ at' \in [Events -> Int] /\ due' \in [Events -> Int]
      /\ Keyed' /\ OrderIsTimely' /\ KeyIsNear'
      /\ \A x \in Events : IsSet(x)' => IsSet(x) /\ at'[x] = at[x]
  BY <1>1, <1>3, <1>4, Removal
<1>6. TypeOK'
  BY <1>1, <1>3, <1>5 DEF IInv, TypeOK, Distinct
<1>7. Window' /\ Ahead'
  BY <1>1, <1>5 DEF IInv, Window, Ahead, Served
<1> QED
  BY <1>5, <1>6, <1>7 DEF IInv

(* The first node is taken out of the tree. *)
LEMMA TailIsWithoutFirst ==
  ASSUME IInv, order # << >>
  PROVE  /\ Tail(order) \in Seq(Events) /\ Distinct(Tail(order)) /\ Sorted(Tail(order), at)
         /\ \A j \in DOMAIN Tail(order) :
              /\ Tail(order)[j] # order[1]
              /\ \E i \in DOMAIN order : Tail(order)[j] = order[i]
<1> DEFINE r == Tail(order)
<1>1. /\ r \in Seq(Events) /\ Len(r) = Len(order) - 1
      /\ \A j \in 1 .. Len(r) : r[j] = order[j + 1]
  BY SortedAt, HeadTailProperties
<1>2. DOMAIN r = 1 .. Len(r) /\ DOMAIN order = 1 .. Len(order) /\ Len(order) \in Nat \ {0}
  BY <1>1, SortedAt
<1> HIDE DEF r
<1>3. \A j \in DOMAIN r : /\ j + 1 \in DOMAIN order /\ r[j] = order[j + 1]
                          /\ j + 1 # 1 /\ 1 \in DOMAIN order
  BY <1>1, <1>2
<1>4. \A i, j \in DOMAIN r : (i < j => i + 1 < j + 1) /\ (i + 1 = j + 1 => i = j)
  BY <1>2
<1>5. Distinct(r)
  BY <1>3, <1>4, SortedAt DEF Distinct
<1>6. Sorted(r, at)
  BY <1>3, <1>4, SortedAt DEF Sorted
<1>7. \A j \in DOMAIN r : r[j] # order[1] /\ \E i \in DOMAIN order : r[j] = order[i]
  BY <1>3, SortedAt DEF Distinct
<1> QED
  BY <1>1, <1>5, <1>6, <1>7 DEF r

LEMMA ExpireInv == IInv /\ Expire => IInv'
<1> SUFFICES ASSUME IInv, Expire PROVE IInv'
  OBVIOUS
<1> DEFINE ev == order[1]
<1>1. /\ order # << >> /\ order' = Tail(order)
      /\ key' = [key EXCEPT ![ev] = 0] /\ at' = [at EXCEPT ![ev] = 0]
      /\ due' = [due EXCEPT ![ev] = 0]
      /\ stage' = "timedout" /\ UNCHANGED << now, delta, back >>
  BY DEF Expire
<1>2. ev \in Events
  BY <1>1, FirstIsLeast
<1>3. /\ order' \in Seq(Events) /\ Distinct(order)' /\ Sorted(order', at)
      /\ \A j \in DOMAIN order' :
           order'[j] # ev /\ \E i \in DOMAIN order : order'[j] = order[i]
  BY <1>1, TailIsWithoutFirst DEF Distinct
<1> HIDE DEF ev
<1>4. \A x \in Events : IsSet(x)' => IsSet(x) /\ x # ev
  BY <1>3 DEF IsSet
<1>5. /\ key' \in [Events -> 0 .. 2 * Half - 1]
      /\ at' \in [Events -> Int] /\ due' \in [Events -> Int]
      /\ Keyed' /\ OrderIsTimely' /\ KeyIsNear'
      /\ \A x \in Events : IsSet(x)' => IsSet(x) /\ at'[x] = at[x]
  BY <1>1, <1>2, <1>3, <1>4, Removal
<1>6. TypeOK'
  BY <1>1, <1>3, <1>5 DEF IInv, TypeOK, Distinct
<1>7. Window' /\ Ahead'
  BY <1>1, <1>5 DEF IInv, Window, Ahead, Served
<1> QED
  BY <1>5, <1>6, <1>7 DEF IInv

(* A timer is set anew, or for the first time. *)
LEMMA AddTimerInv ==
  ASSUME IInv, NEW ev \in Events, NEW d \in Timeouts, AddTimer(ev, d)
  PROVE  IInv'
<1> DEFINE t == now + d
<1>1. /\ due' = [due EXCEPT ![ev] = t] /\ UNCHANGED << now, stage, delta, back >>
  BY DEF AddTimer
<1>2. /\ now \in Int /\ back \in Int /\ back >= 0
      /\ at \in [Events -> Int] /\ due \in [Events -> Int]
      /\ key \in [Events -> 0 .. 2 * Half - 1]
  BY TimersAssumption DEF IInv, TypeOK
<1>3. t \in Int /\ now <= t /\ t <= now + MaxTimeout + back /\ now - MaxLate <= t
  <2>1. d \in Int /\ 0 <= d /\ d <= MaxTimeout
    BY TimersAssumption
  <2> QED
    BY <1>2, <2>1, TimersAssumption
<1>4. due' \in [Events -> Int] /\ \A x \in Events : x # ev => due'[x] = due[x]
  BY <1>1, <1>2, <1>3
<1>5. due'[ev] = t
  BY <1>1, <1>2
<1>6. CASE KeepsKey(ev, Word(t))
  <2>1. UNCHANGED << order, key, at >>
    BY <1>6 DEF AddTimer
  <2>2. \A x \in Events : IsSet(x)' <=> IsSet(x)
    BY <2>1 DEF IsSet
  <2>3. TypeOK'
    BY <1>1, <1>4, <2>1 DEF IInv, TypeOK
  <2>4. Keyed' /\ Window' /\ OrderIsTimely' /\ Ahead'
    BY <1>1, <2>1, <2>2 DEF IInv, Keyed, Window, OrderIsTimely, Ahead, Served
  <2>5. due'[ev] - at[ev] < Lazy /\ - Lazy < due'[ev] - at[ev]
    <3>1. /\ IsSet(ev) /\ Tree!Signed(Word(t) - key[ev]) < Lazy
          /\ - Lazy < Tree!Signed(Word(t) - key[ev])
      BY <1>6 DEF KeepsKey
    <3>2. Tree!Signed(Word(t) - key[ev]) = t - at[ev]
      BY <1>3, <3>1, InWindow
    <3> QED
      BY <1>5, <3>1, <3>2
  <2>6. KeyIsNear'
    BY <1>4, <2>1, <2>2, <2>5 DEF IInv, KeyIsNear
  <2> QED
    BY <2>3, <2>4, <2>6 DEF IInv
<1>7. CASE ~KeepsKey(ev, Word(t))
  <2> DEFINE s == Without(order, ev)
  <2>1. /\ order' \in Tree!With(s, ev, Word(t))
        /\ key' = [key EXCEPT ![ev] = Word(t)] /\ at' = [at EXCEPT ![ev] = t]
    BY <1>7 DEF AddTimer
  <2>2. /\ s \in Seq(Events) /\ Distinct(s) /\ Sorted(s, at)
        /\ \A j \in DOMAIN s : s[j] # ev /\ \E i \in DOMAIN order : s[j] = order[i]
    BY <1>2, SortedAt, RowWithout
  <2> HIDE DEF s
  <2>3. \A j \in DOMAIN s : s[j] \in Events /\ IsSet(s[j]) /\ s[j] # ev
    BY <2>2 DEF IsSet
  <2>4. PICK i \in 1 .. Len(s) + 1 :
          /\ i > 1 => ~Tree!Before(Word(t), key[s[i - 1]])
          /\ i <= Len(s) => Tree!Before(Word(t), key[s[i]])
          /\ order' = Tree!InsertAt(s, i, ev)
    BY <2>1 DEF Tree!With, Tree!Places
  <2>5. /\ at' \in [Events -> Int] /\ at'[ev] = t
        /\ \A x \in Events : x # ev => at'[x] = at[x]
    BY <1>2, <1>3, <2>1
  <2>6. Word(t) \in 0 .. 2 * Half - 1
    BY <1>3, WordType
  <2>7. /\ key' \in [Events -> 0 .. 2 * Half - 1] /\ key'[ev] = Word(t)
        /\ \A x \in Events : x # ev => key'[x] = key[x]
    BY <1>2, <2>1, <2>6
  <2>8. \A j \in DOMAIN s : Tree!Before(Word(t), key[s[j]]) <=> t < at[s[j]]
    <3> TAKE j \in DOMAIN s
    <3>1. Tree!Signed(Word(t) - key[s[j]]) = t - at[s[j]]
      BY <1>3, <2>3, InWindow
    <3>2. at[s[j]] \in Int
      BY <1>2, <2>3
    <3> QED
      BY <1>3, <3>1, <3>2 DEF Tree!Before
  <2>9. i > 1 => at'[s[i - 1]] <= at'[ev]
    <3> SUFFICES ASSUME i > 1 PROVE at'[s[i - 1]] <= at'[ev]
      OBVIOUS
    <3>1. i - 1 \in DOMAIN s
      BY <2>2
    <3>2. ~(t < at[s[i - 1]]) /\ at[s[i - 1]] \in Int
      BY <1>2, <2>3, <2>4, <2>8, <3>1
    <3> QED
      BY <1>3, <2>3, <2>5, <3>1, <3>2
  <2>10. i <= Len(s) => at'[ev] <= at'[s[i]]
    <3> SUFFICES ASSUME i <= Len(s) PROVE at'[ev] <= at'[s[i]]
      OBVIOUS
    <3>1. i \in DOMAIN s
      BY <2>2
    <3>2. t < at[s[i]] /\ at[s[i]] \in Int
      BY <1>2, <2>3, <2>4, <2>8, <3>1
    <3> QED
      BY <1>3, <2>3, <2>5, <3>1, <3>2
  <2>11. Sorted(s, at')
    BY <2>2, <2>3, <2>5 DEF Sorted
  <2>12. \A j \in DOMAIN s : s[j] # ev
    BY <2>3
  <2>13. /\ Tree!InsertAt(s, i, ev) \in Seq(Events)
         /\ Distinct(Tree!InsertAt(s, i, ev)) /\ Sorted(Tree!InsertAt(s, i, ev), at')
         /\ \A j \in DOMAIN Tree!InsertAt(s, i, ev) :
              \/ Tree!InsertAt(s, i, ev)[j] = ev
              \/ \E m \in DOMAIN s : Tree!InsertAt(s, i, ev)[j] = s[m]
    BY <2>2, <2>12, <2>5, <2>11, <2>9, <2>10, RowInsert
  <2>14. /\ order' \in Seq(Events) /\ Distinct(order') /\ Sorted(order', at')
         /\ \A j \in DOMAIN order' :
              order'[j] = ev \/ \E m \in DOMAIN s : order'[j] = s[m]
    BY <2>4, <2>13
  <2>15. \A x \in Events : IsSet(x)' => x = ev \/ (x # ev /\ IsSet(x))
    BY <2>3, <2>14 DEF IsSet
  <2>16. TypeOK'
    BY <1>1, <1>4, <2>5, <2>7, <2>14 DEF IInv, TypeOK, Distinct
  <2>17. Keyed'
    BY <2>5, <2>7, <2>15 DEF IInv, Keyed
  <2>18. Window' /\ Ahead'
    BY <1>1, <1>3, <2>5, <2>15 DEF IInv, Window, Ahead, Served
  <2>19. OrderIsTimely'
    BY <2>14 DEF OrderIsTimely, Sorted
  <2>20. KeyIsNear'
    <3> SUFFICES ASSUME NEW x \in Events, IsSet(x)'
                 PROVE  due'[x] - at'[x] < Lazy /\ - Lazy < due'[x] - at'[x]
      BY DEF KeyIsNear
    <3>1. CASE x = ev
      <4>1. due'[x] - at'[x] = 0
        BY <1>3, <1>5, <2>5, <3>1
      <4> QED
        BY <4>1, TimersAssumption
    <3>2. CASE x # ev
      BY <1>4, <2>5, <2>15, <3>2 DEF IInv, KeyIsNear
    <3> QED
      BY <3>1, <3>2
  <2> QED
    BY <2>16, <2>17, <2>18, <2>19, <2>20 DEF IInv
<1> QED
  BY <1>6, <1>7

LEMMA NextInv == IInv /\ [Next]_vars => IInv'
<1> SUFFICES ASSUME IInv, [Next]_vars PROVE IInv'
  OBVIOUS
<1>1. CASE Loop
  BY <1>1, WaitInv, SetBackInv, MoveInv, ExpireInv DEF Loop
<1>2. ASSUME NEW ev \in Events, DelTimer(ev) PROVE IInv'
  BY <1>2, DelTimerInv
<1>3. ASSUME NEW ev \in Events, NEW d \in Timeouts, AddTimer(ev, d) PROVE IInv'
  BY <1>3, AddTimerInv
<1>4. CASE UNCHANGED vars
  BY <1>4 DEF vars, IInv, TypeOK, Keyed, Window, OrderIsTimely, KeyIsNear, Ahead,
              Served, IsSet
<1> QED
  BY <1>1, <1>2, <1>3, <1>4 DEF Next

(* The inductive invariant holds in every reachable state. *)
THEOREM Invariance == Spec => []IInv
  BY InitInv, NextInv, PTL DEF Spec

(* The variables keep their types; no node is twice in the tree. *)
THEOREM TypeCorrect == Spec => []TypeOK
<1>1. IInv => TypeOK
  BY DEF IInv
<1> QED
  BY <1>1, Invariance, PTL

(* Whatever the width of the words, the tree orders the timers by their    *)
(* times, although the words wrap around (ngx_rbtree.c:175).               *)
THEOREM TimersAreOrdered == Spec => []OrderIsTimely
<1>1. IInv => OrderIsTimely
  BY DEF IInv
<1> QED
  BY <1>1, Invariance, PTL

(* A key left alone by ngx_event_add_timer is near the time that was asked *)
(* for (ngx_event_timer.h:87-95).                                          *)
THEOREM KeysAreNear == Spec => []KeyIsNear
<1>1. IInv => KeyIsNear
  BY DEF IInv
<1> QED
  BY <1>1, Invariance, PTL

(* No timer is overdue when the loop is about to wait (ngx_event.c:403).   *)
THEOREM NothingIsOverdue == Spec => []NoneOverdue
<1>1. IInv => NoneOverdue
  BY DEF IInv, NoneOverdue, Ahead, Served
<1> QED
  BY <1>1, Invariance, PTL

(* ngx_event_find_timer finds the time until the first timer               *)
(* (ngx_event_timer.c:55-62).                                              *)
THEOREM WaitIsExact == Spec => []WaitsUntilFirst
<1>1. IInv => WaitsUntilFirst
  <2> SUFFICES ASSUME IInv, stage = "wait", order # << >> PROVE WaitsUntilFirst
    BY DEF WaitsUntilFirst
  <2>1. /\ order[1] \in Events /\ IsSet(order[1])
        /\ \A ev \in Events : IsSet(ev) => at[order[1]] <= at[ev]
    BY FirstIsLeast
  <2>2. now <= at[order[1]] /\ at[order[1]] \in Int /\ now \in Int
    BY <2>1 DEF IInv, Ahead, Served, TypeOK
  <2>3. FindTimer = at[order[1]] - now
    BY <2>2, FindTimerIs
  <2>4. now + FindTimer = at[order[1]]
    BY <2>2, <2>3
  <2> QED
    BY <2>1, <2>4 DEF WaitsUntilFirst
<1> QED
  BY <1>1, Invariance, PTL

(* A timer that the loop takes out of the tree is the first, and the time  *)
(* asked for is less than the lazy delay away (ngx_event_timer.c:91).      *)
THEOREM ExpiryIsInTime == Spec => NeverEarly
<1> DEFINE InTime ==
      \A ev \in Events :
        stage = "expire" /\ IsSet(ev) /\ ~IsSet(ev)' =>
          /\ due[ev] - Lazy < now
          /\ \A other \in Events : IsSet(other) => at[ev] <= at[other]
<1>1. ASSUME IInv, [Next]_vars PROVE InTime
  <2> SUFFICES ASSUME NEW ev \in Events, stage = "expire", IsSet(ev), ~IsSet(ev)'
               PROVE  /\ due[ev] - Lazy < now
                      /\ \A other \in Events : IsSet(other) => at[ev] <= at[other]
    OBVIOUS
  <2>1. order # << >>
    <3>1. PICK i \in DOMAIN order : order[i] = ev
      BY DEF IsSet
    <3> QED
      BY <3>1
  <2>2. Expire
    <3>1. order' # order
      BY DEF IsSet
    <3> QED
      BY <1>1, <3>1 DEF Next, Loop, Wait, SetBack, Handled, HandlerReturns, NoneLeft, Posted,
                  DelTimer, AddTimer, Handling, vars
  <2>3. ev = order[1]
    <3>1. /\ order' \in Seq(Events) /\ Len(order') = Len(order) - 1
          /\ \A j \in 1 .. Len(order') : order'[j] = order[j + 1]
      BY <1>1, <2>1, <2>2, SortedAt, HeadTailProperties DEF Expire
    <3>2. PICK i \in DOMAIN order : order[i] = ev
      BY DEF IsSet
    <3>3. i \in 1 .. Len(order) /\ Len(order) \in Nat /\ DOMAIN order' = 1 .. Len(order')
      BY <1>1, <3>1, <3>2, SortedAt
    <3>4. CASE i # 1
      <4>1. i - 1 \in DOMAIN order' /\ (i - 1) + 1 = i
        BY <3>1, <3>3, <3>4
      <4>2. order'[i - 1] = ev
        BY <3>1, <3>2, <3>3, <4>1
      <4> QED
        BY <4>1, <4>2 DEF IsSet
    <3> QED
      BY <3>2, <3>4
  <2>4. /\ at[ev] \in Int /\ due[ev] \in Int /\ now \in Int
        /\ due[ev] - at[ev] < Lazy
    BY <1>1 DEF IInv, TypeOK, KeyIsNear
  <2>5. at[ev] - now <= 0
    BY <1>1, <2>2, <2>3, InWindowNow DEF Expire
  <2> QED
    BY <1>1, <2>1, <2>3, <2>4, <2>5, FirstIsLeast, TimersAssumption
<1> QED
  BY <1>1, Invariance, PTL DEF Spec, NeverEarly

-----------------------------------------------------------------------------
(* The inductive invariant. *)

Index == 0 .. Slots - 1
Stamp == [first : Nat, second : Nat]
Slot == [sec : Nat, msec : Nat, http : Stamp, log : Stamp]

TimesType ==
  [slot : Index, lock : BOOLEAN,
   at : {"idle", "http1", "http2", "log1", "log2", "publish", "publish http", "publish log"},
   signal : {"none", "log1", "log2", "publish"},
   clock : Stamp, seen : Stamp, sigseen : Nat, current : Stamp,
   slots : [Index -> Slot],
   ptr : [clock : Index, http : Index, log : Index], taken : Nat,
   born : [clock : Nat, http : Nat, log : Nat],
   reader : [at : {"idle", "first", "second", "done"}, kind : Texts, slot : Index,
             born : Nat, first : Nat, second : Nat],
   backs : Nat]

(* A slot that was taken as the one of number `born` still is that one, as *)
(* long as fewer than all slots were taken since, and it lies as far back. *)
Lies(place, born) ==
  /\ born <= times.taken
  /\ ~GoneAround(born) =>
       \/ place = times.slot - (times.taken - born)
       \/ place = times.slot - (times.taken - born) + Slots

PlacesOK ==
  /\ Lies(times.ptr.clock, times.born.clock)
  /\ Lies(times.ptr.http, times.born.http)
  /\ Lies(times.ptr.log, times.born.log)
  /\ times.reader.at # "idle" => Lies(times.reader.slot, times.reader.born)

(* One of the two is at work, and then the lock is taken. *)
LockOK ==
  /\ times.lock = (times.at # "idle" \/ times.signal # "none")
  /\ times.at = "idle" \/ times.signal = "none"

(* What the worker has written so far, in a slot not yet published. *)
WorkerOK ==
  LET slot == times.slots[times.slot]
  IN /\ times.at # "idle" =>
          slot.sec = times.seen.first /\ slot.msec = times.seen.second /\ times.current = times.seen
     /\ times.at = "http2" => slot.http.first = times.seen.first
     /\ times.at \in {"log1", "log2", "publish", "publish http", "publish log"} =>
          slot.http = Text(times.seen.first, times.seen.first)
     /\ times.at = "log2" => slot.log.first = times.seen.first
     /\ times.at \in {"publish", "publish http", "publish log"} => slot.log.first = slot.log.second
     /\ times.at \in {"http1", "http2"} => times.born.http < times.taken
     /\ times.at \in {"http1", "http2", "log1", "log2"} => times.born.log < times.taken
     /\ times.at \in {"publish http", "publish log"} => times.born.clock = times.taken

(* The same for the handler of the signal; its slot has no second.         *)
SignalOK ==
  LET slot == times.slots[times.slot]
  IN /\ times.signal = "log2" => slot.log.first = times.sigseen
     /\ times.signal = "publish" => slot.log.first = slot.log.second
     /\ times.signal \in {"log1", "log2"} => times.born.log < times.taken
     /\ times.at = "idle" => times.born.clock = times.taken \/ slot.sec = 0
     /\ times.clock.first >= 1

(* Published texts are whole. *)
PublishedOK ==
  /\ LET http == times.slots[times.ptr.http].http
     IN GoneAround(times.born.http) \/ http.first = http.second
  /\ LET log == times.slots[times.ptr.log].log
     IN GoneAround(times.born.log) \/ log.first = log.second

(* So are those that a thread reads, and it has read one of the halves.    *)
TextReaderOK ==
  LET r == times.reader
      text == times.slots[r.slot][r.kind]
  IN /\ r.at # "idle" => r.born <= times.born[r.kind]
     /\ r.at \in {"first", "second"} => GoneAround(r.born) \/ text.first = text.second
     /\ r.at = "second" => GoneAround(r.born) \/ r.first = text.first

TimesInv ==
  /\ times \in TimesType
  /\ PlacesOK /\ LockOK /\ WorkerOK /\ SignalOK /\ PublishedOK /\ TextReaderOK /\ TimesAreWhole

-----------------------------------------------------------------------------
(* Where the slots lie. *)

(* A slot that was just written is the current one; another is not, before *)
(* all slots were used.                                                    *)
LEMMA PlacesLie ==
  ASSUME times \in TimesType, NEW place \in Index, NEW born \in Nat, Lies(place, born)
  PROVE  /\ born < times.taken => GoneAround(born) \/ place # times.slot
         /\ born = times.taken => place = times.slot
  <1>1. /\ Slots \in Nat /\ Slots >= 2 /\ times.slot \in 0 .. Slots - 1 /\ times.taken \in Nat
        /\ place \in 0 .. Slots - 1
    BY CachedTimeAssumption DEF TimesType, Index
  <1> QED
    BY <1>1 DEF Lies, GoneAround

(* The next slot is none of those that are not gone around then. *)
LEMMA PlacesStay ==
  ASSUME times \in TimesType, NEW place \in Index, NEW born \in Nat, Lies(place, born),
         times'.slot = Following(times.slot), times'.taken = times.taken + 1
  PROVE  Lies(place, born)' /\ (GoneAround(born)' \/ place # times'.slot)
  <1>1. /\ Slots \in Nat /\ Slots >= 2 /\ times.slot \in 0 .. Slots - 1 /\ times.taken \in Nat
        /\ place \in 0 .. Slots - 1
    BY CachedTimeAssumption DEF TimesType, Index
  <1>2. CASE times.slot = Slots - 1
    <2>1. times'.slot = 0
      BY <1>2 DEF Following
    <2> QED
      BY <1>1, <1>2, <2>1 DEF Lies, GoneAround
  <1>3. CASE times.slot # Slots - 1
    <2>1. times'.slot = times.slot + 1
      BY <1>3 DEF Following
    <2> QED
      BY <1>1, <1>3, <2>1 DEF Lies, GoneAround
  <1> QED
    BY <1>2, <1>3

(* ngx_time_init()                                                         *)
LEMMA InitTimes == TimesInit => TimesInv
  <1> SUFFICES ASSUME TimesInit
               PROVE  TimesInv
    OBVIOUS
  <1>1. Slots \in Nat /\ Slots >= 2 /\ 1 \in Index
    BY CachedTimeAssumption DEF Index
  <1>2. times \in TimesType
    BY <1>1 DEF TimesInit, TimesType, Index, Stamp, Slot, SlotOf, Text, Nobody, Texts
  <1>3. /\ times.slot = 1 /\ times.lock = FALSE /\ times.at = "idle" /\ times.signal = "none"
        /\ times.clock.first = 1 /\ times.current = Text(1, 0) /\ times.taken = 1
        /\ times.ptr.clock = 1 /\ times.ptr.http = 1 /\ times.ptr.log = 1
        /\ times.born.clock = 1 /\ times.born.http = 1 /\ times.born.log = 1
        /\ times.reader.at = "idle"
    BY DEF TimesInit, Nobody, Text
  <1>4. times.slots[1] = SlotOf(1, 0)
    BY <1>1 DEF TimesInit
  <1>5. /\ times.slots[1].sec = 1 /\ times.slots[1].msec = 0
        /\ times.slots[1].http = Text(1, 1) /\ times.slots[1].log = Text(1, 1)
    BY <1>4 DEF SlotOf
  <1>6. PlacesOK
    BY <1>1, <1>3 DEF PlacesOK, Lies
  <1>7. LockOK
    BY <1>3 DEF LockOK
  <1>10. WorkerOK
    BY <1>3 DEF WorkerOK
  <1>11. SignalOK
    BY <1>3 DEF SignalOK
  <1>8. PublishedOK /\ TextReaderOK
    BY <1>3, <1>5 DEF PublishedOK, TextReaderOK, Text
  <1>9. TimesAreWhole
    <2>1. TextsAreWhole
      BY <1>3 DEF TextsAreWhole
    <2>2. Text(times.slots[times.ptr.clock].sec, times.slots[times.ptr.clock].msec) = times.current
      BY <1>3, <1>5
    <2>3. times.slots[times.ptr.clock].http = Text(times.slots[times.ptr.clock].sec, times.slots[times.ptr.clock].sec)
      BY <1>3, <1>5
    <2>4. times.lock = (times.signal # "none")
      BY <1>3
    <2> QED
      BY <2>1, <2>2, <2>3, <2>4 DEF TimesAreWhole, ClockIsPublished
  <1> QED
    BY <1>2, <1>6, <1>7, <1>8, <1>9, <1>10, <1>11 DEF TimesInv

(* The clock goes on or back; nothing of the cached time does. *)
LEMMA TickStep ==
  ASSUME TimesInv, Tick
  PROVE  TimesInv'
  <1>1. times \in TimesType
    BY DEF TimesInv
  <1>2. times.clock \in Stamp /\ times.backs \in Nat /\ times.clock.first >= 1
    BY <1>1 DEF TimesType, TimesInv, SignalOK
  <1>3. times'.clock \in Stamp /\ times'.clock.first >= 1 /\ times' \in TimesType
    <2>1. CASE times' = [times EXCEPT !.clock.second = 1]
      BY <1>1, <1>2, <2>1 DEF TimesType, Stamp
    <2>2. CASE times' = [times EXCEPT !.clock = Text(@.first + 1, 0)]
      <3>1. Text(times.clock.first + 1, 0) \in Stamp /\ Text(times.clock.first + 1, 0).first >= 1
        BY <1>2 DEF Text, Stamp
      <3> QED
        BY <1>1, <1>2, <2>2, <3>1 DEF TimesType
    <2>3. CASE times.clock.first > 1 /\ times' = [times EXCEPT !.clock = Text(@.first - 1, 0), !.backs = @ + 1]
      <3>1. Text(times.clock.first - 1, 0) \in Stamp /\ Text(times.clock.first - 1, 0).first >= 1
        BY <1>2, <2>3 DEF Text, Stamp
      <3>2. times.backs + 1 \in Nat
        BY <1>2
      <3>3. times' = [times EXCEPT !.clock = Text(times.clock.first - 1, 0), !.backs = times.backs + 1]
        BY <2>3, Zenon
      <3>4. times' \in TimesType
        BY <1>1, <3>1, <3>2, <3>3 DEF TimesType
      <3>5. times'.clock = Text(times.clock.first - 1, 0)
        BY <1>1, <3>3 DEF TimesType
      <3> QED
        BY <3>1, <3>4, <3>5
    <2> QED
      BY <2>1, <2>2, <2>3 DEF Tick
  <1>4. /\ times'.slot = times.slot /\ times'.lock = times.lock /\ times'.at = times.at
        /\ times'.signal = times.signal /\ times'.seen = times.seen /\ times'.sigseen = times.sigseen
        /\ times'.current = times.current /\ times'.slots = times.slots /\ times'.ptr = times.ptr
        /\ times'.taken = times.taken /\ times'.born = times.born /\ times'.reader = times.reader
    BY <1>1, ZenonT(40) DEF Tick, TimesType
  <1>5. PlacesOK'
    BY <1>4 DEF TimesInv, PlacesOK, Lies, GoneAround
  <1>6. LockOK'
    BY <1>4 DEF TimesInv, LockOK
  <1>7. WorkerOK'
    BY <1>4 DEF TimesInv, WorkerOK
  <1>8. SignalOK'
    BY <1>3, <1>4 DEF TimesInv, SignalOK
  <1>9. PublishedOK'
    BY <1>4 DEF TimesInv, PublishedOK, GoneAround
  <1>10. TextReaderOK'
    BY <1>4 DEF TimesInv, TextReaderOK, GoneAround
  <1>11. TimesAreWhole'
    BY <1>4 DEF TimesInv, TimesAreWhole, TextsAreWhole, ClockIsPublished, GoneAround
  <1> QED
    BY <1>3, <1>5, <1>6, <1>7, <1>8, <1>9, <1>10, <1>11 DEF TimesInv

-----------------------------------------------------------------------------
(* Writing a slot, taking the next one, and publishing. *)

Stays == UNCHANGED << times.slot, times.taken, times.ptr, times.born, times.reader >>

(* What is written to the slot that was taken last disturbs no reader of a *)
(* text that was published before.                                         *)
LEMMA Writing ==
  ASSUME TimesInv, Stays, NEW s \in Slot,
         times'.slots = [times.slots EXCEPT ![times.slot] = s],
         s.http = times.slots[times.slot].http \/ times.born.http < times.taken,
         s.log = times.slots[times.slot].log \/ times.born.log < times.taken
  PROVE  PlacesOK' /\ PublishedOK' /\ TextReaderOK' /\ TextsAreWhole'
  <1>1. times \in TimesType /\ PlacesOK /\ PublishedOK /\ TextReaderOK /\ TextsAreWhole
    BY DEF TimesInv, TimesAreWhole
  <1>2. /\ times.slot \in Index /\ times.taken \in Nat /\ times.slots \in [Index -> Slot]
        /\ times.ptr.clock \in Index /\ times.ptr.http \in Index /\ times.ptr.log \in Index
        /\ times.born.clock \in Nat /\ times.born.http \in Nat /\ times.born.log \in Nat
        /\ times.reader.slot \in Index /\ times.reader.born \in Nat /\ times.reader.kind \in Texts
        /\ times.reader.at \in {"idle", "first", "second", "done"}
    BY <1>1 DEF TimesType
  <1>3. /\ times'.slots[times.slot] = s
        /\ \A i \in Index : i # times.slot => times'.slots[i] = times.slots[i]
    BY <1>2
  <1>4. /\ times'.slot = times.slot /\ times'.taken = times.taken /\ times'.ptr = times.ptr
        /\ times'.born = times.born /\ times'.reader = times.reader
    BY DEF Stays
  <1>5. PlacesOK'
    BY <1>1, <1>4 DEF PlacesOK, Lies, GoneAround
  <1>6. TextsAreWhole'
    BY <1>1, <1>4 DEF TextsAreWhole, GoneAround
  <1>7. /\ GoneAround(times.born.http) \/ times'.slots[times.ptr.http].http = times.slots[times.ptr.http].http
        /\ GoneAround(times.born.log) \/ times'.slots[times.ptr.log].log = times.slots[times.ptr.log].log
    BY <1>1, <1>2, <1>3, PlacesLie DEF PlacesOK
  <1>8. PublishedOK'
    BY <1>1, <1>4, <1>7 DEF PublishedOK, GoneAround
  <1>9. ASSUME times.reader.at \in {"first", "second"}
        PROVE  \/ GoneAround(times.reader.born)
               \/ times'.slots[times.reader.slot][times.reader.kind] = times.slots[times.reader.slot][times.reader.kind]
    <2>1. /\ Lies(times.reader.slot, times.reader.born) /\ times.reader.born <= times.born[times.reader.kind]
      BY <1>1, <1>9 DEF PlacesOK, TextReaderOK
    <2>2. \/ GoneAround(times.reader.born) \/ times.reader.slot # times.slot
          \/ times.reader.born >= times.taken
      BY <1>1, <1>2, <2>1, PlacesLie
    <2>3. CASE times.reader.kind = "http"
      BY <1>2, <1>3, <2>1, <2>2, <2>3
    <2>4. CASE times.reader.kind = "log"
      BY <1>2, <1>3, <2>1, <2>2, <2>4
    <2> QED
      BY <1>2, <2>3, <2>4 DEF Texts
  <1>10. TextReaderOK'
    BY <1>1, <1>4, <1>9 DEF TextReaderOK, GoneAround
  <1> QED
    BY <1>5, <1>6, <1>8, <1>10

(* The next slot is taken; its texts are left alone for now. *)
LEMMA Taking ==
  ASSUME TimesInv, times'.slot = Following(times.slot), times'.taken = times.taken + 1,
         UNCHANGED << times.ptr, times.born, times.reader >>,
         NEW s \in Slot, times'.slots = [times.slots EXCEPT ![times'.slot] = s],
         s.http = times.slots[times'.slot].http, s.log = times.slots[times'.slot].log
  PROVE  /\ PlacesOK' /\ PublishedOK' /\ TextReaderOK' /\ TextsAreWhole'
         /\ GoneAround(times.born.clock)' \/ times'.slots[times.ptr.clock] = times.slots[times.ptr.clock]
         /\ times'.slots[times'.slot] = s
  <1>1. times \in TimesType /\ PlacesOK /\ PublishedOK /\ TextReaderOK /\ TextsAreWhole
    BY DEF TimesInv, TimesAreWhole
  <1>2. /\ times.slot \in Index /\ times.taken \in Nat /\ times.slots \in [Index -> Slot]
        /\ times.ptr.clock \in Index /\ times.ptr.http \in Index /\ times.ptr.log \in Index
        /\ times.born.clock \in Nat /\ times.born.http \in Nat /\ times.born.log \in Nat
        /\ times.reader.slot \in Index /\ times.reader.born \in Nat /\ times.reader.kind \in Texts
        /\ times.reader.at \in {"idle", "first", "second", "done"}
    BY <1>1 DEF TimesType
  <1>3. times'.slot \in Index
    BY <1>2, CachedTimeAssumption DEF Index, Following
  <1>4. /\ times'.slots[times'.slot] = s
        /\ \A i \in Index : i # times'.slot => times'.slots[i] = times.slots[i]
        /\ \A i \in Index : /\ times'.slots[i].http = times.slots[i].http
                            /\ times'.slots[i].log = times.slots[i].log
    BY <1>2, <1>3
  <1>5. times'.ptr = times.ptr /\ times'.born = times.born /\ times'.reader = times.reader
    OBVIOUS
  <1>6. \A born : GoneAround(born) /\ born \in Nat => GoneAround(born)'
    BY <1>2, CachedTimeAssumption DEF GoneAround
  <1>7. \A place \in Index, born \in Nat :
          Lies(place, born) => Lies(place, born)' /\ (GoneAround(born)' \/ place # times'.slot)
    BY <1>1, PlacesStay
  <1>8. PlacesOK'
    BY <1>1, <1>2, <1>5, <1>7 DEF PlacesOK
  <1>9. TextsAreWhole'
    BY <1>1, <1>2, <1>5, <1>6 DEF TextsAreWhole
  <1>10. PublishedOK'
    BY <1>1, <1>2, <1>4, <1>5, <1>6 DEF PublishedOK
  <1>11. times'.slots[times.reader.slot][times.reader.kind] = times.slots[times.reader.slot][times.reader.kind]
    BY <1>2, <1>4 DEF Texts
  <1>12. TextReaderOK'
    BY <1>1, <1>2, <1>5, <1>6, <1>11 DEF TextReaderOK
  <1>13. GoneAround(times.born.clock)' \/ times'.slots[times.ptr.clock] = times.slots[times.ptr.clock]
    BY <1>1, <1>2, <1>4, <1>5, <1>7 DEF PlacesOK
  <1> QED
    BY <1>4, <1>8, <1>9, <1>10, <1>12, <1>13

-----------------------------------------------------------------------------
(* The steps of the worker *)

At == {"idle", "http1", "http2", "log1", "log2", "publish", "publish http", "publish log"}

(* One half of one text is written. *)
LEMMA PrintStep ==
  ASSUME TimesInv, PrintTexts
  PROVE  TimesInv'
  <1> DEFINE old == times.slots[times.slot]
             new == times'.slots[times'.slot]
             Further(kind) == IF kind = "http" THEN "log" ELSE "http"
             Done(from, to, kind, half) ==
               /\ times' \in TimesType /\ Stays /\ times.at = from /\ times'.at = to
               /\ times'.seen = times.seen /\ times'.current = times.current
               /\ PlacesOK' /\ LockOK' /\ SignalOK' /\ PublishedOK' /\ TextReaderOK' /\ TimesAreWhole'
               /\ new.sec = old.sec /\ new.msec = old.msec
               /\ new = [old EXCEPT ![kind][half] = times.seen.first]
               /\ old \in Slot /\ times.seen.first \in Nat
  <1>1. times \in TimesType /\ LockOK /\ WorkerOK /\ SignalOK
    BY DEF TimesInv
  <1>2. ASSUME NEW from \in {"http1", "http2", "log1", "log2"}, NEW to \in At \ {"idle"},
               NEW kind \in Texts, NEW half \in {"first", "second"}, Prints(from, kind, half, to),
               from \in {"http1", "http2"} \/ kind = "log"
        PROVE  Done(from, to, kind, half)
    <2> to \in At
      BY <1>2
    <2>1. PICK s : s = [old EXCEPT ![kind][half] = times.seen.first]
      OBVIOUS
    <2>2. /\ times.slot \in Index /\ times.slots \in [Index -> Slot] /\ old \in Slot
          /\ times.seen.first \in Nat
      BY <1>1 DEF TimesType, Stamp
    <2>3. s \in Slot /\ s.sec = old.sec /\ s.msec = old.msec /\ s[Further(kind)] = old[Further(kind)]
      <3>1. CASE kind = "http"
        BY <2>1, <2>2, <3>1 DEF Slot, Stamp
      <3>2. CASE kind = "log"
        BY <2>1, <2>2, <3>2 DEF Slot, Stamp
      <3> QED
        BY <3>1, <3>2 DEF Texts
    <2>4. /\ times' = [times EXCEPT !.at = to, !.slots = [times.slots EXCEPT ![times.slot] = s]]
          /\ times.signal = "none" /\ times.at = from
      BY <1>1, <1>2, <2>1, <2>2 DEF Prints, Worker, TimesType
    <2>5. times' \in TimesType /\ times'.slots = [times.slots EXCEPT ![times.slot] = s]
      BY <1>1, <2>2, <2>3, <2>4 DEF TimesType, At
    <2>6. /\ Stays /\ times'.at = to
          /\ UNCHANGED << times.lock, times.signal, times.clock, times.seen, times.sigseen, times.current >>
      BY <1>1, <2>4 DEF TimesType, Stays
    <2>7. new = s
      BY <2>2, <2>5, <2>6 DEF Stays
    <2>8. times.born.log < times.taken /\ (kind = "http" => times.born.http < times.taken)
      BY <1>1, <1>2, <2>4 DEF WorkerOK
    <2>9. /\ s.http = old.http \/ times.born.http < times.taken
          /\ s.log = old.log \/ times.born.log < times.taken
      BY <1>2, <2>3, <2>8 DEF Texts
    <2>10. PlacesOK' /\ PublishedOK' /\ TextReaderOK' /\ TextsAreWhole'
      BY <2>3, <2>5, <2>6, <2>9, Writing
    <2>11. LockOK'
      BY <1>1, <1>2, <2>4, <2>6 DEF LockOK
    <2>12. SignalOK'
      BY <1>1, <1>2, <2>4, <2>6 DEF SignalOK
    <2>13. ClockIsPublished'
      BY <1>2, <2>6 DEF ClockIsPublished
    <2> QED
      BY <2>1, <2>2, <2>3, <2>4, <2>5, <2>6, <2>7, <2>10, <2>11, <2>12, <2>13 DEF TimesAreWhole
  <1> HIDE DEF Done
  <1>3. CASE Prints("http1", "http", "first", "http2")
    <2>1. Done("http1", "http2", "http", "first")
      BY <1>2, <1>3 DEF At, Texts
    <2>2. new.http.first = times.seen.first
      BY <2>1 DEF Done, Slot, Stamp
    <2>3. WorkerOK'
      BY <1>1, <2>1, <2>2 DEF Done, WorkerOK, Stays
    <2> QED
      BY <2>1, <2>3 DEF Done, TimesInv
  <1>4. CASE Prints("http2", "http", "second", "log1")
    <2>1. Done("http2", "log1", "http", "second")
      BY <1>2, <1>4 DEF At, Texts
    <2>2. /\ new.http.second = times.seen.first /\ new.http.first = old.http.first
          /\ new.http \in Stamp
      BY <2>1 DEF Done, Slot, Stamp
    <2>3. new.http = Text(times.seen.first, times.seen.first)
      BY <1>1, <2>1, <2>2 DEF Done, WorkerOK, Stamp, Text
    <2>4. WorkerOK'
      BY <1>1, <2>1, <2>2, <2>3 DEF Done, WorkerOK, Stays
    <2> QED
      BY <2>1, <2>4 DEF Done, TimesInv
  <1>5. CASE Prints("log1", "log", "first", "log2")
    <2>1. Done("log1", "log2", "log", "first")
      BY <1>2, <1>5 DEF At, Texts
    <2>2. new.log.first = times.seen.first /\ new.http = old.http
      BY <2>1 DEF Done, Slot, Stamp
    <2>3. WorkerOK'
      BY <1>1, <2>1, <2>2 DEF Done, WorkerOK, Stays
    <2> QED
      BY <2>1, <2>3 DEF Done, TimesInv
  <1>6. CASE Prints("log2", "log", "second", "publish")
    <2>1. Done("log2", "publish", "log", "second")
      BY <1>2, <1>6 DEF At, Texts
    <2>2. /\ new.log.second = times.seen.first /\ new.log.first = old.log.first
          /\ new.http = old.http
      BY <2>1 DEF Done, Slot, Stamp
    <2>3. WorkerOK'
      BY <1>1, <2>1, <2>2 DEF Done, WorkerOK, Stays
    <2> QED
      BY <2>1, <2>3 DEF Done, TimesInv
  <1> QED
    BY <1>3, <1>4, <1>5, <1>6 DEF PrintTexts

(* Within the second the milliseconds change, else the next slot is taken. *)
LEMMA UpdateStep ==
  ASSUME TimesInv, TimeUpdate
  PROVE  TimesInv'
  <1> DEFINE seenNow == times.clock
             next == Following(times.slot)
             old == times.slots[times.slot]
  <1>1. /\ times \in TimesType /\ PlacesOK /\ LockOK /\ WorkerOK /\ SignalOK /\ ClockIsPublished
        /\ times.signal = "none" /\ times.at = "idle"
    BY DEF TimesInv, TimesAreWhole, TimeUpdate, Worker
  <1>2. /\ seenNow \in Stamp /\ seenNow.first \in Nat /\ seenNow.second \in Nat /\ seenNow.first >= 1
        /\ times.slot \in Index /\ times.slots \in [Index -> Slot] /\ old \in Slot /\ times.taken \in Nat
        /\ times.ptr.clock \in Index /\ times.born.clock \in Nat
        /\ times.lock = FALSE
    BY <1>1 DEF TimesType, Stamp, SignalOK, TimeUpdate
  <1>3. next \in Index
    BY <1>2, CachedTimeAssumption DEF Index, Following
  <1>4. CASE old.sec = seenNow.first
    <2>1. times' = [times EXCEPT !.current = seenNow, !.slots[times.slot].msec = seenNow.second]
      BY <1>4 DEF TimeUpdate
    <2>2. PICK s : s = [old EXCEPT !.msec = seenNow.second]
      OBVIOUS
    <2>3. /\ s \in Slot /\ s.sec = old.sec /\ s.msec = seenNow.second /\ s.http = old.http /\ s.log = old.log
      BY <1>2, <2>2 DEF Slot
    <2>4. times' = [times EXCEPT !.current = seenNow, !.slots = [times.slots EXCEPT ![times.slot] = s]]
      BY <1>1, <1>2, <2>1, <2>2 DEF TimesType
    <2>5. times' \in TimesType /\ times'.slots = [times.slots EXCEPT ![times.slot] = s]
      BY <1>1, <1>2, <2>3, <2>4 DEF TimesType
    <2>6. /\ Stays /\ times'.current = seenNow
          /\ UNCHANGED << times.lock, times.at, times.signal, times.clock, times.seen, times.sigseen >>
      BY <1>1, <2>4 DEF TimesType, Stays
    <2>7. PlacesOK' /\ PublishedOK' /\ TextReaderOK' /\ TextsAreWhole'
      BY <2>3, <2>5, <2>6, Writing
    <2>8. LockOK'
      BY <1>1, <2>6 DEF LockOK
    <2>9. times'.slots[times.slot] = s /\ times.born.clock = times.taken /\ times.ptr.clock = times.slot
      <3>1. times.born.clock = times.taken
        BY <1>1, <1>2, <1>4 DEF SignalOK
      <3>2. times.ptr.clock = times.slot
        BY <1>1, <1>2, <3>1, PlacesLie DEF PlacesOK
      <3> QED
        BY <1>2, <2>5, <3>1, <3>2
    <2>10. WorkerOK' /\ SignalOK'
      BY <1>1, <1>2, <2>6, <2>9 DEF WorkerOK, SignalOK, Stays
    <2>11. ClockIsPublished'
      <3>1. old.http = Text(old.sec, old.sec)
        BY <1>1, <1>2, <2>9, CachedTimeAssumption DEF ClockIsPublished, GoneAround
      <3>2. Text(s.sec, s.msec) = seenNow
        BY <1>2, <1>4, <2>3 DEF Text, Stamp
      <3>3. /\ times'.slots[times'.ptr.clock] = s /\ times'.current = seenNow
            /\ times'.lock = FALSE /\ times'.signal = "none"
        BY <1>1, <1>2, <2>6, <2>9 DEF Stays
      <3>4. times'.lock = (times'.signal # "none")
        BY <3>3
      <3> QED
        BY <2>3, <3>1, <3>2, <3>3, <3>4 DEF ClockIsPublished
    <2> QED
      BY <2>5, <2>7, <2>8, <2>10, <2>11 DEF TimesInv, TimesAreWhole
  <1>5. CASE old.sec # seenNow.first
    <2>1. times' = [times EXCEPT !.current = seenNow, !.seen = seenNow, !.lock = TRUE, !.at = "http1",
                     !.slot = next, !.taken = @ + 1,
                     !.slots[next].sec = seenNow.first, !.slots[next].msec = seenNow.second]
      BY <1>5 DEF TimeUpdate
    <2>2. PICK s : s = [times.slots[next] EXCEPT !.sec = seenNow.first, !.msec = seenNow.second]
      OBVIOUS
    <2>3. /\ s \in Slot /\ s.sec = seenNow.first /\ s.msec = seenNow.second
          /\ s.http = times.slots[next].http /\ s.log = times.slots[next].log
      BY <1>2, <1>3, <2>2 DEF Slot
    <2>4. times' = [times EXCEPT !.current = seenNow, !.seen = seenNow, !.lock = TRUE, !.at = "http1",
                     !.slot = next, !.taken = times.taken + 1,
                     !.slots = [times.slots EXCEPT ![next] = s]]
      <3>1. [times.slots EXCEPT ![next].sec = seenNow.first, ![next].msec = seenNow.second]
              = [times.slots EXCEPT ![next] = s]
        BY <1>2, <1>3, <2>2 DEF Slot
      <3>2. PICK r : r = [times EXCEPT !.current = seenNow, !.seen = seenNow, !.lock = TRUE, !.at = "http1",
                                       !.slot = next, !.taken = times.taken + 1]
        OBVIOUS
      <3>3. times' = [r EXCEPT !.slots[next].sec = seenNow.first, !.slots[next].msec = seenNow.second]
        BY <2>1, <3>2, Zenon
      <3>4. r.slots = times.slots /\ r \in TimesType
        <4>1. times.taken + 1 \in Nat
          BY <1>2
        <4> QED
          BY <1>1, <1>2, <1>3, <3>2, <4>1 DEF TimesType
      <3>5. times' = [r EXCEPT !.slots = [times.slots EXCEPT ![next] = s]]
        BY <1>2, <1>3, <3>1, <3>3, <3>4 DEF TimesType
      <3> QED
        BY <3>2, <3>5, Zenon
    <2>5. times' \in TimesType /\ times'.slots = [times.slots EXCEPT ![next] = s]
      <3>1. times.taken + 1 \in Nat /\ [times.slots EXCEPT ![next] = s] \in [Index -> Slot]
        <4>1. times.taken + 1 \in Nat
          BY <1>2
        <4>2. [times.slots EXCEPT ![next] = s] \in [Index -> Slot]
          BY <1>2, <1>3, <2>3
        <4> QED
          BY <4>1, <4>2
      <3>2. PICK f : f = [times.slots EXCEPT ![next] = s]
        OBVIOUS
      <3>3. times' = [times EXCEPT !.current = seenNow, !.seen = seenNow, !.lock = TRUE, !.at = "http1",
                        !.slot = next, !.taken = times.taken + 1, !.slots = f]
        BY <2>4, <3>2, Zenon
      <3>4. f \in [Index -> Slot]
        BY <3>1, <3>2
      <3> QED
        BY <1>1, <1>2, <1>3, <3>1, <3>2, <3>3, <3>4 DEF TimesType
    <2>6. /\ times'.slot = next /\ times'.taken = times.taken + 1 /\ times'.current = seenNow /\ times'.seen = seenNow
          /\ times'.lock = TRUE /\ times'.at = "http1"
          /\ UNCHANGED << times.ptr, times.born, times.reader, times.signal, times.clock, times.sigseen >>
      BY <1>1, <2>4 DEF TimesType
    <2>7. /\ PlacesOK' /\ PublishedOK' /\ TextReaderOK' /\ TextsAreWhole' /\ times'.slots[times'.slot] = s
      BY <2>3, <2>5, <2>6, Taking
    <2>8. LockOK'
      BY <1>1, <2>6 DEF LockOK
    <2>9. times.born.http < times.taken + 1 /\ times.born.log < times.taken + 1
      <3>1. times.born.http \in Nat /\ times.born.log \in Nat
        BY <1>1 DEF TimesType
      <3>2. times.born.http <= times.taken /\ times.born.log <= times.taken
        BY <1>1 DEF PlacesOK, Lies
      <3> QED
        BY <1>2, <3>1, <3>2
    <2>10. WorkerOK' /\ SignalOK'
      BY <1>1, <1>2, <2>3, <2>6, <2>7, <2>9 DEF WorkerOK, SignalOK
    <2>11. ClockIsPublished'
      BY <2>6 DEF ClockIsPublished
    <2> QED
      BY <2>5, <2>7, <2>8, <2>10, <2>11 DEF TimesInv, TimesAreWhole
  <1> QED
    BY <1>4, <1>5

(* A pointer is set to the slot that is filled. *)
LEMMA Publishing ==
  ASSUME TimesInv, NEW what \in {"clock", "http", "log"},
         UNCHANGED << times.slot, times.taken, times.slots, times.reader >>,
         times'.ptr = [times.ptr EXCEPT ![what] = times.slot],
         times'.born = [times.born EXCEPT ![what] = times.taken],
         what \in Texts => times.slots[times.slot][what].first = times.slots[times.slot][what].second
  PROVE  /\ PlacesOK' /\ PublishedOK' /\ TextReaderOK' /\ TextsAreWhole'
         /\ times'.ptr[what] = times.slot /\ times'.born[what] = times.taken
         /\ \A k \in {"clock", "http", "log"} \ {what} :
              times'.ptr[k] = times.ptr[k] /\ times'.born[k] = times.born[k]
  <1>1. times \in TimesType /\ PlacesOK /\ PublishedOK /\ TextReaderOK /\ TextsAreWhole
    BY DEF TimesInv, TimesAreWhole
  <1>2. /\ times.slot \in Index /\ times.taken \in Nat
        /\ times.ptr \in [clock : Index, http : Index, log : Index]
        /\ times.born \in [clock : Nat, http : Nat, log : Nat]
        /\ times.reader.born \in Nat /\ times.reader.kind \in Texts
    BY <1>1 DEF TimesType
  <1>3. /\ times'.ptr[what] = times.slot /\ times'.born[what] = times.taken
        /\ \A k \in {"clock", "http", "log"} \ {what} :
              times'.ptr[k] = times.ptr[k] /\ times'.born[k] = times.born[k]
    BY <1>2
  <1>4. /\ times'.slot = times.slot /\ times'.taken = times.taken /\ times'.slots = times.slots
        /\ times'.reader = times.reader
    OBVIOUS
  <1>5. Lies(times.slot, times.taken)
    <2>1. times.slot \in Int /\ times.taken \in Int
      BY <1>2, CachedTimeAssumption DEF Index
    <2>2. \A m, n \in Int : n <= n /\ m = m - (n - n)
      OBVIOUS
    <2> QED
      BY <2>1, <2>2 DEF Lies
  <1>6. \A k \in {"clock", "http", "log"} : Lies(times.ptr[k], times.born[k])'
    <2> SUFFICES ASSUME NEW k \in {"clock", "http", "log"}
                 PROVE  Lies(times.ptr[k], times.born[k])'
      OBVIOUS
    <2>1. CASE k = what
      BY <1>3, <1>4, <1>5, <2>1 DEF Lies, GoneAround
    <2>2. CASE k # what
      <3>1. Lies(times.ptr[k], times.born[k])
        BY <1>1 DEF PlacesOK
      <3> QED
        BY <1>3, <1>4, <2>2, <3>1 DEF Lies, GoneAround
    <2> QED
      BY <2>1, <2>2
  <1>7. PlacesOK'
    <2>1. times'.reader.at # "idle" => Lies(times.reader.slot, times.reader.born)'
      BY <1>1, <1>4 DEF PlacesOK, Lies, GoneAround
    <2> QED
      BY <1>6, <2>1 DEF PlacesOK
  <1>8. TextsAreWhole'
    BY <1>1, <1>4 DEF TextsAreWhole, GoneAround
  <1>9. \A k \in Texts : GoneAround(times.born[k])' \/
          times'.slots[times'.ptr[k]][k].first = times'.slots[times'.ptr[k]][k].second
    <2> SUFFICES ASSUME NEW k \in Texts
                 PROVE  GoneAround(times.born[k])' \/
                          times'.slots[times'.ptr[k]][k].first = times'.slots[times'.ptr[k]][k].second
      OBVIOUS
    <2>1. CASE k = what
      BY <1>3, <1>4, <2>1
    <2>2. CASE k # what
      <3>1. GoneAround(times.born[k]) \/ times.slots[times.ptr[k]][k].first = times.slots[times.ptr[k]][k].second
        BY <1>1 DEF PublishedOK, Texts
      <3> QED
        BY <1>3, <1>4, <2>2, <3>1 DEF GoneAround, Texts
    <2> QED
      BY <2>1, <2>2
  <1>10. PublishedOK'
    BY <1>9 DEF PublishedOK, Texts
  <1>11. times.reader.at # "idle" => times.reader.born <= times'.born[times.reader.kind]
    <2>1. CASE times.reader.kind = what
      BY <1>1, <1>2, <1>3, <2>1 DEF PlacesOK, Lies
    <2>2. CASE times.reader.kind # what
      <3>1. times'.born[times.reader.kind] = times.born[times.reader.kind]
        BY <1>2, <1>3, <2>2 DEF Texts
      <3> QED
        BY <1>1, <3>1 DEF TextReaderOK
    <2> QED
      BY <2>1, <2>2
  <1>12. TextReaderOK'
    BY <1>1, <1>4, <1>11 DEF TextReaderOK, GoneAround
  <1> QED
    BY <1>3, <1>7, <1>8, <1>10, <1>12

(* ngx_time_update() moves the pointers to the slot that it wrote.         *)
LEMMA PublishStep ==
  ASSUME TimesInv, PublishAll
  PROVE  TimesInv'
  <1> DEFINE cell == times.slots[times.slot]
             Done(from, what, to) ==
               /\ times' \in TimesType /\ times.at = from /\ times'.at = to
               /\ UNCHANGED << times.slot, times.taken, times.slots, times.reader, times.signal, times.clock,
                               times.seen, times.sigseen, times.current >>
               /\ times.signal = "none" /\ times'.lock = (to # "idle")
               /\ PlacesOK' /\ PublishedOK' /\ TextReaderOK' /\ TextsAreWhole'
               /\ times'.ptr[what] = times.slot /\ times'.born[what] = times.taken
               /\ \A k \in {"clock", "http", "log"} \ {what} :
                    times'.ptr[k] = times.ptr[k] /\ times'.born[k] = times.born[k]
  <1>1. times \in TimesType /\ PlacesOK /\ LockOK /\ WorkerOK /\ SignalOK
    BY DEF TimesInv
  <1>2. ASSUME NEW from, NEW what \in {"clock", "http", "log"}, NEW to \in At, Publish(from, what, to),
               what \in Texts => cell[what].first = cell[what].second
        PROVE  Done(from, what, to)
    <2>1. /\ times.slot \in Index /\ times.taken \in Nat
          /\ times.ptr \in [clock : Index, http : Index, log : Index]
          /\ times.born \in [clock : Nat, http : Nat, log : Nat]
      BY <1>1 DEF TimesType
    <2>2. PICK p \in [clock : Index, http : Index, log : Index] : p = [times.ptr EXCEPT ![what] = times.slot]
      BY <2>1
    <2>3. PICK b \in [clock : Nat, http : Nat, log : Nat] : b = [times.born EXCEPT ![what] = times.taken]
      BY <2>1
    <2>4. PICK l \in BOOLEAN : l = (to # "idle")
      OBVIOUS
    <2>5. times' = [times EXCEPT !.at = to, !.ptr = p, !.born = b, !.lock = l]
      BY <1>1, <1>2, <2>2, <2>3, <2>4 DEF Publish, TimesType
    <2>6. times' \in TimesType /\ times'.ptr = p /\ times'.born = b /\ times'.lock = l /\ times'.at = to
      BY <1>1, <1>2, <2>5 DEF TimesType, At
    <2>7. /\ UNCHANGED << times.slot, times.taken, times.slots, times.reader, times.signal, times.clock,
                          times.seen, times.sigseen, times.current >>
      BY <1>1, <2>5 DEF TimesType
    <2>8. /\ PlacesOK' /\ PublishedOK' /\ TextReaderOK' /\ TextsAreWhole'
          /\ times'.ptr[what] = times.slot /\ times'.born[what] = times.taken
          /\ \A k \in {"clock", "http", "log"} \ {what} :
               times'.ptr[k] = times.ptr[k] /\ times'.born[k] = times.born[k]
      BY <1>2, <2>2, <2>3, <2>6, <2>7, Publishing
    <2>9. times.signal = "none" /\ times.at = from
      BY <1>2 DEF Publish, Worker
    <2>10. times'.lock = (to # "idle")
      BY <2>4, <2>6
    <2> QED
      BY <2>6, <2>7, <2>8, <2>9, <2>10
  <1>3. CASE Publish("publish", "clock", "publish http")
    <2>1. Done("publish", "clock", "publish http")
      BY <1>2, <1>3 DEF At, Texts
    <2>2. LockOK'
      BY <2>1 DEF LockOK
    <2>3. WorkerOK'
      BY <1>1, <2>1 DEF WorkerOK
    <2>4. SignalOK'
      BY <1>1, <2>1 DEF SignalOK
    <2> QED
      BY <2>1, <2>2, <2>3, <2>4 DEF TimesInv, TimesAreWhole, ClockIsPublished
  <1>4. CASE Publish("publish http", "http", "publish log")
    <2>1. cell.http.first = cell.http.second
      <3>1. cell.http = Text(times.seen.first, times.seen.first)
        BY <1>1, <1>4 DEF Publish, Worker, WorkerOK
      <3>2. \A n : Text(n, n).first = Text(n, n).second
        BY DEF Text
      <3> QED
        BY <3>1, <3>2
    <2>2. Done("publish http", "http", "publish log")
      BY <1>2, <1>4, <2>1 DEF At, Texts
    <2>3. LockOK'
      BY <2>2 DEF LockOK
    <2>4. WorkerOK'
      BY <1>1, <2>2 DEF WorkerOK
    <2>5. SignalOK'
      BY <1>1, <2>2 DEF SignalOK
    <2> QED
      BY <2>2, <2>3, <2>4, <2>5 DEF TimesInv, TimesAreWhole, ClockIsPublished
  <1>5. CASE Publish("publish log", "log", "idle")
    <2>1. cell.log.first = cell.log.second
      BY <1>1, <1>5 DEF Publish, Worker, WorkerOK
    <2>2. Done("publish log", "log", "idle")
      BY <1>2, <1>5, <2>1 DEF At, Texts
    <2>3. LockOK'
      BY <2>2 DEF LockOK
    <2>4. WorkerOK'
      BY <1>1, <2>2 DEF WorkerOK
    <2>5. SignalOK'
      BY <1>1, <2>2 DEF SignalOK, WorkerOK
    <2>6. times.ptr.clock = times.slot
      <3>1. times.born.clock = times.taken /\ times.ptr.clock \in Index /\ times.born.clock \in Nat
        BY <1>1, <2>2 DEF WorkerOK, TimesType
      <3> QED
        BY <1>1, <3>1, PlacesLie DEF PlacesOK
    <2>7. /\ cell.sec = times.seen.first /\ cell.msec = times.seen.second /\ times.current = times.seen
          /\ cell.http = Text(cell.sec, cell.sec) /\ times.seen \in Stamp
      BY <1>1, <2>2 DEF WorkerOK, TimesType
    <2>8. Text(cell.sec, cell.msec) = times.current
      BY <2>7 DEF Text, Stamp
    <2>9. ClockIsPublished'
      <3>1. times'.slots[times'.ptr.clock] = cell
        BY <2>2, <2>6
      <3>2. times'.lock = (times'.signal # "none")
        BY <2>2
      <3> QED
        BY <2>2, <2>7, <2>8, <3>1, <3>2 DEF ClockIsPublished
    <2> QED
      BY <2>2, <2>3, <2>4, <2>5, <2>9 DEF TimesInv, TimesAreWhole
  <1> QED
    BY <1>3, <1>4, <1>5 DEF PublishAll

-----------------------------------------------------------------------------
(* The steps of the handler of a signal *)

(* ngx_time_sigsafe_update() finds the lock free, and a new second.        *)
LEMMA SigsafeUpdateStep ==
  ASSUME TimesInv, SigsafeUpdate
  PROVE  TimesInv'
  <1> DEFINE seenNow == times.clock
             next == Following(times.slot)
  <1>1. /\ times \in TimesType /\ PlacesOK /\ LockOK /\ WorkerOK /\ SignalOK /\ ClockIsPublished
        /\ times.signal = "none" /\ times.at = "idle"
    BY DEF TimesInv, TimesAreWhole, SigsafeUpdate, LockOK
  <1>2. /\ seenNow.first \in Nat
        /\ times.slot \in Index /\ times.slots \in [Index -> Slot] /\ times.taken \in Nat
        /\ times.taken + 1 \in Nat
    <2>1. times.taken \in Nat
      BY <1>1 DEF TimesType
    <2>2. times.taken + 1 \in Nat
      BY <2>1
    <2>3. seenNow.first \in Nat /\ times.slot \in Index /\ times.slots \in [Index -> Slot]
      BY <1>1 DEF TimesType, Stamp
    <2> QED
      BY <2>1, <2>2, <2>3
  <1>3. next \in Index
    BY <1>2, CachedTimeAssumption DEF Index, Following
  <1>4. times' = [times EXCEPT !.signal = "log1", !.lock = TRUE, !.slot = next, !.taken = @ + 1,
                               !.sigseen = seenNow.first, !.slots[next].sec = 0]
    BY DEF SigsafeUpdate
  <1>5. PICK s : s = [times.slots[next] EXCEPT !.sec = 0]
    OBVIOUS
  <1>6. s \in Slot /\ s.sec = 0 /\ s.http = times.slots[next].http /\ s.log = times.slots[next].log
    BY <1>2, <1>3, <1>5 DEF Slot
  <1>7. times' = [times EXCEPT !.signal = "log1", !.lock = TRUE, !.slot = next, !.taken = times.taken + 1,
                               !.sigseen = seenNow.first, !.slots = [times.slots EXCEPT ![next] = s]]
    BY <1>1, <1>2, <1>3, <1>4, <1>5 DEF TimesType
  <1>8. times' \in TimesType /\ times'.slots = [times.slots EXCEPT ![next] = s]
    BY <1>1, <1>2, <1>3, <1>6, <1>7 DEF TimesType
  <1>9. /\ times'.slot = next /\ times'.taken = times.taken + 1 /\ times'.lock = TRUE /\ times'.signal = "log1"
        /\ UNCHANGED << times.ptr, times.born, times.reader, times.at, times.clock, times.seen, times.current >>
    BY <1>1, <1>7 DEF TimesType
  <1>10. /\ PlacesOK' /\ PublishedOK' /\ TextReaderOK' /\ TextsAreWhole' /\ times'.slots[times'.slot] = s
         /\ GoneAround(times.born.clock)' \/ times'.slots[times.ptr.clock] = times.slots[times.ptr.clock]
    BY <1>6, <1>8, <1>9, Taking
  <1>11. LockOK'
    BY <1>1, <1>9 DEF LockOK
  <1>12. WorkerOK'
    BY <1>1, <1>9 DEF WorkerOK
  <1>13. SignalOK'
    <2>1. times.born.log \in Nat /\ times.born.log <= times.taken
      BY <1>1 DEF PlacesOK, Lies, TimesType
    <2>2. times.born.log < times.taken + 1
      BY <1>2, <2>1
    <2> QED
      BY <1>1, <1>6, <1>9, <1>10, <2>2 DEF SignalOK
  <1>14. ClockIsPublished'
    <2>1. GoneAround(times.born.clock) => GoneAround(times.born.clock)'
      <3>1. times.born.clock \in Nat /\ times'.born.clock = times.born.clock
        BY <1>1, <1>9 DEF TimesType
      <3> QED
        BY <1>2, <1>9, <3>1, CachedTimeAssumption DEF GoneAround
    <2>2. times'.lock = (times'.signal # "none")
      BY <1>9
    <2> QED
      BY <1>1, <1>9, <1>10, <2>1, <2>2 DEF ClockIsPublished
  <1> QED
    BY <1>8, <1>10, <1>11, <1>12, <1>13, <1>14 DEF TimesInv, TimesAreWhole

(* It writes the text of the log.                                          *)
LEMMA SigsafePrintStep ==
  ASSUME TimesInv,
         SigsafePrints("log1", "first", "log2") \/ SigsafePrints("log2", "second", "publish")
  PROVE  TimesInv'
  <1> DEFINE old == times.slots[times.slot]
             new == times'.slots[times'.slot]
             Done(from, to, half) ==
               /\ times' \in TimesType /\ Stays /\ times.signal = from /\ times'.signal = to
               /\ times.at = "idle" /\ times'.at = "idle" /\ times'.sigseen = times.sigseen /\ times'.clock = times.clock
               /\ PlacesOK' /\ LockOK' /\ WorkerOK' /\ PublishedOK' /\ TextReaderOK' /\ TimesAreWhole'
               /\ new.sec = old.sec
               /\ new.log = [old.log EXCEPT ![half] = times.sigseen]
               /\ old.log \in Stamp
  <1>1. /\ times \in TimesType /\ LockOK /\ WorkerOK /\ SignalOK /\ ClockIsPublished
    BY DEF TimesInv, TimesAreWhole
  <1>2. ASSUME NEW from \in {"log1", "log2"}, NEW half \in {"first", "second"}, NEW to \in {"log2", "publish"},
               SigsafePrints(from, half, to)
        PROVE  Done(from, to, half)
    <2>1. PICK s : s = [old EXCEPT !.log[half] = times.sigseen]
      OBVIOUS
    <2>2. /\ times.slot \in Index /\ times.slots \in [Index -> Slot] /\ old \in Slot /\ old.log \in Stamp
          /\ times.sigseen \in Nat /\ times.ptr.clock \in Index
      BY <1>1 DEF TimesType, Slot
    <2>3. /\ s \in Slot /\ s.sec = old.sec /\ s.msec = old.msec /\ s.http = old.http
          /\ s.log = [old.log EXCEPT ![half] = times.sigseen]
      BY <2>1, <2>2 DEF Slot, Stamp
    <2>4. /\ times' = [times EXCEPT !.signal = to, !.slots = [times.slots EXCEPT ![times.slot] = s]]
          /\ times.signal = from
      BY <1>1, <1>2, <2>1, <2>2 DEF SigsafePrints, TimesType
    <2>5. times' \in TimesType /\ times'.slots = [times.slots EXCEPT ![times.slot] = s]
      BY <1>1, <2>2, <2>3, <2>4 DEF TimesType
    <2>6. /\ Stays /\ times'.signal = to
          /\ UNCHANGED << times.lock, times.at, times.clock, times.seen, times.sigseen, times.current >>
      BY <1>1, <2>4 DEF TimesType, Stays
    <2>7. new = s
      BY <2>2, <2>5, <2>6 DEF Stays
    <2>8. times.born.log < times.taken /\ times.at = "idle"
      BY <1>1, <1>2, <2>4 DEF SignalOK, LockOK
    <2>9. PlacesOK' /\ PublishedOK' /\ TextReaderOK' /\ TextsAreWhole'
      BY <2>3, <2>5, <2>6, <2>8, Writing
    <2>10. LockOK' /\ WorkerOK'
      <3>1. LockOK'
        BY <1>1, <1>2, <2>4, <2>6 DEF LockOK
      <3>2. WorkerOK'
        BY <2>6, <2>8 DEF WorkerOK
      <3> QED
        BY <3>1, <3>2
    <2>11. ClockIsPublished'
      <3>1. /\ times'.slots[times.ptr.clock].sec = times.slots[times.ptr.clock].sec
            /\ times'.slots[times.ptr.clock].msec = times.slots[times.ptr.clock].msec
            /\ times'.slots[times.ptr.clock].http = times.slots[times.ptr.clock].http
        BY <2>2, <2>3, <2>5
      <3>2. times'.lock = (times'.signal # "none")
        BY <1>1, <1>2, <2>4, <2>6, <2>8 DEF ClockIsPublished
      <3> QED
        BY <1>1, <2>6, <2>8, <3>1, <3>2 DEF ClockIsPublished, Stays, GoneAround
    <2> QED
      BY <2>2, <2>3, <2>4, <2>5, <2>6, <2>7, <2>8, <2>9, <2>10, <2>11 DEF TimesAreWhole
  <1> HIDE DEF Done
  <1>3. CASE SigsafePrints("log1", "first", "log2")
    <2>1. Done("log1", "log2", "first")
      BY <1>2, <1>3
    <2>2. new.log.first = times.sigseen
      BY <2>1 DEF Done, Stamp
    <2>3. SignalOK'
      BY <1>1, <2>1, <2>2 DEF Done, SignalOK, Stays
    <2> QED
      BY <2>1, <2>3 DEF Done, TimesInv
  <1>4. CASE SigsafePrints("log2", "second", "publish")
    <2>1. Done("log2", "publish", "second")
      BY <1>2, <1>4
    <2>2. new.log.first = old.log.first /\ new.log.second = times.sigseen
      BY <2>1 DEF Done, Stamp
    <2>3. SignalOK'
      BY <1>1, <2>1, <2>2 DEF Done, SignalOK, Stays, LockOK
    <2> QED
      BY <2>1, <2>3 DEF Done, TimesInv
  <1> QED
    BY <1>3, <1>4

(* It moves the pointer of the log.                                        *)
LEMMA SigsafePublishStep ==
  ASSUME TimesInv, SigsafePublish
  PROVE  TimesInv'
  <1>1. /\ times \in TimesType /\ LockOK /\ WorkerOK /\ SignalOK /\ ClockIsPublished
        /\ times.signal = "publish" /\ times.at = "idle"
    BY DEF TimesInv, TimesAreWhole, SigsafePublish, LockOK
  <1>2. /\ times.slot \in Index /\ times.taken \in Nat
        /\ times.ptr \in [clock : Index, http : Index, log : Index]
        /\ times.born \in [clock : Nat, http : Nat, log : Nat]
    BY <1>1 DEF TimesType
  <1>3. PICK p \in [clock : Index, http : Index, log : Index] : p = [times.ptr EXCEPT !.log = times.slot]
    BY <1>2
  <1>4. PICK b \in [clock : Nat, http : Nat, log : Nat] : b = [times.born EXCEPT !.log = times.taken]
    BY <1>2
  <1>5. times' = [times EXCEPT !.signal = "none", !.lock = FALSE, !.ptr = p, !.born = b]
    BY <1>1, <1>3, <1>4 DEF SigsafePublish, TimesType
  <1>6. times' \in TimesType /\ times'.ptr = p /\ times'.born = b /\ times'.lock = FALSE /\ times'.signal = "none"
    BY <1>1, <1>5 DEF TimesType
  <1>7. UNCHANGED << times.slot, times.taken, times.slots, times.reader, times.at, times.clock, times.seen,
                     times.sigseen, times.current >>
    BY <1>1, <1>5 DEF TimesType
  <1>8. times.slots[times.slot].log.first = times.slots[times.slot].log.second
    BY <1>1 DEF SignalOK
  <1>9. /\ PlacesOK' /\ PublishedOK' /\ TextReaderOK' /\ TextsAreWhole'
        /\ times'.ptr.clock = times.ptr.clock /\ times'.born.clock = times.born.clock
    BY <1>3, <1>4, <1>6, <1>7, <1>8, Publishing DEF Texts
  <1>10. LockOK'
    BY <1>1, <1>6, <1>7 DEF LockOK
  <1>11. WorkerOK'
    BY <1>1, <1>7 DEF WorkerOK
  <1>12. SignalOK'
    BY <1>1, <1>6, <1>7, <1>9 DEF SignalOK
  <1>13. ClockIsPublished'
    <2>1. times'.lock = (times'.signal # "none")
      BY <1>6
    <2> QED
      BY <1>1, <1>7, <1>9, <2>1 DEF ClockIsPublished, GoneAround
  <1> QED
    BY <1>6, <1>9, <1>10, <1>11, <1>12, <1>13 DEF TimesInv, TimesAreWhole

-----------------------------------------------------------------------------
(* The steps of a thread that reads *)

(* Somebody reads a text through a pointer.                                *)
LEMMA ReadStep ==
  ASSUME TimesInv, Reads
  PROVE  TimesInv'
  <1> DEFINE r == times.reader
             text == times.slots[r.slot][r.kind]
             Readers == [at : {"idle", "first", "second", "done"}, kind : Texts, slot : Index,
                         born : Nat, first : Nat, second : Nat]
  <1>1. /\ times \in TimesType /\ PlacesOK /\ LockOK /\ WorkerOK /\ SignalOK /\ PublishedOK /\ TextReaderOK
        /\ ClockIsPublished /\ TextsAreWhole
    BY DEF TimesInv, TimesAreWhole
  <1>2. /\ r \in Readers /\ times.slots \in [Index -> Slot] /\ 0 \in Index
        /\ times.ptr.http \in Index /\ times.ptr.log \in Index
        /\ times.born.http \in Nat /\ times.born.log \in Nat
    <2>1. 0 \in Index
      BY CachedTimeAssumption DEF Index
    <2> QED
      BY <1>1, <2>1 DEF TimesType
  <1>3. text \in Stamp
    BY <1>2 DEF Slot, Texts
  <1>4. ASSUME NEW q \in Readers, times' = [times EXCEPT !.reader = q],
               q.at # "idle" => Lies(q.slot, q.born) /\ q.born <= times.born[q.kind],
               q.at \in {"first", "second"} =>
                 \/ GoneAround(q.born)
                 \/ times.slots[q.slot][q.kind].first = times.slots[q.slot][q.kind].second,
               q.at = "second" => GoneAround(q.born) \/ q.first = times.slots[q.slot][q.kind].first,
               q.at = "done" => GoneAround(q.born) \/ q.first = q.second
        PROVE  TimesInv'
    <2>1. times' \in TimesType /\ times'.reader = q
      BY <1>1, <1>4 DEF TimesType
    <2>2. UNCHANGED << times.slot, times.lock, times.at, times.signal, times.clock, times.seen, times.sigseen,
                       times.current, times.slots, times.ptr, times.taken, times.born >>
      BY <1>1, <1>4 DEF TimesType
    <2>3. PlacesOK'
      BY <1>1, <1>4, <2>1, <2>2 DEF PlacesOK, Lies, GoneAround
    <2>4. LockOK'
      BY <1>1, <2>2 DEF LockOK
    <2>5. WorkerOK'
      BY <1>1, <2>2 DEF WorkerOK
    <2>6. SignalOK'
      BY <1>1, <2>2 DEF SignalOK
    <2>7. PublishedOK'
      BY <1>1, <2>2 DEF PublishedOK, GoneAround
    <2>8. TextReaderOK'
      BY <1>4, <2>1, <2>2 DEF TextReaderOK, GoneAround
    <2>9. TextsAreWhole'
      BY <1>4, <2>1, <2>2 DEF TextsAreWhole, GoneAround
    <2>10. ClockIsPublished'
      BY <1>1, <2>2 DEF ClockIsPublished, GoneAround
    <2> QED
      BY <2>1, <2>3, <2>4, <2>5, <2>6, <2>7, <2>8, <2>9, <2>10 DEF TimesInv, TimesAreWhole
  <1>5. ASSUME NEW kind \in Texts,
               times' = [times EXCEPT !.reader = [Nobody EXCEPT !.at = "first", !.kind = kind,
                           !.slot = times.ptr[kind], !.born = times.born[kind]]]
        PROVE  TimesInv'
    <2>1. PICK q : q = [Nobody EXCEPT !.at = "first", !.kind = kind,
                          !.slot = times.ptr[kind], !.born = times.born[kind]]
      OBVIOUS
    <2>2. times.ptr[kind] \in Index /\ times.born[kind] \in Nat
      BY <1>2 DEF Texts
    <2>3. /\ q \in Readers /\ q.at = "first" /\ q.kind = kind /\ q.slot = times.ptr[kind]
          /\ q.born = times.born[kind]
      BY <1>2, <2>1, <2>2 DEF Nobody, Texts
    <2>4. Lies(q.slot, q.born)
      BY <1>1, <2>3 DEF PlacesOK, Texts
    <2>5. q.born <= times.born[q.kind]
      BY <2>2, <2>3
    <2>6. \/ GoneAround(q.born)
          \/ times.slots[q.slot][q.kind].first = times.slots[q.slot][q.kind].second
      BY <1>1, <2>3 DEF PublishedOK, Texts
    <2> QED
      BY <1>4, <1>5, <2>1, <2>3, <2>4, <2>5, <2>6
  <1>6. CASE r.at = "first" /\ times' = [times EXCEPT !.reader.at = "second", !.reader.first = text.first]
    <2>1. PICK q : q = [r EXCEPT !.at = "second", !.first = text.first]
      OBVIOUS
    <2>2. times' = [times EXCEPT !.reader = q]
      BY <1>1, <1>6, <2>1 DEF TimesType
    <2>3. /\ q \in Readers /\ q.at = "second" /\ q.kind = r.kind /\ q.slot = r.slot /\ q.born = r.born
          /\ q.first = text.first
      BY <1>2, <1>3, <2>1 DEF Stamp
    <2>4. Lies(r.slot, r.born) /\ r.born <= times.born[r.kind] /\ (GoneAround(r.born) \/ text.first = text.second)
      BY <1>1, <1>6 DEF PlacesOK, TextReaderOK
    <2> QED
      BY <1>4, <2>2, <2>3, <2>4
  <1>7. CASE r.at = "second" /\ times' = [times EXCEPT !.reader.at = "done", !.reader.second = text.second]
    <2>1. PICK q : q = [r EXCEPT !.at = "done", !.second = text.second]
      OBVIOUS
    <2>2. times' = [times EXCEPT !.reader = q]
      BY <1>1, <1>7, <2>1 DEF TimesType
    <2>3. /\ q \in Readers /\ q.at = "done" /\ q.kind = r.kind /\ q.slot = r.slot /\ q.born = r.born
          /\ q.first = r.first /\ q.second = text.second
      BY <1>2, <1>3, <2>1 DEF Stamp
    <2>4. /\ Lies(r.slot, r.born) /\ r.born <= times.born[r.kind]
          /\ GoneAround(r.born) \/ (text.first = text.second /\ r.first = text.first)
      BY <1>1, <1>7 DEF PlacesOK, TextReaderOK
    <2> QED
      BY <1>4, <2>2, <2>3, <2>4
  <1>8. CASE times' = [times EXCEPT !.reader = Nobody]
    <2>1. PICK q : q = Nobody
      OBVIOUS
    <2>2. q \in Readers /\ q.at = "idle"
      BY <1>2, <2>1 DEF Nobody, Texts
    <2> QED
      BY <1>4, <1>8, <2>1, <2>2
  <1> QED
    BY <1>5, <1>6, <1>7, <1>8 DEF Reads

-----------------------------------------------------------------------------
(* The theorem *)

(* Every step keeps the invariant.                                         *)
LEMMA TimesStep == TimesInv /\ [TimesNext]_times => TimesInv'
  <1> SUFFICES ASSUME TimesInv, [TimesNext]_times
               PROVE  TimesInv'
    OBVIOUS
  <1>1. CASE UNCHANGED times
    <2>1. PlacesOK' /\ LockOK'
      BY <1>1 DEF TimesInv, PlacesOK, Lies, LockOK, GoneAround
    <2>2. WorkerOK'
      BY <1>1 DEF TimesInv, WorkerOK
    <2>3. SignalOK'
      BY <1>1 DEF TimesInv, SignalOK
    <2>4. PublishedOK' /\ TextReaderOK'
      BY <1>1 DEF TimesInv, PublishedOK, TextReaderOK, GoneAround
    <2>5. TimesAreWhole'
      BY <1>1 DEF TimesInv, TimesAreWhole, TextsAreWhole, ClockIsPublished, GoneAround
    <2> QED
      BY <1>1, <2>1, <2>2, <2>3, <2>4, <2>5 DEF TimesInv
  <1> QED
    BY <1>1, TickStep, UpdateStep, PrintStep, PublishStep, SigsafeUpdateStep, SigsafePrintStep,
       SigsafePublishStep, ReadStep DEF TimesNext, SigsafeSteps

(* For any number of slots but one, a text that a thread has read is whole *)
(* unless all slots were taken meanwhile, and ngx_cached_time is the time  *)
(* of the last ngx_time_update, whatever the handler of a signal did in    *)
(* between.                                                                *)
THEOREM TextsStayWhole == TimesSpec => []TimesAreWhole
  <1>1. TimesInv => TimesAreWhole
    BY DEF TimesInv
  <1> QED
    BY <1>1, InitTimes, TimesStep, PTL DEF TimesSpec
=============================================================================
