-------------------------- MODULE ThreadPoolProofs --------------------------
(***************************************************************************)
(* Proofs about ThreadPool, for any number of threads and tasks.           *)
(*                                                                         *)
(* The inductive invariant carries the three rows that the links lead      *)
(* through: q the queue, d the done list, k the tasks the worker has       *)
(* detached.  Every step of a thread or of the worker gives the rows of    *)
(* the next state from those of this one.                                  *)
(***************************************************************************)
EXTENDS ThreadPool, FiniteSetTheorems, TLAPS

(* IsRow, of any links. *)
LinkedBy(n, s, first) ==
  /\ first = IF s = << >> THEN NULL ELSE s[1]
  /\ \A i \in DOMAIN s : n[s[i]] = IF i = Len(s) THEN NULL ELSE s[i + 1]

Links == [All -> All \cup {NULL}]

Places == {"lock", "check", "asleep", "woken", "run", "finish", "link", "last",
           "notify", "gone", "lost"}

-----------------------------------------------------------------------------
(* The invariant. *)

Types ==
  /\ next \in Links
  /\ queue \in [first : All \cup {NULL}, last : All \cup {NULL}]
  /\ done \in [first : All \cup {NULL}, last : All \cup {NULL}]
  /\ active \subseteq All
  /\ waiting \in Int /\ waiting <= MaxQueue /\ taskId \in Nat /\ exits \in Nat
  /\ mtx \in Threads \cup {Worker, NULL}
  /\ doneLock \in Threads \cup {Worker, NULL}
  /\ notified \in BOOLEAN /\ exitLock \in BOOLEAN
  /\ pc \in [Threads -> Places]
  /\ cur \in [Threads -> All \cup {NULL}]
  /\ wpc \in {"loop", "limit", "append", "spin", "detach", "reset", "complete",
              "callback", "destroy", "await", "destroyed", "abandoned"}
  /\ arg \in All \cup {NULL} /\ taken \in All \cup {NULL}
  /\ back \in {"loop", "callback", "destroy"}
  /\ faults \in 0 .. MaxFaults

(* The holders of the two locks are where the program text says. *)
LocksAreHeld ==
  /\ \A p \in Threads : pc[p] = "check" <=> mtx = p
  /\ wpc \in {"limit", "append"} <=> mtx = Worker
  /\ \A p \in Threads : pc[p] \in {"link", "last"} <=> doneLock = p
  /\ wpc \in {"detach", "reset"} <=> doneLock = Worker

(* What threads and the worker hold while they work on it. *)
HandsAreTrue ==
  /\ \A p \in Threads : cur[p] # NULL <=> pc[p] \in {"run", "finish", "link", "last"}
  /\ \A p \in Threads : pc[p] \in {"finish", "link", "last"} => cur[p] # Exit
  /\ \A p \in Threads : pc[p] \in {"finish", "link"} => next[cur[p]] = NULL
  /\ \A p, r \in Threads : cur[p] = cur[r] /\ cur[p] # NULL => p = r
  /\ arg # NULL <=> wpc \in {"limit", "append"}
  /\ wpc \in {"limit", "append"} => (arg = Exit <=> back = "destroy")
  /\ wpc = "append" => arg \in active /\ next[arg] = NULL /\ waiting < MaxQueue

(* The three rows. *)
RowsAreLinked(q, d, k) ==
  /\ IsRow(q, queue.first) /\ EndsAt(q, queue.last)
  /\ IsRow(d, done.first) /\ IsRow(k, taken)
  /\ (\A p \in Threads : pc[p] # "last") => EndsAt(d, done.last)
  /\ \A p \in Threads : pc[p] = "last" => d # << >> /\ d[Len(d)] = cur[p]

(* No task is in two places. *)
RowsAreApart(q, d, k) ==
  /\ Within(q) \cap (Within(d) \cup Within(k) \cup Held) = {}
  /\ (Within(d) \cup Within(k)) \cap Held = {}
  /\ IF wpc = "reset" THEN k = d ELSE Within(d) \cap Within(k) = {}
  /\ Exit \notin Within(d) \cup Within(k)
  /\ arg \notin Within(q) \cup Within(d) \cup Within(k) \cup Held
  /\ k # << >> => \/ wpc \in {"reset", "complete", "callback"}
                  \/ wpc \in {"limit", "append"} /\ back = "callback"

Here(q, d, k) ==
  Within(q) \cup Within(d) \cup Within(k) \cup Held \cup IF wpc = "append" THEN {arg} ELSE {}

TasksAreActive(q, d, k) ==
  /\ Here(q, d, k) \cap Tasks \subseteq active
  /\ Cardinality((active \cap Tasks) \ Here(q, d, k)) <= faults

(* The exit task is on its way exactly while the worker waits for it, it   *)
(* is the last to be queued, and each one that was run has ended a thread. *)
Gone == {p \in Threads : pc[p] = "gone"}

ExitsAreCounted(q) ==
  /\ Exit \in Within(q) \cup Held <=> wpc = "await" /\ exitLock
  /\ wpc \in {"limit", "append"} /\ back = "destroy" => exitLock
  /\ Exit \in Within(q) => q[Len(q)] = Exit
  /\ exits > 0 \/ Exit \in Held \/ (wpc = "await" /\ ~exitLock) => Within(q) \subseteq {Exit}
  /\ exits > 0 => Exiting
  /\ exits + (IF wpc = "await" /\ ~exitLock THEN 1 ELSE 0) <= Cardinality(Gone)
  /\ wpc = "destroyed" => exits = Cardinality(Threads)

(* The thread with the mutex will take a task, the one being appended has  *)
(* its thread woken already.                                               *)
Woken == {p \in Threads : pc[p] = "woken"}

SleepersAreWoken(q) ==
  (\E p \in Threads : pc[p] = "asleep") =>
    Len(q) + (IF wpc = "append" THEN 1 ELSE 0)
      <= Cardinality(Woken) + (IF \E p \in Threads : pc[p] = "check" THEN 1 ELSE 0)

QueueIsCounted(q) == waiting = Len(q) - Cardinality(Idle)

Sound(q, d, k) ==
  /\ RowsAreLinked(q, d, k) /\ RowsAreApart(q, d, k) /\ TasksAreActive(q, d, k)
  /\ ExitsAreCounted(q) /\ SleepersAreWoken(q) /\ QueueIsCounted(q)

IInv ==
  /\ Types /\ LocksAreHeld /\ HandsAreTrue
  /\ \E q, d, k \in Orders : Sound(q, d, k)

-----------------------------------------------------------------------------
(* Rows without links. *)

Once(s) == \A i, j \in DOMAIN s : s[i] = s[j] => i = j

(* The least element of a set of numbers, which stands for induction. *)
LEMMA LeastNumber ==
  ASSUME NEW T \in SUBSET Nat, T # {}
  PROVE  \E x \in T : \A y \in T : x <= y
  <1> DEFINE Upto == {1 .. x : x \in T}
             R == StrictSubsetOrdering(Nat)
  <1>1. Upto \subseteq FiniteSubsetsOf(Nat) /\ Upto # {}
    <2>1. \A x \in T : 1 .. x \in SUBSET Nat /\ IsFiniteSet(1 .. x)
      BY FS_Interval
    <2> QED
      BY <2>1 DEF FiniteSubsetsOf
  <1>2. IsWellFoundedOn(R, FiniteSubsetsOf(Nat))
    BY FS_StrictSubsetOrderingWellFounded
  <1>3. \E U \in Upto : \A V \in Upto : ~ << V, U >> \in R
    <2> HIDE DEF Upto, R
    <2> QED
      BY <1>1, <1>2, WFMin
  <1>4. PICK x \in T : \A y \in T : << 1 .. y, 1 .. x >> \notin R
    BY <1>3
  <1>5. ASSUME NEW y \in T, y < x
        PROVE  FALSE
    <2>1. 1 .. y \subseteq 1 .. x /\ x \in 1 .. x /\ x \notin 1 .. y
      BY <1>5
    <2>2. << 1 .. y, 1 .. x >> \in R
      BY <2>1 DEF StrictSubsetOrdering
    <2> QED
      BY <1>4, <2>2
  <1> QED
    BY <1>5

(* The tasks and the one that ends a thread.                               *)
LEMMA FiniteAll == IsFiniteSet(All) /\ Exit \in All /\ NULL \notin All /\ Tasks = All \ {Exit}
  BY ThreadPoolAssumption, FS_AddElement DEF All

(* Orders are the sequences of tasks without repetition. *)
LEMMA OrdersAre ==
  ASSUME NEW s
  PROVE  s \in Orders <=> s \in Seq(All) /\ Once(s)
  <1>1. ASSUME s \in Orders
        PROVE  s \in Seq(All) /\ Once(s)
    <2>1. PICK k \in 0 .. Cardinality(All) : s \in [1 .. k -> All]
      BY <1>1 DEF Orders
    <2>2. Cardinality(All) \in Nat
      BY FiniteAll, FS_CardinalityType
    <2>3. s \in Seq(All)
      BY <2>1, <2>2
    <2> QED
      BY <1>1, <2>3 DEF Orders, Once
  <1>2. ASSUME s \in Seq(All), Once(s)
        PROVE  s \in Orders
    <2>1. s \in [1 .. Len(s) -> All] /\ Len(s) \in Nat
      BY <1>2
    <2>2. s \in Injection(1 .. Len(s), All)
      BY <1>2, <2>1 DEF Once, Injection, IsInjective
    <2>3. Cardinality(1 .. Len(s)) = Len(s)
      <3>1. 1 \in Int /\ Len(s) \in Int
        BY <2>1
      <3>2. Cardinality(1 .. Len(s)) = IF 1 > Len(s) THEN 0 ELSE Len(s) - 1 + 1
        BY <3>1, FS_Interval
      <3> QED
        BY <3>2, <2>1
    <2>4. Len(s) <= Cardinality(All) /\ Cardinality(All) \in Nat
      <3> HIDE DEF All
      <3>1. IsFiniteSet(All)
        BY FiniteAll
      <3>2. Cardinality(1 .. Len(s)) <= Cardinality(All)
        BY <2>2, <3>1, FS_Injection
      <3> QED
        BY <3>1, <3>2, <2>3, FS_CardinalityType
    <2>5. Len(s) \in 0 .. Cardinality(All)
      BY <2>1, <2>4
    <2> QED
      BY <1>2, <2>1, <2>5 DEF Orders, Once
  <1> QED
    BY <1>1, <1>2

(* A row of tasks is a sequence without repetitions.                       *)
LEMMA RowBasics ==
  ASSUME NEW s \in Orders
  PROVE  /\ s \in Seq(All) /\ Once(s) /\ Len(s) \in Nat /\ DOMAIN s = 1 .. Len(s)
         /\ Within(s) \subseteq All
         /\ s = << >> <=> Len(s) = 0
         /\ s = << >> <=> Within(s) = {}
  <1>1. s \in Seq(All) /\ Once(s)
    BY OrdersAre
  <1>2. Len(s) \in Nat /\ DOMAIN s = 1 .. Len(s) /\ (s = << >> <=> Len(s) = 0)
    BY <1>1
  <1>3. Within(s) \subseteq All
    BY <1>1, <1>2 DEF Within
  <1>4. s # << >> => s[1] \in Within(s)
    BY <1>2 DEF Within
  <1>5. s = << >> => Within(s) = {}
    BY DEF Within
  <1> QED
    BY <1>1, <1>2, <1>3, <1>4, <1>5

(* The row without tasks.                                                  *)
LEMMA RowEmpty == << >> \in Orders /\ Within(<< >>) = {}
  <1>1. << >> \in Seq(All) /\ Once(<< >>)
    BY DEF Once
  <1>2. Within(<< >>) = {}
    BY DEF Within
  <1> QED
    BY <1>1, <1>2, OrdersAre

(* A row with one more task.                                               *)
LEMMA RowAppend ==
  ASSUME NEW s \in Orders, NEW t \in All, t \notin Within(s)
  PROVE  /\ Append(s, t) \in Orders /\ Append(s, t) # << >>
         /\ Within(Append(s, t)) = Within(s) \cup {t}
         /\ Len(Append(s, t)) = Len(s) + 1
         /\ Append(s, t)[Len(s) + 1] = t
  <1>1. s \in Seq(All) /\ Once(s)
    BY OrdersAre
  <1>2. Append(s, t) \in Seq(All) /\ Once(Append(s, t))
    BY <1>1 DEF Once, Within
  <1>3. /\ Within(Append(s, t)) = Within(s) \cup {t}
        /\ Len(Append(s, t)) = Len(s) + 1
        /\ Append(s, t)[Len(s) + 1] = t /\ Append(s, t) # << >>
    BY <1>1 DEF Within
  <1> QED
    BY <1>2, <1>3, OrdersAre

(* A row without its first task.                                           *)
LEMMA RowTail ==
  ASSUME NEW s \in Orders, s # << >>
  PROVE  /\ Tail(s) \in Orders /\ s[1] \in All
         /\ Within(Tail(s)) = Within(s) \ {s[1]} /\ s[1] \in Within(s)
         /\ Len(Tail(s)) = Len(s) - 1 /\ Len(s) \in Nat \ {0}
         /\ DOMAIN Tail(s) = 1 .. Len(s) - 1
         /\ \A i \in 1 .. Len(s) - 1 : Tail(s)[i] = s[i + 1]
  <1>1. s \in Seq(All) /\ Once(s) /\ DOMAIN s = 1 .. Len(s)
    BY RowBasics
  <1>2. /\ Tail(s) \in Seq(All) /\ Len(s) \in Nat \ {0} /\ Len(Tail(s)) = Len(s) - 1
        /\ DOMAIN Tail(s) = 1 .. Len(s) - 1
        /\ \A i \in 1 .. Len(s) - 1 : Tail(s)[i] = s[i + 1]
    BY <1>1
  <1>3. Once(Tail(s))
    BY <1>1, <1>2 DEF Once
  <1>4. Within(Tail(s)) \subseteq Within(s) \ {s[1]}
    BY <1>1, <1>2 DEF Once, Within
  <1>5. Within(s) \ {s[1]} \subseteq Within(Tail(s))
    <2> SUFFICES ASSUME NEW i \in 2 .. Len(s)
                 PROVE  s[i] \in Within(Tail(s))
      BY <1>1 DEF Within
    <2>1. i - 1 \in 1 .. Len(s) - 1 /\ (i - 1) + 1 = i
      BY <1>2
    <2>2. Tail(s)[i - 1] = s[i]
      BY <1>2, <2>1
    <2> QED
      BY <1>2, <2>1, <2>2 DEF Within
  <1>6. s[1] \in All /\ s[1] \in Within(s)
    BY <1>1, <1>2 DEF Within
  <1> QED
    BY <1>2, <1>3, <1>4, <1>5, <1>6, OrdersAre

-----------------------------------------------------------------------------
(* Rows and links. *)

(* A list is linked as long as nobody writes into its elements.            *)
LEMMA LinkedFrame ==
  ASSUME NEW n, NEW m, NEW s \in Orders, NEW f, LinkedBy(n, s, f),
         \A x \in Within(s) : m[x] = n[x]
  PROVE  LinkedBy(m, s, f)
  BY DEF LinkedBy, Within

(* An empty list is linked.                                                *)
LEMMA LinkedEmpty ==
  ASSUME NEW n, NEW s \in Orders, NEW f, LinkedBy(n, s, f)
  PROVE  /\ f = NULL <=> s = << >>
         /\ f # NULL => f = s[1] /\ f \in Within(s)
         /\ LinkedBy(n, << >>, NULL)
  <1>1. s # << >> => s[1] \in Within(s) /\ s[1] # NULL
    BY RowBasics, RowTail, FiniteAll
  <1> QED
    BY <1>1 DEF LinkedBy

(* A list without its first element is linked.                             *)
LEMMA LinkedTail ==
  ASSUME NEW n, NEW s \in Orders, NEW f, LinkedBy(n, s, f), f # NULL
  PROVE  /\ s # << >> /\ f = s[1] /\ Tail(s) \in Orders
         /\ LinkedBy(n, Tail(s), n[f])
         /\ \A l : EndsAt(s, l) => EndsAt(Tail(s), IF n[f] = NULL THEN NULL ELSE l)
  <1>1. s # << >> /\ f = s[1]
    BY DEF LinkedBy
  <1>2. /\ Tail(s) \in Orders
        /\ Len(Tail(s)) = Len(s) - 1 /\ Len(s) \in Nat \ {0}
        /\ DOMAIN Tail(s) = 1 .. Len(s) - 1
        /\ \A i \in 1 .. Len(s) - 1 : Tail(s)[i] = s[i + 1]
    BY <1>1, RowTail
  <1>3. DOMAIN s = 1 .. Len(s) /\ \A i \in 1 .. Len(s) : s[i] \in All
    BY RowBasics DEF Within
  <1>4. Tail(s) = << >> <=> Len(s) = 1
    <2>1. Tail(s) = << >> <=> Len(Tail(s)) = 0
      BY <1>2, RowBasics
    <2> QED
      BY <1>2, <2>1
  <1>5. n[f] = IF Tail(s) = << >> THEN NULL ELSE Tail(s)[1]
    <2>1. n[s[1]] = IF 1 = Len(s) THEN NULL ELSE s[1 + 1]
      BY <1>2, <1>3 DEF LinkedBy
    <2>2. Len(s) # 1 => Tail(s)[1] = s[1 + 1]
      BY <1>2
    <2> QED
      BY <1>1, <1>4, <2>1, <2>2
  <1>6. ASSUME NEW i \in 1 .. Len(s) - 1
        PROVE  n[Tail(s)[i]] = IF i = Len(Tail(s)) THEN NULL ELSE Tail(s)[i + 1]
    <2>1. Tail(s)[i] = s[i + 1] /\ i + 1 \in 1 .. Len(s)
      BY <1>2
    <2>2. n[s[i + 1]] = IF i + 1 = Len(s) THEN NULL ELSE s[(i + 1) + 1]
      BY <1>3, <2>1 DEF LinkedBy
    <2>3. i # Len(s) - 1 => Tail(s)[i + 1] = s[(i + 1) + 1]
      BY <1>2
    <2>4. i + 1 = Len(s) <=> i = Len(Tail(s))
      BY <1>2
    <2> QED
      BY <1>2, <2>1, <2>2, <2>3, <2>4
  <1>7. LinkedBy(n, Tail(s), n[f])
    BY <1>2, <1>5, <1>6 DEF LinkedBy
  <1>8. ASSUME NEW l, EndsAt(s, l)
        PROVE  EndsAt(Tail(s), IF n[f] = NULL THEN NULL ELSE l)
    <2>1. l = s[Len(s)]
      BY <1>1, <1>8 DEF EndsAt
    <2>2. Tail(s) # << >> => Tail(s)[Len(Tail(s))] = s[Len(s)]
      <3>1. Tail(s) # << >> => Len(s) - 1 \in 1 .. Len(s) - 1 /\ (Len(s) - 1) + 1 = Len(s)
        BY <1>2, <1>4
      <3> QED
        BY <1>2, <3>1
    <2>3. n[f] = NULL <=> Tail(s) = << >>
      <3>1. Tail(s) # << >> => Tail(s)[1] = s[1 + 1] /\ 1 + 1 \in 1 .. Len(s)
        BY <1>2, <1>4
      <3> QED
        BY <1>3, <1>5, <3>1, FiniteAll
    <2> QED
      BY <2>1, <2>2, <2>3 DEF EndsAt
  <1> QED
    BY <1>1, <1>2, <1>7, <1>8

(* So is one with an element at its end.                                   *)
LEMMA LinkedAppend ==
  ASSUME NEW n \in Links, NEW s \in Orders, NEW f, LinkedBy(n, s, f),
         NEW l, EndsAt(s, l), NEW t \in All, t \notin Within(s), n[t] = NULL,
         NEW m, m = IF l = NULL THEN n ELSE [n EXCEPT ![l] = t]
  PROVE  /\ LinkedBy(m, Append(s, t), IF l = NULL THEN t ELSE f)
         /\ EndsAt(Append(s, t), t) /\ m \in Links
         /\ l # NULL => l \in Within(s)
         /\ \A x \in All : x \notin Within(s) => m[x] = n[x]
  <1>1. s \in Seq(All) /\ Len(s) \in Nat /\ DOMAIN s = 1 .. Len(s) /\ Once(s)
    BY RowBasics
  <1>2. \A i \in 1 .. Len(s) : s[i] \in All /\ s[i] # t
    BY <1>1 DEF Within
  <1>3. l = NULL <=> s = << >>
    BY <1>1, <1>2, FiniteAll, RowBasics DEF EndsAt
  <1>4. l # NULL => l = s[Len(s)] /\ Len(s) \in 1 .. Len(s) /\ l \in Within(s) /\ l \in All
    BY <1>1, <1>2, <1>3, RowBasics DEF EndsAt, Within
  <1>5. m \in Links /\ \A x \in All : x \notin Within(s) => m[x] = n[x]
    BY <1>4 DEF Links
  <1> DEFINE r == Append(s, t)
  <1>6. /\ Len(r) = Len(s) + 1 /\ DOMAIN r = 1 .. Len(s) + 1 /\ r # << >>
        /\ \A i \in 1 .. Len(s) : r[i] = s[i]
        /\ r[Len(s) + 1] = t
    BY <1>1
  <1> HIDE DEF r
  <1>7. EndsAt(r, t)
    BY <1>6 DEF EndsAt
  <1>8. (IF l = NULL THEN t ELSE f) = r[1]
    BY <1>1, <1>3, <1>4, <1>6 DEF LinkedBy
  <1>9. ASSUME NEW i \in 1 .. Len(s) + 1
        PROVE  m[r[i]] = IF i = Len(s) + 1 THEN NULL ELSE r[i + 1]
    <2>1. CASE i = Len(s) + 1
      BY <1>4, <1>6, <2>1 DEF Links
    <2>2. CASE i = Len(s) /\ Len(s) # 0
      <3>1. r[i] = l /\ l # NULL /\ r[i + 1] = t
        BY <1>1, <1>3, <1>4, <1>6, <2>2, RowBasics
      <3>2. m[l] = t
        BY <3>1, <1>4 DEF Links
      <3> QED
        BY <3>1, <3>2, <2>2
    <2>3. CASE i \in 1 .. Len(s) - 1
      <3>1. r[i] = s[i] /\ r[i + 1] = s[i + 1] /\ i \in 1 .. Len(s) /\ i # Len(s)
        BY <1>6, <2>3
      <3>2. n[s[i]] = s[i + 1]
        BY <1>1, <3>1 DEF LinkedBy
      <3>3. l # NULL => s[i] # l
        BY <1>1, <1>4, <3>1 DEF Once
      <3>4. m[s[i]] = n[s[i]]
        BY <3>3, <3>1, <1>2, <1>4 DEF Links
      <3> QED
        BY <3>1, <3>2, <3>4, <2>3
    <2>4. \A len \in Nat : \A j \in 1 .. len + 1 :
            j = len + 1 \/ (j = len /\ len # 0) \/ j \in 1 .. len - 1
      OBVIOUS
    <2> QED
      BY <1>1, <2>1, <2>2, <2>3, <2>4
  <1>10. LinkedBy(m, r, IF l = NULL THEN t ELSE f)
    BY <1>6, <1>8, <1>9 DEF LinkedBy
  <1> QED
    BY <1>4, <1>5, <1>7, <1>10 DEF r

(* The links lead through one row only. *)
LEMMA LinkedUnique ==
  ASSUME NEW n, NEW s \in Orders, NEW r \in Orders, NEW f,
         LinkedBy(n, s, f), LinkedBy(n, r, f)
  PROVE  s = r
  <1>1. /\ s \in Seq(All) /\ Len(s) \in Nat /\ DOMAIN s = 1 .. Len(s)
        /\ r \in Seq(All) /\ Len(r) \in Nat /\ DOMAIN r = 1 .. Len(r)
    BY RowBasics
  <1>2. /\ \A i \in 1 .. Len(s) : s[i] # NULL
        /\ \A i \in 1 .. Len(r) : r[i] # NULL
    BY <1>1, FiniteAll
  <1> DEFINE Agree(i) == i \in 1 .. Len(s) <=> i \in 1 .. Len(r)
             Same(i) == Agree(i) /\ (i \in 1 .. Len(s) => s[i] = r[i])
             Differ == {i \in Nat \ {0} : ~ Same(i)}
  <1>3. ASSUME Differ # {}
        PROVE  FALSE
    <2>1. PICK x \in Differ : \A y \in Differ : x <= y
      BY <1>3, LeastNumber
    <2>2. x # 1
      BY <1>1, <1>2 DEF LinkedBy
    <2>3. x - 1 \in Nat \ {0} /\ Same(x - 1)
      BY <2>1, <2>2
    <2>4. x - 1 \in 1 .. Len(s) => Same(x)
      <3> SUFFICES ASSUME x - 1 \in 1 .. Len(s)
                   PROVE  Same(x)
        OBVIOUS
      <3>1. x - 1 \in 1 .. Len(r) /\ s[x - 1] = r[x - 1] /\ (x - 1) + 1 = x
        BY <2>3
      <3>2. /\ n[s[x - 1]] = IF x - 1 = Len(s) THEN NULL ELSE s[x]
            /\ n[r[x - 1]] = IF x - 1 = Len(r) THEN NULL ELSE r[x]
        BY <1>1, <3>1 DEF LinkedBy
      <3>3. x - 1 # Len(s) => x \in 1 .. Len(s)
        BY <1>1
      <3>4. x - 1 # Len(r) => x \in 1 .. Len(r)
        BY <1>1, <3>1
      <3>5. x - 1 = Len(s) <=> x - 1 = Len(r)
        BY <1>2, <3>1, <3>2, <3>3, <3>4
      <3>6. x - 1 = Len(s) => x \notin 1 .. Len(s) /\ x \notin 1 .. Len(r)
        BY <1>1, <3>5
      <3> QED
        BY <3>1, <3>2, <3>3, <3>4, <3>5, <3>6
    <2>5. x - 1 \notin 1 .. Len(s) => Same(x)
      BY <1>1, <2>3
    <2> QED
      BY <2>1, <2>4, <2>5
  <1>4. \A i \in Nat \ {0} : Same(i)
    BY <1>3
  <1>5. Len(s) = Len(r)
    <2>1. Len(s) < Len(r) => ~ Same(Len(s) + 1)
      BY <1>1
    <2>2. Len(r) < Len(s) => ~ Same(Len(r) + 1)
      BY <1>1
    <2>3. ~ (Len(s) < Len(r)) /\ ~ (Len(r) < Len(s))
      <3> HIDE DEF Same
      <3>1. Len(s) + 1 \in Nat \ {0} /\ Len(r) + 1 \in Nat \ {0}
        BY <1>1
      <3> QED
        BY <1>4, <2>1, <2>2, <3>1
    <2>4. \A a, b \in Nat : ~ (a < b) /\ ~ (b < a) => a = b
      OBVIOUS
    <2> QED
      BY <1>1, <2>3, <2>4
  <1>6. \A i \in 1 .. Len(s) : s[i] = r[i]
    BY <1>1, <1>4
  <1> QED
    BY <1>1, <1>5, <1>6
-----------------------------------------------------------------------------
(* What the rows say of the pointers. *)

LEMMA RowFacts ==
  ASSUME Types, HandsAreTrue, NEW q \in Orders, NEW d \in Orders, NEW k \in Orders,
         RowsAreLinked(q, d, k), RowsAreApart(q, d, k)
  PROVE  /\ LinkedBy(next, q, queue.first) /\ LinkedBy(next, d, done.first)
         /\ LinkedBy(next, k, taken)
         /\ queue.first # NULL => queue.first \in Within(q)
         /\ taken # NULL => taken \in Within(k)
         /\ done.first # NULL => done.first \in Within(d)
         /\ \A p \in Threads : pc[p] = "last" => cur[p] \in Within(d)
         /\ \A p \in Threads : cur[p] # NULL =>
              cur[p] \notin Within(q) /\ (cur[p] \in Held \/ cur[p] \in Within(d))
         /\ \A p \in Threads : cur[p] # NULL => cur[p] # arg
         /\ queue.last # NULL => queue.last \in Within(q)
         /\ (\A p \in Threads : pc[p] # "last") /\ done.last # NULL => done.last \in Within(d)
  <1>1. /\ LinkedBy(next, q, queue.first) /\ LinkedBy(next, d, done.first)
        /\ LinkedBy(next, k, taken)
    BY DEF RowsAreLinked, IsRow, LinkedBy
  <1>2. /\ queue.first # NULL => queue.first \in Within(q)
        /\ taken # NULL => taken \in Within(k)
        /\ done.first # NULL => done.first \in Within(d)
    BY <1>1, LinkedEmpty
  <1>3. ASSUME NEW p \in Threads, pc[p] = "last"
        PROVE  cur[p] \in Within(d)
    <2>1. d # << >> /\ d[Len(d)] = cur[p]
      BY <1>3 DEF RowsAreLinked
    <2>2. DOMAIN d = 1 .. Len(d) /\ Len(d) \in Nat /\ Len(d) # 0
      BY <2>1, RowBasics
    <2> QED
      BY <2>1, <2>2 DEF Within
  <1>4. ASSUME NEW p \in Threads, cur[p] # NULL
        PROVE  cur[p] \in Held \/ cur[p] \in Within(d)
    BY <1>3, <1>4 DEF HandsAreTrue, Held
  <1>5. \A s \in Orders : \A l : EndsAt(s, l) /\ l # NULL => l \in Within(s)
    BY RowBasics DEF EndsAt, Within
  <1> QED
    BY <1>1, <1>2, <1>3, <1>4, <1>5 DEF RowsAreApart, RowsAreLinked

(* The types, the locks and the hands, in a step. *)
Core == Types /\ LocksAreHeld /\ HandsAreTrue

LEMMA PostingCore ==
  ASSUME Core, NEW q \in Orders, NEW d \in Orders, NEW k \in Orders, Sound(q, d, k), Posting
  PROVE  Core'
  <1> USE ThreadPoolAssumption, FiniteAll DEF Core, Types, LocksAreHeld, HandsAreTrue, Links, Places
  <1>1. CASE UserPosts
    <2>1. PICK t \in Tasks, from \in {"loop", "callback"} : Post(t, from)
      BY <1>1 DEF UserPosts
    <2>2. CASE UNCHANGED << wpc, arg, back, mtx >>
      BY <1>1, <2>1, <2>2 DEF UserPosts, Post, Fail, MayFail, lists
    <2>3. CASE wpc' = "limit" /\ arg' = t /\ back' = from /\ mtx = NULL /\ mtx' = Worker
      BY <1>1, <2>1, <2>3 DEF UserPosts, Post, Fail, MayFail, lists
    <2> QED
      BY <2>1, <2>2, <2>3 DEF Post
  <1>2. CASE PostRefused
    BY <1>2 DEF PostRefused, lists
  <1>3. CASE PostSignal
    BY <1>3 DEF PostSignal, Go, Fail, MayFail
  <1>4. CASE PostAppend
    <2>1. next' = LinkNext(queue, arg) /\ UNCHANGED << pc, cur >> /\ arg \in All
      BY <1>4 DEF PostAppend
    <2>2. ASSUME NEW r \in Threads, pc[r] \in {"finish", "link"}
          PROVE  next'[cur[r]] = NULL
      <3>1. cur[r] # NULL /\ cur[r] # queue.last /\ next[cur[r]] = NULL
        BY <2>2, RowFacts DEF Sound
      <3> QED
        BY <2>1, <3>1 DEF LinkNext
    <2>3. next' \in Links
      BY <2>1 DEF LinkNext
    <2> QED
      BY <1>4, <2>2, <2>3 DEF PostAppend, LinkFirst
  <1> QED
    BY <1>1, <1>2, <1>3, <1>4 DEF Posting

LEMMA CompletingCore ==
  ASSUME Core, NEW q \in Orders, NEW d \in Orders, NEW k \in Orders, Sound(q, d, k), Completing
  PROVE  Core'
  <1> USE ThreadPoolAssumption, FiniteAll DEF Core, Types, LocksAreHeld, HandsAreTrue, Links, Places
  <1>1. CASE Notified
    BY <1>1 DEF Notified, lists, locks
  <1>2. CASE WorkerSpinLock
    BY <1>2 DEF WorkerSpinLock, lists
  <1>3. CASE Detach
    BY <1>3 DEF Detach, lists, locks
  <1>4. CASE ResetDone
    BY <1>4 DEF ResetDone, EmptyList
  <1>5. CASE Complete
    BY <1>5 DEF Complete, lists, locks
  <1>6. CASE CallbackReturns
    BY <1>6 DEF CallbackReturns, lists, locks
  <1> QED
    BY <1>1, <1>2, <1>3, <1>4, <1>5, <1>6 DEF Completing

LEMMA EndingCore ==
  ASSUME Core, Ending
  PROVE  Core'
  <1> USE ThreadPoolAssumption, FiniteAll DEF Core, Types, LocksAreHeld, HandsAreTrue, Links, Places
  <1>1. CASE ExitWorker
    BY <1>1 DEF ExitWorker, lists, locks
  <1>2. CASE DestroyPosts
    BY <1>2 DEF DestroyPosts, Fail, MayFail, lists
  <1>3. CASE ThreadEnded
    BY <1>3 DEF ThreadEnded, lists, locks
  <1>4. CASE Destroyed
    BY <1>4 DEF Destroyed, lists, locks
  <1> QED
    BY <1>1, <1>2, <1>3, <1>4 DEF Ending

LEMMA ThreadCore ==
  ASSUME Core, NEW q \in Orders, NEW d \in Orders, NEW k \in Orders, Sound(q, d, k),
         NEW p \in Threads, ThreadStep(p)
  PROVE  Core'
  <1> USE ThreadPoolAssumption, FiniteAll DEF Core, Types, LocksAreHeld, HandsAreTrue, Links, Places, Go
  <1>1. CASE Lock(p)
    BY <1>1 DEF Lock, lists, worker
  <1>2. CASE LockFails(p)
    BY <1>2 DEF LockFails, lists, locks, worker, Fail, MayFail
  <1>3. CASE Sleep(p)
    BY <1>3 DEF Sleep, lists, worker, Fail, MayFail
  <1>4. CASE SpuriousWakeup(p)
    BY <1>4 DEF SpuriousWakeup, lists, locks, worker
  <1>5. CASE Relock(p)
    BY <1>5 DEF Relock, lists, worker
  <1>6. CASE TakeTask(p)
    <2>1. \A r \in Threads : cur[r] # queue.first
      BY <1>6, RowFacts DEF TakeTask, Sound
    <2> QED
      BY <1>6, <2>1 DEF TakeTask, worker
  <1>7. CASE RunTask(p)
    <2>1. cur[p] # arg
      BY <1>7, RowFacts DEF RunTask, Sound
    <2> QED
      BY <1>7, <2>1 DEF RunTask, locks, worker
  <1>8. CASE RunExit(p)
    <2>1. Types'
      <3>1. exitLock' \in BOOLEAN
        BY <1>8 DEF RunExit
      <3>2. pc' = [pc EXCEPT ![p] = "gone"] /\ cur' = [cur EXCEPT ![p] = NULL]
        BY <1>8 DEF RunExit
      <3>3. UNCHANGED << next, queue, done, active, waiting, taskId, exits, mtx, doneLock,
                         notified, wpc, arg, taken, back, faults >>
        BY <1>8 DEF RunExit, lists, locks, worker
      <3> QED
        BY <3>1, <3>2, <3>3
    <2>2. LocksAreHeld'
      BY <1>8 DEF RunExit, lists, locks, worker
    <2>3. HandsAreTrue'
      BY <1>8 DEF RunExit, lists, locks, worker
    <2> QED
      BY <2>1, <2>2, <2>3
  <1>9. CASE SpinLock(p)
    BY <1>9 DEF SpinLock, lists, worker
  <1>10. CASE LinkDone(p)
    <2>1. done.last # NULL => done.last # arg
      <3>1. EndsAt(d, done.last) /\ arg \notin Within(d)
        BY <1>10 DEF Sound, RowsAreLinked, RowsAreApart, LinkDone
      <3> QED
        BY <3>1, RowBasics DEF EndsAt, Within
    <2>2. next' = LinkNext(done, cur[p]) /\ cur' = cur /\ cur[p] \in All
            /\ pc' = [pc EXCEPT ![p] = "last"]
      BY <1>10 DEF LinkDone
    <2>3. ASSUME NEW r \in Threads, pc[r] \in {"finish", "link"}
          PROVE  next'[cur[r]] = NULL
      <3>1. cur[r] # NULL /\ next[cur[r]] = NULL /\ cur[r] \in Held
        BY <2>3 DEF Held
      <3>2. done.last # NULL => done.last \in Within(d)
        BY <1>10, RowFacts DEF LinkDone, Sound
      <3>3. cur[r] # done.last
        BY <3>1, <3>2 DEF Sound, RowsAreApart
      <3> QED
        BY <2>2, <3>1, <3>3 DEF LinkNext
    <2>4. next' \in Links
      BY <2>2 DEF LinkNext
    <2> DEFINE Nexts == \A r \in Threads : pc'[r] \in {"finish", "link"} => next'[cur'[r]] = NULL
    <2>5. Nexts
      BY <2>2, <2>3
    <2>6. wpc' = "append" => next'[arg'] = NULL
      BY <1>10, <2>1, <2>2 DEF LinkDone, LinkNext, worker
    <2> HIDE DEF Nexts
    <2>7. Types'
      BY <1>10, <2>2, <2>4 DEF LinkDone, LinkFirst, locks, worker
    <2>8. LocksAreHeld'
      BY <1>10 DEF LinkDone, locks, worker
    <2>9. HandsAreTrue'
      <3> USE DEF Nexts
      <3> QED
        BY <1>10, <2>2, <2>5, <2>6 DEF LinkDone, worker
    <2> QED
      BY <2>7, <2>8, <2>9
  <1>11. CASE MoveLast(p)
    BY <1>11 DEF MoveLast, worker
  <1>12. CASE Notify(p)
    BY <1>12 DEF Notify, lists, locks, worker
  <1> QED
    BY <1>1, <1>2, <1>3, <1>4, <1>5, <1>6, <1>7, <1>8, <1>9, <1>10, <1>11, <1>12 DEF ThreadStep

-----------------------------------------------------------------------------
(* Sets of threads, counted. *)

(* The number of threads in a set, as one enters or leaves it.             *)
LEMMA ThreadSets ==
  ASSUME NEW T \in SUBSET Threads, NEW p \in Threads
  PROVE  /\ Cardinality(T) \in Nat
         /\ Cardinality(T) <= Cardinality(Threads)
         /\ p \in T => Cardinality(T \ {p}) = Cardinality(T) - 1 /\ Cardinality(T) > 0
         /\ p \notin T => Cardinality(T \cup {p}) = Cardinality(T) + 1
         /\ Cardinality(T) = Cardinality(Threads) => T = Threads
  <1>1. IsFiniteSet(Threads)
    BY ThreadPoolAssumption
  <1>2. IsFiniteSet(T) /\ Cardinality(T) <= Cardinality(Threads)
          /\ (Cardinality(T) = Cardinality(Threads) => T = Threads)
    BY <1>1, FS_Subset
  <1>3. Cardinality(T) \in Nat
    BY <1>2, FS_CardinalityType
  <1>4. p \in T => Cardinality(T \ {p}) = Cardinality(T) - 1
    BY <1>2, FS_RemoveElement
  <1>5. p \notin T => Cardinality(T \cup {p}) = Cardinality(T) + 1
    BY <1>2, FS_AddElement
  <1>6. p \in T => Cardinality(T) # 0
    BY <1>2, FS_EmptySet
  <1> QED
    BY <1>2, <1>3, <1>4, <1>5, <1>6

(* The tasks that would be lost, counted. *)
LEMMA LostTasks ==
  ASSUME NEW T \in SUBSET All, NEW U, U \subseteq T
  PROVE  /\ Cardinality(T) \in Nat /\ Cardinality(U) \in Nat
         /\ Cardinality(U) <= Cardinality(T)
  <1>1. IsFiniteSet(T)
    BY FiniteAll, FS_Subset
  <1> QED
    BY <1>1, FS_Subset, FS_CardinalityType

(* At most one task is lost in a step.                                     *)
LEMMA LostTask ==
  ASSUME NEW T \in SUBSET All, NEW U, NEW t, U \subseteq T \cup {t}
  PROVE  Cardinality(T) \in Nat /\ Cardinality(U) \in Nat /\ Cardinality(U) <= Cardinality(T) + 1
  <1>1. IsFiniteSet(T)
    BY FiniteAll, FS_Subset
  <1>a. Cardinality(T) \in Nat
    BY <1>1, FS_CardinalityType
  <1>b. /\ IsFiniteSet(T \cup {t})
        /\ Cardinality(T \cup {t}) = IF t \in T THEN Cardinality(T) ELSE Cardinality(T) + 1
    BY <1>1, FS_AddElement
  <1>2. IsFiniteSet(T \cup {t}) /\ Cardinality(T \cup {t}) <= Cardinality(T) + 1
          /\ Cardinality(T) \in Nat
    BY <1>a, <1>b
  <1>3. IsFiniteSet(U) /\ Cardinality(U) <= Cardinality(T \cup {t})
    BY <1>2, FS_Subset
  <1> QED
    BY <1>2, <1>3, FS_CardinalityType

-----------------------------------------------------------------------------
(* Steps that leave the rows as they are. *)

(* The parts that relate the rows to the pointers and to each other need   *)
(* only this of a step.                                                    *)
RowsStay(q, d, k) ==
  /\ UNCHANGED << queue, done, taken >>
  /\ \A x \in Within(q) \cup Within(d) \cup Within(k) : next'[x] = next[x]
  /\ \A r \in Threads : (pc'[r] = "last" <=> pc[r] = "last")
  /\ \A r \in Threads : pc[r] = "last" => cur'[r] = cur[r]

LEMMA RowsStayLinked ==
  ASSUME NEW q \in Orders, NEW d \in Orders, NEW k \in Orders,
         RowsAreLinked(q, d, k), RowsStay(q, d, k)
  PROVE  RowsAreLinked(q, d, k)'
  <1>1. /\ LinkedBy(next, q, queue.first) /\ LinkedBy(next, d, done.first)
        /\ LinkedBy(next, k, taken)
    BY DEF RowsAreLinked, IsRow, LinkedBy
  <1>2. /\ LinkedBy(next', q, queue.first) /\ LinkedBy(next', d, done.first)
        /\ LinkedBy(next', k, taken)
    BY <1>1, LinkedFrame DEF RowsStay
  <1>3. IsRow(q, queue.first)' /\ IsRow(d, done.first)' /\ IsRow(k, taken)'
    BY <1>2 DEF RowsStay, IsRow, LinkedBy
  <1> QED
    BY <1>3 DEF RowsAreLinked, RowsStay, EndsAt

(* A thread between two steps that touch a list. *)
Quiet(p) ==
  \/ Lock(p) \/ LockFails(p) \/ Sleep(p) \/ SpuriousWakeup(p) \/ Relock(p)
  \/ SpinLock(p) \/ Notify(p)

LEMMA QuietFrame ==
  ASSUME Core, NEW p \in Threads, Quiet(p)
  PROVE  /\ UNCHANGED << lists, active, cur, worker, exitLock >> /\ Held' = Held
         /\ faults \in Nat /\ faults' \in Nat /\ faults <= faults'
         /\ pc[p] # "last" /\ pc'[p] # "last" /\ pc[p] # "gone"
         /\ pc' = [pc EXCEPT ![p] = pc'[p]]
  <1>1. /\ UNCHANGED << lists, active, cur, worker, exitLock >>
        /\ faults \in Nat /\ faults' \in Nat /\ faults <= faults'
        /\ pc[p] # "last" /\ pc'[p] # "last" /\ pc[p] # "gone"
        /\ pc' = [pc EXCEPT ![p] = pc'[p]]
        /\ pc[p] \in {"run", "finish", "link"} <=> pc'[p] \in {"run", "finish", "link"}
    BY ThreadPoolAssumption
       DEF Core, Types, Quiet, Lock, LockFails, Sleep, SpuriousWakeup, Relock, SpinLock, Notify, Go, Fail
  <1>2. \A r \in Threads : pc[r] \in {"run", "finish", "link"} <=> pc'[r] \in {"run", "finish", "link"}
    BY <1>1 DEF Core, Types
  <1> QED
    BY <1>1, <1>2 DEF Held

(* Steps that touch no list.                                               *)
LEMMA QuietStep ==
  ASSUME Core, NEW q \in Orders, NEW d \in Orders, NEW k \in Orders, Sound(q, d, k),
         NEW p \in Threads, Quiet(p)
  PROVE  Sound(q, d, k)'
  <1>1. /\ UNCHANGED << lists, active, cur, worker, exitLock >> /\ Held' = Held
        /\ faults \in Nat /\ faults' \in Nat /\ faults <= faults'
        /\ pc[p] # "last" /\ pc'[p] # "last" /\ pc[p] # "gone"
        /\ pc' = [pc EXCEPT ![p] = pc'[p]]
    BY QuietFrame
  <1>2. RowsAreLinked(q, d, k)'
    BY <1>1, RowsStayLinked DEF RowsStay, lists, worker, Sound, Core, Types
  <1>3. RowsAreApart(q, d, k)'
    BY <1>1 DEF RowsAreApart, worker, Sound
  <1>4. TasksAreActive(q, d, k)'
    <2>1. Here(q, d, k)' = Here(q, d, k) /\ active' = active
      BY <1>1 DEF Here, worker
    <2>2. Cardinality((active \cap Tasks) \ Here(q, d, k)) \in Nat
      BY LostTasks, FiniteAll DEF Core, Types
    <2> QED
      BY <1>1, <2>1, <2>2 DEF TasksAreActive, Sound
  <1>5. ExitsAreCounted(q)'
    <2>1. Cardinality(Gone) <= Cardinality(Gone')
      <3>1. Gone' = Gone \/ Gone' = Gone \cup {p}
        BY <1>1 DEF Gone, Core, Types
      <3>2. Gone \in SUBSET Threads /\ p \notin Gone
        BY <1>1 DEF Gone
      <3>3. Cardinality(Gone) \in Nat /\ Cardinality(Gone \cup {p}) = Cardinality(Gone) + 1
        BY <3>2, ThreadSets
      <3>4. \/ Cardinality(Gone') = Cardinality(Gone)
            \/ Cardinality(Gone') = Cardinality(Gone) + 1
        BY <3>1, <3>3, Zenon
      <3> QED
        BY <3>3, <3>4
    <2>2. Cardinality(Gone) \in Nat /\ Cardinality(Gone') \in Nat
      BY ThreadSets DEF Gone
    <2>3. UNCHANGED << wpc, arg, back, exits, exitLock, Held >> /\ exits \in Nat
      BY <1>1 DEF worker, Core, Types
    <2> QED
      BY <2>1, <2>2, <2>3 DEF ExitsAreCounted, Exiting, Sound
  <1> DEFINE OneIs(l) == \E r \in Threads : pc[r] = l
  <1>6. SleepersAreWoken(q)' /\ QueueIsCounted(q)'
    <2>0. /\ Cardinality(Idle) \in Nat /\ Cardinality(Woken) \in Nat /\ Len(q) \in Nat
          /\ wpc' = wpc /\ waiting \in Int
          /\ queue.first = NULL <=> q = << >>
          /\ \A r \in Threads : pc[r] = "check" => mtx = r
          /\ wpc \in {"limit", "append"} <=> mtx = Worker
          /\ mtx = NULL \/ mtx = Worker => ~ OneIs("check")
      <3>1. queue.first = NULL <=> q = << >>
        BY LinkedEmpty DEF Sound, RowsAreLinked, IsRow, LinkedBy
      <3>2. Idle \in SUBSET Threads /\ Woken \in SUBSET Threads
        BY DEF Idle, Woken
      <3>3. Cardinality(Idle) \in Nat /\ Cardinality(Woken) \in Nat
        BY <3>2, ThreadSets
      <3>4. Len(q) \in Nat
        BY RowBasics
      <3>5. wpc' = wpc /\ waiting \in Int
        BY <1>1 DEF worker, Core, Types
      <3>6. /\ \A r \in Threads : pc[r] = "check" => mtx = r
            /\ wpc \in {"limit", "append"} <=> mtx = Worker
        BY DEF Core, LocksAreHeld
      <3>7. mtx = NULL \/ mtx = Worker => ~ OneIs("check")
        BY <3>6, ThreadPoolAssumption
      <3> QED
        BY <3>1, <3>3, <3>4, <3>5, <3>6, <3>7
    <2> USE DEF Core, Types
    <2>1. CASE Lock(p)
      <3>1. Idle' = Idle \cup {p} /\ p \notin Idle /\ Woken' = Woken
        BY <2>1 DEF Lock, Go, Idle, Woken
      <3>2. Cardinality(Idle') = Cardinality(Idle) + 1
        BY <3>1, ThreadSets DEF Idle
      <3>3. waiting' = waiting - 1
        BY <2>1 DEF Lock
      <3>4. QueueIsCounted(q)'
        BY <2>0, <3>2, <3>3 DEF QueueIsCounted, Sound
      <3>5. OneIs("asleep")' => OneIs("asleep")
        BY <2>1 DEF Lock, Go
      <3>6. wpc # "append" /\ OneIs("check")' /\ ~ OneIs("check")
        BY <2>0, <2>1, ThreadPoolAssumption DEF Lock, Go
      <3>7. SleepersAreWoken(q)'
        BY <2>0, <3>1, <3>5, <3>6 DEF SleepersAreWoken, Sound
      <3> QED
        BY <3>4, <3>7
    <2>2. CASE LockFails(p) \/ SpinLock(p) \/ Notify(p)
      <3>1. /\ Idle' = Idle /\ Woken' = Woken /\ waiting' = waiting
            /\ OneIs("asleep")' <=> OneIs("asleep")
            /\ OneIs("check")' <=> OneIs("check")
        BY <2>2 DEF LockFails, SpinLock, Notify, Fail, Go, Idle, Woken
      <3> QED
        BY <2>0, <3>1 DEF SleepersAreWoken, QueueIsCounted, Sound
    <2>3. CASE Sleep(p)
      <3>1. /\ Idle' = Idle /\ Woken' = Woken /\ waiting' = waiting /\ wpc # "append"
            /\ q = << >>
        BY <2>0, <2>3, ThreadPoolAssumption DEF Sleep, Fail, Go, Idle, Woken
      <3>2. Len(q) = 0
        BY <3>1, RowBasics
      <3> QED
        BY <2>0, <3>1, <3>2 DEF SleepersAreWoken, QueueIsCounted, Sound
    <2>4. CASE SpuriousWakeup(p)
      <3>1. /\ Idle' = Idle /\ Woken' = Woken \cup {p} /\ p \notin Woken /\ waiting' = waiting
            /\ OneIs("asleep")
            /\ OneIs("check")' <=> OneIs("check")
        BY <2>4 DEF SpuriousWakeup, Go, Idle, Woken
      <3>2. Cardinality(Woken') = Cardinality(Woken) + 1
        BY <3>1, ThreadSets DEF Woken
      <3> QED
        BY <2>0, <3>1, <3>2 DEF SleepersAreWoken, QueueIsCounted, Sound
    <2>5. CASE Relock(p)
      <3>1. /\ Idle' = Idle /\ Woken' = Woken \ {p} /\ p \in Woken /\ waiting' = waiting
            /\ OneIs("asleep")' => OneIs("asleep")
            /\ OneIs("check")' /\ ~ OneIs("check") /\ wpc # "append"
        BY <2>0, <2>5, ThreadPoolAssumption DEF Relock, Go, Idle, Woken
      <3>2. Cardinality(Woken') = Cardinality(Woken) - 1
        BY <3>1, ThreadSets DEF Woken
      <3> QED
        BY <2>0, <3>1, <3>2 DEF SleepersAreWoken, QueueIsCounted, Sound
    <2> QED
      BY <2>1, <2>2, <2>3, <2>4, <2>5 DEF Quiet
  <1> QED
    BY <1>2, <1>3, <1>4, <1>5, <1>6 DEF Sound

-----------------------------------------------------------------------------
(* Steps of the worker that leave the rows as they are. *)

(* How many threads wait, were woken and are gone are numbers.             *)
LEMMA Counts ==
  /\ Cardinality(Idle) \in Nat /\ Cardinality(Woken) \in Nat /\ Cardinality(Gone) \in Nat
  /\ Cardinality(Idle') \in Nat /\ Cardinality(Woken') \in Nat /\ Cardinality(Gone') \in Nat
  <1>1. /\ Idle \in SUBSET Threads /\ Woken \in SUBSET Threads /\ Gone \in SUBSET Threads
        /\ Idle' \in SUBSET Threads /\ Woken' \in SUBSET Threads /\ Gone' \in SUBSET Threads
    BY DEF Idle, Woken, Gone
  <1>2. Threads # {}
    BY ThreadPoolAssumption
  <1> QED
    BY <1>1, <1>2, ThreadSets

QuietWork ==
  \/ UserPosts \/ PostRefused \/ Notified \/ WorkerSpinLock \/ CallbackReturns \/ Ending

LEMMA QuietWorkFrame ==
  ASSUME Core, NEW q \in Orders, NEW d \in Orders, NEW k \in Orders, Sound(q, d, k), QuietWork
  PROVE  /\ UNCHANGED << lists, waiting, pc, cur, taken >>
         /\ Held' = Held /\ Gone' = Gone /\ Idle' = Idle /\ Woken' = Woken
         /\ wpc \notin {"append", "reset"} /\ wpc' \notin {"append", "reset"}
         /\ active' \cap Tasks = active \cap Tasks
         /\ faults \in Nat /\ faults' \in Nat /\ faults <= faults'
         /\ arg' \notin Within(q) \cup Within(d) \cup Within(k) \cup Held
         /\ k # << >> => \/ wpc' \in {"reset", "complete", "callback"}
                         \/ wpc' \in {"limit", "append"} /\ back' = "callback"
         /\ ExitsAreCounted(q)'
  <1> USE ThreadPoolAssumption DEF QuietWork, Ending
  <1>1. UNCHANGED << lists, waiting, pc, cur, taken >>
    BY DEF UserPosts, PostRefused, Notified, WorkerSpinLock, CallbackReturns, ExitWorker,
           DestroyPosts, ThreadEnded, Destroyed
  <1>2. Held' = Held /\ Gone' = Gone /\ Idle' = Idle /\ Woken' = Woken
    BY <1>1 DEF Held, Gone, Idle, Woken
  <1>3. /\ wpc \notin {"append", "reset"} /\ wpc' \notin {"append", "reset"}
        /\ active' \cap Tasks = active \cap Tasks
        /\ faults \in Nat /\ faults' \in Nat /\ faults <= faults'
    BY DEF UserPosts, Post, Fail, PostRefused, Notified, WorkerSpinLock, CallbackReturns, ExitWorker,
           DestroyPosts, ThreadEnded, Destroyed, Core, Types
  <1>4. NULL \notin Within(q) \cup Within(d) \cup Within(k) \cup Held
    BY RowBasics, FiniteAll DEF Held, Core, HandsAreTrue
  <1>5. \/ arg' = arg \/ arg' = NULL
        \/ UserPosts /\ arg' \in Tasks \ active
        \/ DestroyPosts /\ arg' = Exit
    BY DEF UserPosts, Post, PostRefused, Notified, WorkerSpinLock, CallbackReturns, ExitWorker,
           DestroyPosts, ThreadEnded, Destroyed
  <1>6. arg' \notin Within(q) \cup Within(d) \cup Within(k) \cup Held
    <2>1. CASE arg' = arg
      BY <2>1 DEF Sound, RowsAreApart
    <2>2. CASE UserPosts /\ arg' \in Tasks \ active
      BY <2>2 DEF Sound, TasksAreActive, Here
    <2>3. CASE DestroyPosts /\ arg' = Exit
      BY <2>3 DEF Sound, ExitsAreCounted, RowsAreApart, DestroyPosts
    <2> QED
      BY <1>4, <1>5, <2>1, <2>2, <2>3
  <1>7. k # << >> => \/ wpc' \in {"reset", "complete", "callback"}
                     \/ wpc' \in {"limit", "append"} /\ back' = "callback"
    <2> DEFINE Busy == \/ wpc \in {"reset", "complete", "callback"}
                       \/ wpc \in {"limit", "append"} /\ back = "callback"
    <2>1. k # << >> => Busy
      BY DEF Sound, RowsAreApart
    <2>2. Busy => Busy'
      BY DEF UserPosts, Post, PostRefused, Notified, WorkerSpinLock, CallbackReturns, ExitWorker,
           DestroyPosts, ThreadEnded, Destroyed
    <2> QED
      BY <2>1, <2>2
  <1>8. ExitsAreCounted(q)'
    <2> USE DEF Sound, ExitsAreCounted, Exiting
    <2>1. exits \in Nat /\ Cardinality(Gone) \in Nat
      BY Counts DEF Core, Types
    <2>2. CASE UserPosts
      BY <1>2, <2>1, <2>2 DEF UserPosts, Post
    <2>3. CASE PostRefused
      BY <1>2, <2>1, <2>3 DEF PostRefused, Core, Types
    <2>4. CASE Notified \/ WorkerSpinLock \/ CallbackReturns \/ ExitWorker
      BY <1>2, <2>1, <2>4 DEF Notified, WorkerSpinLock, CallbackReturns, ExitWorker
    <2>5. CASE DestroyPosts
      BY <1>2, <2>1, <2>5 DEF DestroyPosts
    <2>6. CASE ThreadEnded
      BY <1>2, <2>1, <2>6 DEF ThreadEnded
    <2>7. CASE Destroyed
      BY <1>2, <2>1, <2>7 DEF Destroyed
    <2> QED
      BY <2>2, <2>3, <2>4, <2>5, <2>6, <2>7
  <1> QED
    BY <1>1, <1>2, <1>3, <1>6, <1>7, <1>8

(* Steps of a thread that touch no list.                                   *)
LEMMA QuietWorkStep ==
  ASSUME Core, NEW q \in Orders, NEW d \in Orders, NEW k \in Orders, Sound(q, d, k), QuietWork
  PROVE  Sound(q, d, k)'
  <1>1. /\ UNCHANGED << lists, waiting, pc, cur, taken >>
        /\ Held' = Held /\ Idle' = Idle /\ Woken' = Woken
        /\ wpc \notin {"append", "reset"} /\ wpc' \notin {"append", "reset"}
        /\ active' \cap Tasks = active \cap Tasks
        /\ faults \in Nat /\ faults' \in Nat /\ faults <= faults'
        /\ arg' \notin Within(q) \cup Within(d) \cup Within(k) \cup Held
        /\ k # << >> => \/ wpc' \in {"reset", "complete", "callback"}
                        \/ wpc' \in {"limit", "append"} /\ back' = "callback"
    BY QuietWorkFrame
  <1>2. RowsAreLinked(q, d, k)'
    BY <1>1, RowsStayLinked DEF RowsStay, lists, Sound
  <1>3. RowsAreApart(q, d, k)'
    BY <1>1 DEF RowsAreApart, Sound
  <1>4. TasksAreActive(q, d, k)'
    <2>1. Here(q, d, k)' = Here(q, d, k)
      BY <1>1 DEF Here
    <2> DEFINE lost == (active \cap Tasks) \ Here(q, d, k)
    <2>2. lost' = lost
      BY <1>1, <2>1
    <2>3. Cardinality(lost) \in Nat /\ Cardinality(lost) <= faults
      BY LostTasks, FiniteAll DEF Core, Types, TasksAreActive, Sound
    <2>4. Cardinality(lost') = Cardinality(lost)
      BY <2>2, Zenon
    <2>5. Cardinality(lost') <= faults'
      BY <1>1, <2>3, <2>4
    <2> QED
      BY <1>1, <2>1, <2>5 DEF TasksAreActive, Sound
  <1>5. ExitsAreCounted(q)'
    BY QuietWorkFrame
  <1>6. SleepersAreWoken(q)' /\ QueueIsCounted(q)'
    BY <1>1 DEF SleepersAreWoken, QueueIsCounted, Sound
  <1> QED
    BY <1>2, <1>3, <1>4, <1>5, <1>6 DEF Sound

-----------------------------------------------------------------------------
(* The worker appends to the queue, and empties the done list. *)

LEMMA LostKept ==
  ASSUME Core, NEW q, NEW d, NEW k, TasksAreActive(q, d, k),
         NEW U, U \subseteq (active \cap Tasks) \ Here(q, d, k), faults' \in Nat, faults <= faults'
  PROVE  Cardinality(U) <= faults'
  <1> DEFINE lost == (active \cap Tasks) \ Here(q, d, k)
  <1>1. lost \in SUBSET All /\ faults \in Nat /\ Cardinality(lost) <= faults
    BY FiniteAll, ThreadPoolAssumption DEF TasksAreActive, Core, Types
  <1> HIDE DEF lost
  <1>2. Cardinality(lost) \in Nat /\ Cardinality(U) \in Nat /\ Cardinality(U) <= Cardinality(lost)
    BY <1>1, LostTasks DEF lost
  <1> QED
    BY <1>1, <1>2

(* ngx_thread_task_post() wakes a thread and unlocks.                      *)
LEMMA PostSignalStep ==
  ASSUME Core, NEW q \in Orders, NEW d \in Orders, NEW k \in Orders, Sound(q, d, k), PostSignal
  PROVE  Held' = Held /\ Sound(q, d, k)'
  <1> USE ThreadPoolAssumption
  <1>1. /\ wpc = "limit" /\ arg \in All /\ arg # NULL /\ mtx = Worker
        /\ next' = [next EXCEPT ![arg] = NULL] /\ active' = active \cup {arg}
        /\ UNCHANGED << queue, done, waiting, doneLock, cur, back, taken, exits, exitLock >>
        /\ back \in {"loop", "callback", "destroy"}
    BY FiniteAll DEF PostSignal, Core, Types, LocksAreHeld, HandsAreTrue
  <1>2. \/ /\ \E p \in Threads : pc[p] = "asleep" /\ Go(p, "woken")
           /\ wpc' = "append" /\ arg' = arg /\ faults' = faults
        \/ /\ \A p \in Threads : pc[p] # "asleep"
           /\ pc' = pc
           /\ wpc' = "append" /\ arg' = arg /\ faults' = faults
        \/ /\ pc' = pc /\ faults' = faults + 1
           /\ wpc' = (IF back = "destroy" THEN "abandoned" ELSE back) /\ arg' = NULL
    BY DEF PostSignal, Fail
  <1>3. /\ \A r \in Threads : \/ pc'[r] = pc[r]
                              \/ pc[r] = "asleep" /\ pc'[r] = "woken"
        /\ Held' = Held /\ Gone' = Gone /\ Idle' = Idle
    <2>1. \A r \in Threads : \/ pc'[r] = pc[r]
                             \/ pc[r] = "asleep" /\ pc'[r] = "woken"
      BY <1>2 DEF Go, Core, Types
    <2> QED
      BY <1>1, <2>1 DEF Held, Gone, Idle
  <1>4. arg \notin Within(q) \cup Within(d) \cup Within(k) \cup Held
    BY DEF Sound, RowsAreApart
  <1>5. RowsAreLinked(q, d, k)'
    <2>1. \A x \in Within(q) \cup Within(d) \cup Within(k) : next'[x] = next[x]
      BY <1>1, <1>4, RowBasics DEF Core, Types, Links
    <2> QED
      BY <1>1, <1>3, <2>1, RowsStayLinked DEF RowsStay, Sound
  <1>6. NULL \notin Within(q) \cup Within(d) \cup Within(k) \cup Held
    BY RowBasics, FiniteAll DEF Held, Core, HandsAreTrue
  <1>7. RowsAreApart(q, d, k)'
    BY <1>1, <1>2, <1>3, <1>4, <1>6 DEF RowsAreApart, Sound
  <1>8. TasksAreActive(q, d, k)'
    <2> DEFINE lost == (active \cap Tasks) \ Here(q, d, k)
    <2>1. lost \in SUBSET All /\ faults \in Nat /\ Cardinality(lost) <= faults
      BY FiniteAll DEF TasksAreActive, Core, Types, Sound
    <2>2. (Here(q, d, k) \cap Tasks \subseteq active)'
      BY <1>1, <1>2, <1>3 DEF Here, TasksAreActive, Sound
    <2>3. CASE wpc' = "append"
      <3>1. lost' \subseteq lost /\ faults' = faults
        BY <1>1, <1>2, <1>3, <2>3 DEF Here
      <3>2. Cardinality(lost') <= faults'
        BY <2>1, <3>1, LostKept DEF Sound
      <3> QED
        BY <2>2, <3>2 DEF TasksAreActive
    <2>4. CASE wpc' # "append"
      <3>1. lost' \subseteq lost \cup {arg} /\ faults' = faults + 1
        BY <1>1, <1>2, <1>3, <2>4 DEF Here
      <3> HIDE DEF lost
      <3>2. /\ Cardinality(lost) \in Nat /\ Cardinality(lost') \in Nat
            /\ Cardinality(lost') <= Cardinality(lost) + 1
        BY <2>1, <3>1, LostTask
      <3>3. Cardinality(lost') <= faults'
        BY <2>1, <3>1, <3>2
      <3> QED
        BY <2>2, <3>3 DEF TasksAreActive, lost
    <2> QED
      BY <2>3, <2>4
  <1>9. ExitsAreCounted(q)'
    <2>1. exits \in Nat
      BY DEF Core, Types
    <2> QED
      BY <1>1, <1>2, <1>3, <2>1 DEF ExitsAreCounted, Exiting, Sound
  <1>10. QueueIsCounted(q)'
    BY <1>1, <1>3 DEF QueueIsCounted, Sound
  <1>11. SleepersAreWoken(q)'
    <2>1. \A r \in Threads : pc[r] # "check" /\ pc'[r] # "check"
      BY <1>1, <1>3 DEF Core, LocksAreHeld
    <2>2. Len(q) \in Nat /\ Cardinality(Woken) \in Nat /\ Cardinality(Woken') \in Nat
      BY RowBasics, Counts
    <2>3. CASE \E p \in Threads : pc[p] = "asleep" /\ Go(p, "woken")
      <3>1. PICK p \in Threads : pc[p] = "asleep" /\ Go(p, "woken")
        BY <2>3
      <3>2. Woken' = Woken \cup {p} /\ p \notin Woken /\ Woken \in SUBSET Threads
        BY <3>1 DEF Woken, Go, Core, Types
      <3>3. Cardinality(Woken \cup {p}) = Cardinality(Woken) + 1
        BY <3>2, ThreadSets
      <3>4. Cardinality(Woken') = Cardinality(Woken) + 1
        BY <3>2, <3>3, Zenon
      <3>5. Len(q) <= Cardinality(Woken)
        BY <1>1, <2>1, <2>2, <3>1 DEF SleepersAreWoken, Sound
      <3> QED
        BY <1>1, <1>2, <2>1, <2>2, <3>4, <3>5 DEF SleepersAreWoken
    <2>4. CASE pc' = pc /\ \A p \in Threads : pc[p] # "asleep"
      BY <2>4 DEF SleepersAreWoken
    <2>5. CASE pc' = pc /\ wpc' # "append"
      <3>1. Woken' = Woken
        BY <2>5 DEF Woken
      <3> QED
        BY <1>1, <2>1, <2>2, <2>5, <3>1 DEF SleepersAreWoken, Sound
    <2> QED
      BY <1>1, <1>2, <2>3, <2>4, <2>5
  <1> QED
    BY <1>3, <1>5, <1>7, <1>8, <1>9, <1>10, <1>11 DEF Sound

(* It appends the task to the queue.                                       *)
LEMMA PostAppendStep ==
  ASSUME Core, NEW q \in Orders, NEW d \in Orders, NEW k \in Orders, Sound(q, d, k), PostAppend
  PROVE  Held' = Held /\ \E r \in Orders : r = Append(q, arg) /\ Sound(r, d, k)'
  <1> USE ThreadPoolAssumption
  <1>1. /\ wpc = "append" /\ arg \in All /\ mtx = Worker /\ next[arg] = NULL /\ arg \in active
        /\ next' = LinkNext(queue, arg)
        /\ queue' = [first |-> LinkFirst(queue, arg), last |-> arg]
        /\ waiting' = waiting + 1 /\ arg' = NULL
        /\ wpc' = IF back = "destroy" THEN "await" ELSE back
        /\ UNCHANGED << done, active, doneLock, pc, cur, back, taken, exits, exitLock, faults >>
        /\ back \in {"loop", "callback", "destroy"}
        /\ arg = Exit <=> back = "destroy"
    BY FiniteAll DEF PostAppend, Core, Types, LocksAreHeld, HandsAreTrue
  <1>2. arg \notin Within(q) \cup Within(d) \cup Within(k) \cup Held
    BY DEF Sound, RowsAreApart
  <1>a. PICK r \in Orders : r = Append(q, arg)
    BY <1>1, <1>2, RowAppend
  <1>3. /\ r # << >> /\ Within(r) = Within(q) \cup {arg}
        /\ Len(r) = Len(q) + 1 /\ r[Len(q) + 1] = arg
    BY <1>1, <1>2, <1>a, RowAppend
  <1>4. /\ LinkedBy(next, q, queue.first) /\ EndsAt(q, queue.last)
        /\ LinkedBy(next, d, done.first) /\ LinkedBy(next, k, taken)
    BY DEF Sound, RowsAreLinked, IsRow, LinkedBy
  <1>5. /\ LinkedBy(next', r, LinkFirst(queue, arg)) /\ EndsAt(r, arg)
        /\ \A x \in All : x \notin Within(q) => next'[x] = next[x]
    BY <1>1, <1>2, <1>4, <1>a, LinkedAppend DEF LinkNext, LinkFirst, Core, Types
  <1>6. \A x \in Within(d) \cup Within(k) : next'[x] = next[x]
    BY <1>5, RowBasics DEF Sound, RowsAreApart
  <1>7. LinkedBy(next', d, done.first) /\ LinkedBy(next', k, taken)
    BY <1>4, <1>6, LinkedFrame
  <1>8. Held' = Held /\ Gone' = Gone /\ Idle' = Idle /\ Woken' = Woken
    BY <1>1 DEF Held, Gone, Idle, Woken
  <1>9. RowsAreLinked(r, d, k)'
    <2>1. IsRow(r, queue.first)' /\ EndsAt(r, queue.last)'
      BY <1>1, <1>5 DEF IsRow, LinkedBy
    <2>2. IsRow(d, done.first)' /\ IsRow(k, taken)'
      BY <1>1, <1>7 DEF IsRow, LinkedBy
    <2> QED
      BY <1>1, <2>1, <2>2 DEF RowsAreLinked, Sound, EndsAt
  <1>10. NULL \notin Within(r) \cup Within(d) \cup Within(k) \cup Held
    BY <1>3, RowBasics, FiniteAll DEF Held, Core, HandsAreTrue
  <1>11. arg = Exit => arg \notin Within(d) \cup Within(k)
    BY <1>2
  <1>12. RowsAreApart(r, d, k)'
    BY <1>1, <1>2, <1>3, <1>8, <1>10 DEF RowsAreApart, Sound
  <1>13. TasksAreActive(r, d, k)'
    <2>1. Here(r, d, k)' = Here(q, d, k)
      BY <1>1, <1>3, <1>8 DEF Here
    <2>2. ((active \cap Tasks) \ Here(r, d, k))' \subseteq (active \cap Tasks) \ Here(q, d, k)
      BY <1>1, <2>1
    <2>3. faults \in Nat /\ faults' = faults
      BY <1>1 DEF Core, Types
    <2>4. Cardinality(((active \cap Tasks) \ Here(r, d, k))') <= faults'
      BY <2>2, <2>3, LostKept DEF Sound
    <2> QED
      BY <1>1, <2>1, <2>4 DEF TasksAreActive, Sound
  <1>14. ExitsAreCounted(r)'
    <2>1. Exit \notin Within(q) \cup Held
      BY <1>1 DEF ExitsAreCounted, Sound
    <2>2. arg = Exit => exitLock
      BY <1>1 DEF ExitsAreCounted, Sound
    <2>3. exits > 0 => arg = Exit /\ Within(q) \subseteq {Exit}
      BY <1>1 DEF ExitsAreCounted, Exiting, Sound
    <2>4. r[Len(r)] = arg
      BY <1>3
    <2>5. exits \in Nat /\ exits <= Cardinality(Gone)
      BY <1>1, Counts DEF ExitsAreCounted, Sound, Core, Types
    <2> QED
      BY <1>1, <1>3, <1>8, <2>1, <2>2, <2>3, <2>4, <2>5 DEF ExitsAreCounted, Exiting
  <1>15. QueueIsCounted(r)'
    <2>1. Len(q) \in Nat /\ Cardinality(Idle) \in Nat
      BY RowBasics, Counts
    <2> QED
      BY <1>1, <1>3, <1>8, <2>1 DEF QueueIsCounted, Sound
  <1>16. SleepersAreWoken(r)'
    <2>1. Len(q) \in Nat /\ Cardinality(Woken) \in Nat
      BY RowBasics, Counts
    <2> QED
      BY <1>1, <1>3, <1>8, <2>1 DEF SleepersAreWoken, Sound
  <1>17. Sound(r, d, k)'
    BY <1>9, <1>12, <1>13, <1>14, <1>15, <1>16 DEF Sound
  <1> QED
    BY <1>8, <1>17, <1>a

(* ngx_thread_pool_handler() takes the completed tasks.                    *)
LEMMA DetachStep ==
  ASSUME Core, NEW q \in Orders, NEW d \in Orders, NEW k \in Orders, Sound(q, d, k), Detach
  PROVE  Sound(q, d, d)'
  <1> USE ThreadPoolAssumption
  <1>1. /\ wpc = "detach" /\ wpc' = "reset" /\ taken' = done.first
        /\ UNCHANGED << next, queue, done, active, waiting, mtx, doneLock, pc, cur, arg, back,
                        exits, exitLock, faults >>
    BY DEF Detach, lists, locks
  <1>2. k = << >> /\ Within(k) = {}
    BY <1>1, RowEmpty DEF Sound, RowsAreApart
  <1>3. Held' = Held /\ Gone' = Gone /\ Idle' = Idle /\ Woken' = Woken
    BY <1>1 DEF Held, Gone, Idle, Woken
  <1>4. RowsAreLinked(q, d, d)'
    BY <1>1 DEF RowsAreLinked, Sound, IsRow, EndsAt
  <1>5. RowsAreApart(q, d, d)'
    BY <1>1, <1>2, <1>3 DEF RowsAreApart, Sound
  <1>6. TasksAreActive(q, d, d)'
    <2>1. Here(q, d, d)' = Here(q, d, k)
      BY <1>1, <1>2, <1>3 DEF Here
    <2>2. ((active \cap Tasks) \ Here(q, d, d))' \subseteq (active \cap Tasks) \ Here(q, d, k)
      BY <1>1, <2>1
    <2>3. faults \in Nat /\ faults' = faults
      BY <1>1 DEF Core, Types
    <2>4. Cardinality(((active \cap Tasks) \ Here(q, d, d))') <= faults'
      BY <2>2, <2>3, LostKept DEF Sound
    <2> QED
      BY <1>1, <2>1, <2>4 DEF TasksAreActive, Sound
  <1>7. ExitsAreCounted(q)'
    BY <1>1, <1>3 DEF ExitsAreCounted, Exiting, Sound
  <1>8. SleepersAreWoken(q)' /\ QueueIsCounted(q)'
    BY <1>1, <1>3 DEF SleepersAreWoken, QueueIsCounted, Sound
  <1> QED
    BY <1>4, <1>5, <1>6, <1>7, <1>8 DEF Sound

(* It empties the list of completed tasks.                                 *)
LEMMA ResetDoneStep ==
  ASSUME Core, NEW q \in Orders, NEW d \in Orders, NEW k \in Orders, Sound(q, d, k), ResetDone
  PROVE  k = d /\ Sound(q, << >>, k)'
  <1> USE ThreadPoolAssumption
  <1>1. /\ wpc = "reset" /\ wpc' = "complete" /\ done' = EmptyList
        /\ UNCHANGED << next, queue, active, waiting, mtx, pc, cur, arg, back,
                        taken, exits, exitLock, faults >>
        /\ doneLock = Worker
    BY DEF ResetDone, Core, LocksAreHeld
  <1>2. k = d /\ Within(<< >>) = {}
    BY <1>1, RowEmpty DEF Sound, RowsAreApart
  <1>3. Held' = Held /\ Gone' = Gone /\ Idle' = Idle /\ Woken' = Woken
    BY <1>1 DEF Held, Gone, Idle, Woken
  <1>4. RowsAreLinked(q, << >>, k)'
    <2>1. \A r \in Threads : pc[r] # "last"
      BY <1>1 DEF Core, LocksAreHeld
    <2>2. IsRow(<< >>, done.first)' /\ EndsAt(<< >>, done.last)'
      BY <1>1 DEF EmptyList, IsRow, EndsAt
    <2> QED
      BY <1>1, <2>1, <2>2 DEF RowsAreLinked, Sound, IsRow, EndsAt
  <1>5. RowsAreApart(q, << >>, k)'
    BY <1>1, <1>2, <1>3 DEF RowsAreApart, Sound
  <1>6. TasksAreActive(q, << >>, k)'
    <2>1. Here(q, << >>, k)' = Here(q, d, k)
      BY <1>1, <1>2, <1>3 DEF Here
    <2>2. ((active \cap Tasks) \ Here(q, << >>, k))' \subseteq (active \cap Tasks) \ Here(q, d, k)
      BY <1>1, <2>1
    <2>3. faults \in Nat /\ faults' = faults
      BY <1>1 DEF Core, Types
    <2>4. Cardinality(((active \cap Tasks) \ Here(q, << >>, k))') <= faults'
      BY <2>2, <2>3, LostKept DEF Sound
    <2> QED
      BY <1>1, <2>1, <2>4 DEF TasksAreActive, Sound
  <1>7. ExitsAreCounted(q)'
    BY <1>1, <1>3 DEF ExitsAreCounted, Exiting, Sound
  <1>8. SleepersAreWoken(q)' /\ QueueIsCounted(q)'
    BY <1>1, <1>3 DEF SleepersAreWoken, QueueIsCounted, Sound
  <1> QED
    BY <1>2, <1>4, <1>5, <1>6, <1>7, <1>8 DEF Sound

(* A task is completed, or the worker is back in its loop. *)
LEMMA CompleteStep ==
  ASSUME Core, NEW q \in Orders, NEW d \in Orders, NEW k \in Orders, Sound(q, d, k), Complete
  PROVE  IF taken = NULL
           THEN k = << >> /\ Sound(q, d, k)'
           ELSE k # << >> /\ taken = k[1] /\ Tail(k) \in Orders /\ Sound(q, d, Tail(k))'
  <1> USE ThreadPoolAssumption
  <1>1. /\ wpc = "complete" /\ arg = NULL
        /\ UNCHANGED << next, queue, done, waiting, mtx, doneLock, pc, cur, arg, back,
                        exits, exitLock, faults >>
    BY DEF Complete, lists, locks, Core, HandsAreTrue
  <1>2. IF taken = NULL
          THEN wpc' = "loop" /\ active' = active /\ taken' = taken
          ELSE wpc' = "callback" /\ active' = active \ {taken} /\ taken' = next[taken]
    BY DEF Complete
  <1>3. Held' = Held /\ Gone' = Gone /\ Idle' = Idle /\ Woken' = Woken
    BY <1>1 DEF Held, Gone, Idle, Woken
  <1>4. LinkedBy(next, k, taken)
    BY DEF Sound, RowsAreLinked, IsRow, LinkedBy
  <1>5. ExitsAreCounted(q)'
    <2>1. exits \in Nat /\ ~ (exits > 0)
      BY <1>1 DEF ExitsAreCounted, Exiting, Sound, Core, Types
    <2> QED
      BY <1>1, <1>2, <1>3, <2>1 DEF ExitsAreCounted, Sound
  <1>6. SleepersAreWoken(q)' /\ QueueIsCounted(q)'
    BY <1>1, <1>2, <1>3 DEF SleepersAreWoken, QueueIsCounted, Sound
  <1>7. faults \in Nat /\ faults' = faults
    BY <1>1 DEF Core, Types
  <1>8. CASE taken = NULL
    <2>1. k = << >> /\ Within(k) = {}
      BY <1>4, <1>8, LinkedEmpty, RowEmpty
    <2>2. RowsAreLinked(q, d, k)'
      BY <1>1, <1>2, <1>8 DEF RowsAreLinked, Sound, IsRow, EndsAt
    <2>3. RowsAreApart(q, d, k)'
      BY <1>1, <1>2, <1>3, <1>8, <2>1 DEF RowsAreApart, Sound
    <2>4. TasksAreActive(q, d, k)'
      <3>1. Here(q, d, k)' = Here(q, d, k)
        BY <1>1, <1>2, <1>3, <1>8 DEF Here
      <3>2. ((active \cap Tasks) \ Here(q, d, k))' \subseteq (active \cap Tasks) \ Here(q, d, k)
        BY <1>2, <1>8, <3>1
      <3>3. Cardinality(((active \cap Tasks) \ Here(q, d, k))') <= faults'
        BY <3>2, <1>7, LostKept DEF Sound
      <3> QED
        BY <1>2, <1>8, <3>1, <3>3 DEF TasksAreActive, Sound
    <2> QED
      BY <1>5, <1>6, <1>8, <2>1, <2>2, <2>3, <2>4 DEF Sound
  <1>9. CASE taken # NULL
    <2>1. PICK t \in Orders : t = Tail(k)
      BY <1>4, <1>9, LinkedTail
    <2>2. k # << >> /\ taken = k[1] /\ LinkedBy(next, t, next[taken])
      BY <1>4, <1>9, <2>1, LinkedTail
    <2>3. Within(t) = Within(k) \ {taken} /\ taken \in Within(k)
      BY <2>1, <2>2, RowTail
    <2>4. RowsAreLinked(q, d, t)'
      <3>1. IsRow(t, taken)'
        BY <1>1, <1>2, <1>9, <2>2 DEF IsRow, LinkedBy
      <3> QED
        BY <1>1, <3>1 DEF RowsAreLinked, Sound, IsRow, EndsAt
    <2>5. RowsAreApart(q, d, t)'
      BY <1>1, <1>2, <1>3, <1>9, <2>3 DEF RowsAreApart, Sound
    <2>6. TasksAreActive(q, d, t)'
      <3>1. Here(q, d, t)' = Here(q, d, k) \ {taken}
        BY <1>1, <1>2, <1>3, <1>9, <2>3 DEF Here, Sound, RowsAreApart
      <3>2. ((active \cap Tasks) \ Here(q, d, t))' \subseteq (active \cap Tasks) \ Here(q, d, k)
        BY <1>2, <1>9, <3>1
      <3>3. Cardinality(((active \cap Tasks) \ Here(q, d, t))') <= faults'
        BY <3>2, <1>7, LostKept DEF Sound
      <3> QED
        BY <1>2, <1>9, <3>1, <3>3 DEF TasksAreActive, Sound
    <2>7. Sound(q, d, t)'
      BY <1>5, <1>6, <2>4, <2>5, <2>6 DEF Sound
    <2> QED
      BY <1>9, <2>1, <2>2, <2>7
  <1> QED
    BY <1>8, <1>9

-----------------------------------------------------------------------------
(* Steps of a thread on the lists. *)

(* ngx_thread_pool_cycle() takes the first task.                           *)
LEMMA TakeTaskStep ==
  ASSUME Core, NEW q \in Orders, NEW d \in Orders, NEW k \in Orders, Sound(q, d, k),
         NEW p \in Threads, TakeTask(p)
  PROVE  /\ q # << >> /\ queue.first = q[1] /\ Held' = Held \cup {q[1]}
         /\ Tail(q) \in Orders /\ Sound(Tail(q), d, k)'
  <1> USE ThreadPoolAssumption
  <1> DEFINE t == queue.first
  <1>1. /\ pc[p] = "check" /\ mtx = p /\ t # NULL
        /\ cur' = [cur EXCEPT ![p] = t] /\ pc' = [pc EXCEPT ![p] = "run"]
        /\ queue' = [first |-> next[t], last |-> IF next[t] = NULL THEN NULL ELSE queue.last]
        /\ UNCHANGED << next, done, active, waiting, wpc, arg, back, taken, exits, exitLock, faults >>
    BY DEF TakeTask, Go, worker, Core, LocksAreHeld
  <1>2. PICK r \in Orders : r = Tail(q)
    <2>1. LinkedBy(next, q, t)
      BY RowFacts DEF Sound, Core
    <2> QED
      BY <1>1, <2>1, LinkedTail
  <1>3. /\ q # << >> /\ t = q[1] /\ LinkedBy(next, r, next[t])
        /\ EndsAt(r, IF next[t] = NULL THEN NULL ELSE queue.last)
    <2>1. LinkedBy(next, q, t) /\ EndsAt(q, queue.last)
      BY RowFacts DEF Sound, Core, RowsAreLinked
    <2> QED
      BY <1>1, <1>2, <2>1, LinkedTail
  <1>4. /\ Within(r) = Within(q) \ {t} /\ t \in Within(q)
        /\ Len(r) = Len(q) - 1 /\ Len(q) \in Nat \ {0}
        /\ \A i \in 1 .. Len(q) - 1 : r[i] = q[i + 1]
    BY <1>2, <1>3, RowTail
  <1>5. pc \in [Threads -> Places] /\ cur \in [Threads -> All \cup {NULL}]
    BY DEF Core, Types
  <1>6. cur[p] = NULL /\ \A x \in Threads : pc[x] = "check" => x = p
    BY <1>1 DEF Core, HandsAreTrue, LocksAreHeld
  <1>7. Held' = Held \cup {t}
    <2>1. \A x \in Threads : x # p => pc'[x] = pc[x] /\ cur'[x] = cur[x]
      BY <1>1, <1>5
    <2>2. pc'[p] = "run" /\ cur'[p] = t
      BY <1>1, <1>5
    <2>3. Held' \subseteq Held \cup {t}
      BY <2>1, <2>2 DEF Held
    <2>4. Held \cup {t} \subseteq Held'
      BY <1>1, <2>1, <2>2 DEF Held
    <2> QED
      BY <2>3, <2>4
  <1>8. /\ Gone' = Gone /\ Woken' = Woken
        /\ Idle' = Idle \ {p} /\ p \in Idle
        /\ \A x \in Threads : pc'[x] # "check"
    BY <1>1, <1>5, <1>6 DEF Gone, Woken, Idle
  <1>9. RowsAreLinked(r, d, k)'
    <2>1. IsRow(r, queue.first)' /\ EndsAt(r, queue.last)'
      BY <1>1, <1>3 DEF IsRow, LinkedBy, EndsAt
    <2>2. IsRow(d, done.first)' /\ IsRow(k, taken)'
      BY <1>1 DEF IsRow, Sound, RowsAreLinked
    <2>3. \A x \in Threads : /\ pc'[x] = "last" <=> pc[x] = "last"
                             /\ pc[x] = "last" => cur'[x] = cur[x]
      BY <1>1, <1>5
    <2> QED
      BY <1>1, <2>1, <2>2, <2>3 DEF RowsAreLinked, Sound, EndsAt
  <1>10. RowsAreApart(r, d, k)'
    BY <1>1, <1>4, <1>7 DEF RowsAreApart, Sound
  <1>11. TasksAreActive(r, d, k)'
    <2>1. Here(r, d, k)' = Here(q, d, k)
      BY <1>1, <1>4, <1>7 DEF Here
    <2>2. ((active \cap Tasks) \ Here(r, d, k))' \subseteq (active \cap Tasks) \ Here(q, d, k)
      BY <1>1, <2>1
    <2>3. faults \in Nat /\ faults' = faults
      BY <1>1 DEF Core, Types
    <2>4. Cardinality(((active \cap Tasks) \ Here(r, d, k))') <= faults'
      BY <2>2, <2>3, LostKept DEF Sound
    <2> QED
      BY <1>1, <2>1, <2>4 DEF TasksAreActive, Sound
  <1>12. ExitsAreCounted(r)'
    <2>1. Exit \in Within(r) \cup Held' <=> Exit \in Within(q) \cup Held
      BY <1>4, <1>7
    <2>2. Exit \in Within(r) => r[Len(r)] = Exit
      <3>1. Exit \in Within(r) => Len(r) \in 1 .. Len(q) - 1
        <4>1. Exit \in Within(r) => Len(r) # 0
          BY RowBasics
        <4> QED
          BY <1>4, <4>1
      <3>2. Exit \in Within(r) => q[Len(q)] = Exit
        BY <1>4 DEF Sound, ExitsAreCounted
      <3> QED
        BY <1>4, <3>1, <3>2
    <2>3. t = Exit => Within(r) = {}
      <3> SUFFICES ASSUME t = Exit
                   PROVE  Len(r) = 0
        BY RowBasics
      <3>1. q[Len(q)] = Exit
        BY <1>4 DEF Sound, ExitsAreCounted
      <3>2. 1 \in DOMAIN q /\ Len(q) \in DOMAIN q /\ Once(q)
        BY <1>4, RowBasics
      <3>3. Len(q) = 1
        BY <1>3, <3>1, <3>2 DEF Once
      <3> QED
        BY <1>4, <3>3
    <2>4. exits > 0 \/ Exit \in Held' \/ (wpc = "await" /\ ~exitLock) => Within(r) \subseteq {Exit}
      BY <1>4, <1>7, <2>3 DEF Sound, ExitsAreCounted
    <2> QED
      BY <1>1, <1>8, <2>1, <2>2, <2>4 DEF ExitsAreCounted, Exiting, Sound
  <1>13. QueueIsCounted(r)'
    <2>1. Idle \in SUBSET Threads /\ Cardinality(Idle) \in Nat
      BY Counts DEF Idle
    <2>2. Cardinality(Idle \ {p}) = Cardinality(Idle) - 1
      BY <1>8, <2>1, ThreadSets
    <2>3. Cardinality(Idle') = Cardinality(Idle) - 1
      BY <1>8, <2>2, Zenon
    <2> QED
      BY <1>1, <1>4, <2>1, <2>3 DEF QueueIsCounted, Sound
  <1>14. SleepersAreWoken(r)'
    <2>1. wpc # "append"
      BY <1>1 DEF Core, LocksAreHeld
    <2>2. \A x \in Threads : pc'[x] = "asleep" => pc[x] = "asleep"
      BY <1>1, <1>5
    <2>3. Cardinality(Woken) \in Nat
      BY Counts
    <2> QED
      BY <1>1, <1>4, <1>8, <2>1, <2>2, <2>3 DEF SleepersAreWoken, Sound
  <1>15. Sound(r, d, k)'
    BY <1>9, <1>10, <1>11, <1>12, <1>13, <1>14 DEF Sound
  <1> QED
    BY <1>2, <1>3, <1>7, <1>15

(* The steps that leave the rows, the set of idle threads and the queue of *)
(* wake-ups alone, and may change who holds what.                          *)
LEMMA CountsStay ==
  ASSUME NEW p \in Threads, pc \in [Threads -> Places], NEW l,
         pc' = [pc EXCEPT ![p] = l],
         {pc[p], l} \cap {"check", "asleep", "woken", "lost"} = {}
  PROVE  /\ Idle' = Idle /\ Woken' = Woken
         /\ \A x \in Threads : pc'[x] = "asleep" <=> pc[x] = "asleep"
         /\ \A x \in Threads : pc'[x] = "check" <=> pc[x] = "check"
  BY DEF Idle, Woken

(* It runs the handler of the task.                                        *)
LEMMA RunTaskStep ==
  ASSUME Core, NEW q \in Orders, NEW d \in Orders, NEW k \in Orders, Sound(q, d, k),
         NEW p \in Threads, RunTask(p)
  PROVE  Held' = Held /\ Sound(q, d, k)'
  <1> USE ThreadPoolAssumption
  <1>1. /\ pc[p] = "run" /\ cur[p] \in Tasks /\ pc' = [pc EXCEPT ![p] = "finish"]
        /\ next' = [next EXCEPT ![cur[p]] = NULL]
        /\ UNCHANGED << queue, done, active, waiting, cur, wpc, arg, back, taken, exits, exitLock, faults >>
        /\ pc \in [Threads -> Places] /\ next \in Links
    BY DEF RunTask, Go, worker, Core, Types
  <1>2. Held' = Held /\ Gone' = Gone
    BY <1>1 DEF Held, Gone
  <1>3. /\ Idle' = Idle /\ Woken' = Woken
        /\ \A x \in Threads : pc'[x] = "asleep" <=> pc[x] = "asleep"
        /\ \A x \in Threads : pc'[x] = "check" <=> pc[x] = "check"
    BY <1>1, CountsStay
  <1>4. cur[p] \in Held
    BY <1>1 DEF Held
  <1>5. \A x \in Within(q) \cup Within(d) \cup Within(k) : next'[x] = next[x]
    <2>1. \A x \in All : x # cur[p] => next'[x] = next[x]
      BY <1>1 DEF Links
    <2>2. cur[p] \notin Within(q) \cup Within(d) \cup Within(k)
      BY <1>4 DEF Sound, RowsAreApart
    <2> QED
      BY <2>1, <2>2, RowBasics
  <1>6. RowsAreLinked(q, d, k)'
    <2>1. \A x \in Threads : pc'[x] = "last" <=> pc[x] = "last"
      BY <1>1
    <2> QED
      BY <1>1, <1>5, <2>1, RowsStayLinked DEF RowsStay, Sound
  <1>7. RowsAreApart(q, d, k)'
    BY <1>1, <1>2 DEF RowsAreApart, Sound
  <1>8. TasksAreActive(q, d, k)'
    <2>1. Here(q, d, k)' = Here(q, d, k)
      BY <1>1, <1>2 DEF Here
    <2> QED
      BY <1>1, <2>1 DEF TasksAreActive, Sound
  <1>9. ExitsAreCounted(q)'
    BY <1>1, <1>2 DEF ExitsAreCounted, Exiting, Sound
  <1>10. SleepersAreWoken(q)' /\ QueueIsCounted(q)'
    BY <1>1, <1>3 DEF SleepersAreWoken, QueueIsCounted, Sound
  <1> QED
    BY <1>2, <1>6, <1>7, <1>8, <1>9, <1>10 DEF Sound

(* It runs the handler that ends the thread.                               *)
LEMMA RunExitStep ==
  ASSUME Core, NEW q \in Orders, NEW d \in Orders, NEW k \in Orders, Sound(q, d, k),
         NEW p \in Threads, RunExit(p)
  PROVE  Held' = Held \ {Exit} /\ Sound(q, d, k)'
  <1> USE ThreadPoolAssumption
  <1>1. /\ pc[p] = "run" /\ cur[p] = Exit /\ pc' = [pc EXCEPT ![p] = "gone"]
        /\ cur' = [cur EXCEPT ![p] = NULL] /\ exitLock' = FALSE
        /\ UNCHANGED << next, queue, done, active, waiting, wpc, arg, back, taken, exits, faults >>
        /\ pc \in [Threads -> Places] /\ cur \in [Threads -> All \cup {NULL}]
    BY DEF RunExit, Go, lists, worker, Core, Types
  <1>2. Held' = Held \ {Exit} /\ Exit \in Held
    <2>1. \A x \in Threads : x # p => pc'[x] = pc[x] /\ cur'[x] = cur[x]
      BY <1>1
    <2>2. pc'[p] = "gone"
      BY <1>1
    <2>3. \A x \in Threads : cur[x] = Exit => x = p
      BY <1>1, FiniteAll DEF Core, HandsAreTrue
    <2> QED
      BY <1>1, <2>1, <2>2, <2>3 DEF Held
  <1>3. Gone' = Gone \cup {p} /\ p \notin Gone /\ Gone \in SUBSET Threads
    BY <1>1 DEF Gone
  <1>4. /\ Idle' = Idle /\ Woken' = Woken
        /\ \A x \in Threads : pc'[x] = "asleep" <=> pc[x] = "asleep"
        /\ \A x \in Threads : pc'[x] = "check" <=> pc[x] = "check"
    BY <1>1, CountsStay
  <1>5. RowsAreLinked(q, d, k)'
    <2>1. \A x \in Threads : /\ pc'[x] = "last" <=> pc[x] = "last"
                             /\ pc[x] = "last" => cur'[x] = cur[x]
      BY <1>1
    <2> QED
      BY <1>1, <2>1, RowsStayLinked DEF RowsStay, Sound
  <1>6. RowsAreApart(q, d, k)'
    BY <1>1, <1>2 DEF RowsAreApart, Sound
  <1>7. TasksAreActive(q, d, k)'
    <2>1. Here(q, d, k) \subseteq Here(q, d, k)' \cup {Exit} /\ Here(q, d, k)' \subseteq Here(q, d, k)
      BY <1>1, <1>2 DEF Here
    <2>2. ((active \cap Tasks) \ Here(q, d, k))' \subseteq (active \cap Tasks) \ Here(q, d, k)
      BY <1>1, <2>1
    <2>3. faults \in Nat /\ faults' = faults
      BY <1>1 DEF Core, Types
    <2>4. Cardinality(((active \cap Tasks) \ Here(q, d, k))') <= faults'
      BY <2>2, <2>3, LostKept DEF Sound
    <2> QED
      BY <1>1, <2>1, <2>4 DEF TasksAreActive, Sound
  <1>8. ExitsAreCounted(q)'
    <2>1. Exit \notin Within(q) \cup Held' /\ wpc = "await" /\ exitLock
      BY <1>2 DEF Sound, RowsAreApart, ExitsAreCounted
    <2>2. Within(q) \subseteq {Exit}
      BY <1>2 DEF Sound, ExitsAreCounted
    <2>3. exits \in Nat /\ exits <= Cardinality(Gone)
      BY <2>1, Counts DEF Sound, ExitsAreCounted, Core, Types
    <2>4. Cardinality(Gone \cup {p}) = Cardinality(Gone) + 1
      BY <1>3, ThreadSets
    <2>5. Cardinality(Gone') = Cardinality(Gone) + 1
      BY <1>3, <2>4, Zenon
    <2>6. exits + 1 <= Cardinality(Gone')
      BY <2>3, <2>5, Counts
    <2> QED
      BY <1>1, <2>1, <2>2, <2>6 DEF ExitsAreCounted, Exiting
  <1>9. SleepersAreWoken(q)' /\ QueueIsCounted(q)'
    BY <1>1, <1>4 DEF SleepersAreWoken, QueueIsCounted, Sound
  <1> QED
    BY <1>2, <1>5, <1>6, <1>7, <1>8, <1>9 DEF Sound

(* It appends the task to the completed ones.                              *)
LEMMA LinkDoneStep ==
  ASSUME Core, NEW q \in Orders, NEW d \in Orders, NEW k \in Orders, Sound(q, d, k),
         NEW p \in Threads, LinkDone(p)
  PROVE  /\ wpc # "reset" /\ cur[p] \in Tasks /\ Held' = Held \ {cur[p]}
         /\ \E r \in Orders : r = Append(d, cur[p]) /\ Sound(q, r, k)'
  <1> USE ThreadPoolAssumption
  <1>1. /\ pc[p] = "link" /\ doneLock = p /\ pc' = [pc EXCEPT ![p] = "last"]
        /\ next' = LinkNext(done, cur[p])
        /\ done' = [done EXCEPT !.first = LinkFirst(done, cur[p])]
        /\ UNCHANGED << queue, active, waiting, cur, wpc, arg, back, taken, exits, exitLock, faults >>
        /\ cur[p] # NULL /\ cur[p] # Exit /\ next[cur[p]] = NULL
    BY DEF LinkDone, Go, worker, locks, Core, LocksAreHeld, HandsAreTrue
  <1>2. /\ pc \in [Threads -> Places] /\ cur[p] \in Tasks /\ next \in Links
        /\ done \in [first : All \cup {NULL}, last : All \cup {NULL}]
    BY <1>1, FiniteAll DEF Core, Types
  <1>3. cur[p] \in Held
    BY <1>1 DEF Held
  <1>4. cur[p] \notin Within(q) \cup Within(d) \cup Within(k)
    BY <1>3 DEF Sound, RowsAreApart
  <1>5. /\ wpc \notin {"detach", "reset"} /\ \A x \in Threads : pc[x] # "last"
        /\ \A x \in Threads : cur[x] = cur[p] => x = p
    BY <1>1 DEF Core, LocksAreHeld, HandsAreTrue
  <1>6. PICK r \in Orders : r = Append(d, cur[p])
    BY <1>2, <1>4, RowAppend, FiniteAll
  <1>7. /\ r # << >> /\ Within(r) = Within(d) \cup {cur[p]}
        /\ r[Len(r)] = cur[p]
    BY <1>2, <1>4, <1>6, RowAppend, FiniteAll
  <1>8. /\ LinkedBy(next, q, queue.first) /\ LinkedBy(next, d, done.first)
        /\ LinkedBy(next, k, taken) /\ EndsAt(d, done.last)
    BY <1>5, RowFacts DEF Sound, Core, RowsAreLinked
  <1>9. /\ LinkedBy(next', r, LinkFirst(done, cur[p]))
        /\ \A x \in All : x \notin Within(d) => next'[x] = next[x]
    BY <1>1, <1>2, <1>4, <1>6, <1>8, LinkedAppend, FiniteAll DEF LinkNext, LinkFirst
  <1>10. Held' = Held \ {cur[p]}
    <2>1. \A x \in Threads : x # p => pc'[x] = pc[x]
      BY <1>1, <1>2
    <2>2. pc'[p] = "last"
      BY <1>1, <1>2
    <2> QED
      BY <1>1, <1>5, <2>1, <2>2 DEF Held
  <1>11. /\ Idle' = Idle /\ Woken' = Woken
         /\ \A x \in Threads : pc'[x] = "asleep" <=> pc[x] = "asleep"
         /\ \A x \in Threads : pc'[x] = "check" <=> pc[x] = "check"
    BY <1>1, <1>2, CountsStay
  <1>12. Gone' = Gone
    BY <1>1, <1>2 DEF Gone
  <1>13. RowsAreLinked(q, r, k)'
    <2>1. \A x \in Within(q) \cup Within(k) : next'[x] = next[x]
      BY <1>5, <1>9, RowBasics DEF Sound, RowsAreApart
    <2>2. LinkedBy(next', q, queue.first) /\ LinkedBy(next', k, taken)
      BY <1>8, <2>1, LinkedFrame
    <2>3. IsRow(q, queue.first)' /\ IsRow(k, taken)'
      BY <1>1, <2>2 DEF IsRow, LinkedBy
    <2>4. IsRow(r, done.first)'
      BY <1>1, <1>2, <1>9 DEF IsRow, LinkedBy
    <2>5. EndsAt(q, queue.last)'
      BY <1>1 DEF EndsAt, Sound, RowsAreLinked
    <2>6. pc'[p] = "last" /\ cur' = cur
      BY <1>1, <1>2
    <2>7. \A x \in Threads : pc'[x] = "last" => x = p
      BY <1>1, <1>2, <1>5
    <2> QED
      BY <1>7, <2>3, <2>4, <2>5, <2>6, <2>7 DEF RowsAreLinked
  <1>14. RowsAreApart(q, r, k)'
    BY <1>1, <1>2, <1>3, <1>4, <1>5, <1>7, <1>10 DEF RowsAreApart, Sound
  <1>15. TasksAreActive(q, r, k)'
    <2>1. Here(q, r, k)' = Here(q, d, k)
      BY <1>1, <1>3, <1>7, <1>10 DEF Here
    <2>2. ((active \cap Tasks) \ Here(q, r, k))' \subseteq (active \cap Tasks) \ Here(q, d, k)
      BY <1>1, <2>1
    <2>3. faults \in Nat /\ faults' = faults
      BY <1>1 DEF Core, Types
    <2>4. Cardinality(((active \cap Tasks) \ Here(q, r, k))') <= faults'
      BY <2>2, <2>3, LostKept DEF Sound
    <2> QED
      BY <1>1, <2>1, <2>4 DEF TasksAreActive, Sound
  <1>16. ExitsAreCounted(q)'
    BY <1>1, <1>10, <1>12 DEF ExitsAreCounted, Exiting, Sound
  <1>17. SleepersAreWoken(q)' /\ QueueIsCounted(q)'
    BY <1>1, <1>11 DEF SleepersAreWoken, QueueIsCounted, Sound
  <1>18. Sound(q, r, k)'
    BY <1>13, <1>14, <1>15, <1>16, <1>17 DEF Sound
  <1> QED
    BY <1>2, <1>5, <1>6, <1>10, <1>18

(* It moves the end of their list.                                         *)
LEMMA MoveLastStep ==
  ASSUME Core, NEW q \in Orders, NEW d \in Orders, NEW k \in Orders, Sound(q, d, k),
         NEW p \in Threads, MoveLast(p)
  PROVE  Held' = Held /\ Sound(q, d, k)'
  <1> USE ThreadPoolAssumption
  <1>1. /\ pc[p] = "last" /\ doneLock = p /\ pc' = [pc EXCEPT ![p] = "notify"]
        /\ done' = [done EXCEPT !.last = cur[p]] /\ cur' = [cur EXCEPT ![p] = NULL]
        /\ UNCHANGED << next, queue, active, waiting, wpc, arg, back, taken, exits, exitLock, faults >>
        /\ pc \in [Threads -> Places] /\ cur \in [Threads -> All \cup {NULL}]
        /\ done \in [first : All \cup {NULL}, last : All \cup {NULL}]
    BY DEF MoveLast, Go, worker, Core, Types, LocksAreHeld
  <1>2. \A x \in Threads : pc[x] = "last" => x = p
    BY <1>1 DEF Core, LocksAreHeld
  <1>3. Held' = Held
    <2>1. \A x \in Threads : x # p => pc'[x] = pc[x] /\ cur'[x] = cur[x]
      BY <1>1
    <2>2. pc'[p] = "notify"
      BY <1>1
    <2> QED
      BY <1>1, <2>1, <2>2 DEF Held
  <1>4. Gone' = Gone
    BY <1>1 DEF Gone
  <1>5. /\ Idle' = Idle /\ Woken' = Woken
        /\ \A x \in Threads : pc'[x] = "asleep" <=> pc[x] = "asleep"
        /\ \A x \in Threads : pc'[x] = "check" <=> pc[x] = "check"
    BY <1>1, CountsStay
  <1>6. RowsAreLinked(q, d, k)'
    <2>1. IsRow(q, queue.first)' /\ IsRow(k, taken)' /\ EndsAt(q, queue.last)'
      BY <1>1 DEF IsRow, EndsAt, Sound, RowsAreLinked
    <2>2. IsRow(d, done.first)'
      BY <1>1 DEF IsRow, Sound, RowsAreLinked
    <2>3. d # << >> /\ d[Len(d)] = cur[p] /\ done'.last = cur[p]
      BY <1>1 DEF Sound, RowsAreLinked
    <2>4. \A x \in Threads : pc'[x] # "last"
      BY <1>1, <1>2
    <2>5. EndsAt(d, done.last)'
      BY <2>3 DEF EndsAt
    <2> QED
      BY <2>1, <2>2, <2>4, <2>5 DEF RowsAreLinked
  <1>7. RowsAreApart(q, d, k)'
    BY <1>1, <1>3 DEF RowsAreApart, Sound
  <1>8. TasksAreActive(q, d, k)'
    <2>1. Here(q, d, k)' = Here(q, d, k)
      BY <1>1, <1>3 DEF Here
    <2> QED
      BY <1>1, <2>1 DEF TasksAreActive, Sound
  <1>9. ExitsAreCounted(q)'
    BY <1>1, <1>3, <1>4 DEF ExitsAreCounted, Exiting, Sound
  <1>10. SleepersAreWoken(q)' /\ QueueIsCounted(q)'
    BY <1>1, <1>5 DEF SleepersAreWoken, QueueIsCounted, Sound
  <1> QED
    BY <1>3, <1>6, <1>7, <1>8, <1>9, <1>10 DEF Sound

-----------------------------------------------------------------------------
(* The invariant holds. *)

(* The pool that starts satisfies it.                                      *)
LEMMA InitSound == Init => IInv
  <1> SUFFICES ASSUME Init
               PROVE  IInv
    OBVIOUS
  <1> USE ThreadPoolAssumption
  <1>1. Types
    <2>1. taken = NULL /\ exitLock = FALSE /\ notified = FALSE /\ waiting = 0 /\ faults = 0
      BY DEF Init
    <2>2. waiting <= MaxQueue /\ faults \in 0 .. MaxFaults
      BY <2>1
    <2>3. exitLock \in BOOLEAN /\ notified \in BOOLEAN
      BY <2>1
    <2>4. pc \in [Threads -> Places] /\ cur \in [Threads -> All \cup {NULL}]
      BY DEF Init, Places
    <2>5. next \in Links
      BY DEF Init, Links
    <2> QED
      BY <2>1, <2>2, <2>3, <2>4, <2>5 DEF Init, Types, EmptyList
  <1>2. LocksAreHeld
    BY DEF Init, LocksAreHeld
  <1>3. HandsAreTrue
    BY DEF Init, HandsAreTrue
  <1>4. Held = {} /\ Idle = {} /\ Within(<< >>) = {}
    BY RowEmpty DEF Init, Held, Idle
  <1>5. Sound(<< >>, << >>, << >>)
    <2>1. RowsAreLinked(<< >>, << >>, << >>)
      BY DEF Init, EmptyList, RowsAreLinked, IsRow, EndsAt
    <2>2. RowsAreApart(<< >>, << >>, << >>)
      BY <1>4 DEF Init, RowsAreApart
    <2>3. TasksAreActive(<< >>, << >>, << >>)
      <3>1. (active \cap Tasks) \ Here(<< >>, << >>, << >>) = {} /\ faults = 0
        BY DEF Init
      <3>2. Cardinality({}) = 0
        BY FS_EmptySet
      <3>3. Cardinality((active \cap Tasks) \ Here(<< >>, << >>, << >>)) = 0
        BY <3>1, <3>2, Zenon
      <3>4. Here(<< >>, << >>, << >>) = {}
        BY <1>4 DEF Here, Init
      <3> QED
        BY <3>1, <3>3, <3>4 DEF TasksAreActive
    <2>4. ExitsAreCounted(<< >>)
      BY <1>4, Counts DEF Init, ExitsAreCounted
    <2>5. SleepersAreWoken(<< >>)
      BY DEF Init, SleepersAreWoken
    <2>6. QueueIsCounted(<< >>)
      <3>1. Cardinality({}) = 0
        BY FS_EmptySet
      <3>2. Cardinality(Idle) = 0
        BY <1>4, <3>1, Zenon
      <3> QED
        BY <3>2 DEF Init, QueueIsCounted
    <2> QED
      BY <2>1, <2>2, <2>3, <2>4, <2>5, <2>6 DEF Sound
  <1> QED
    BY <1>1, <1>2, <1>3, <1>5, RowEmpty DEF IInv

(* A step that changes nothing keeps it.                                   *)
LEMMA StutterSound ==
  ASSUME IInv, UNCHANGED vars
  PROVE  IInv'
  <1>1. UNCHANGED << next, queue, done, active, waiting, taskId, mtx, doneLock, notified, pc, cur,
                     wpc, arg, back, taken, exits, exitLock, faults >>
    BY DEF vars, lists, locks, worker
  <1>2. Types' /\ LocksAreHeld' /\ HandsAreTrue'
    BY <1>1 DEF IInv, Types, LocksAreHeld, HandsAreTrue
  <1>3. Held' = Held /\ Idle' = Idle /\ Gone' = Gone /\ Woken' = Woken
    BY <1>1 DEF Held, Idle, Gone, Woken
  <1>4. ASSUME NEW q \in Orders, NEW d \in Orders, NEW k \in Orders, Sound(q, d, k)
        PROVE  Sound(q, d, k)'
    <2>1. RowsAreLinked(q, d, k)' /\ RowsAreApart(q, d, k)'
      BY <1>1, <1>3, <1>4 DEF Sound, RowsAreLinked, IsRow, EndsAt, RowsAreApart
    <2>2. Here(q, d, k)' = Here(q, d, k)
      BY <1>1, <1>3 DEF Here
    <2>3. TasksAreActive(q, d, k)'
      BY <1>1, <1>4, <2>2 DEF TasksAreActive, Sound
    <2>4. ExitsAreCounted(q)' /\ SleepersAreWoken(q)' /\ QueueIsCounted(q)'
      BY <1>1, <1>3, <1>4 DEF Sound, ExitsAreCounted, Exiting, SleepersAreWoken, QueueIsCounted
    <2> QED
      BY <2>1, <2>3, <2>4 DEF Sound
  <1> QED
    BY <1>2, <1>4 DEF IInv

(* Every step keeps it.                                                    *)
LEMMA StepSound ==
  ASSUME IInv, [Next]_vars
  PROVE  IInv'
  <1>1. Core
    BY DEF IInv, Core
  <1>2. PICK q \in Orders, d \in Orders, k \in Orders : Sound(q, d, k)
    BY DEF IInv
  <1>a. ASSUME Core', NEW a \in Orders, NEW b \in Orders, NEW c \in Orders, Sound(a, b, c)'
        PROVE  IInv'
    BY <1>a DEF Core, IInv
  <1>3. CASE Posting
    <2>1. Core'
      BY <1>1, <1>2, <1>3, PostingCore
    <2>2. CASE PostSignal
      BY <1>1, <1>2, <1>a, <2>1, <2>2, PostSignalStep
    <2>3. CASE PostAppend
      BY <1>1, <1>2, <1>a, <2>1, <2>3, PostAppendStep
    <2>4. CASE UserPosts \/ PostRefused
      BY <1>1, <1>2, <1>a, <2>1, <2>4, QuietWorkStep DEF QuietWork
    <2> QED
      BY <1>3, <2>2, <2>3, <2>4 DEF Posting
  <1>4. CASE Completing
    <2>1. Core'
      BY <1>1, <1>2, <1>4, CompletingCore
    <2>2. CASE Detach
      BY <1>1, <1>2, <1>a, <2>1, <2>2, DetachStep
    <2>3. CASE ResetDone
      BY <1>1, <1>2, <1>a, <2>1, <2>3, ResetDoneStep, RowEmpty
    <2>4. CASE Complete
      BY <1>1, <1>2, <1>a, <2>1, <2>4, CompleteStep
    <2>5. CASE Notified \/ WorkerSpinLock \/ CallbackReturns
      BY <1>1, <1>2, <1>a, <2>1, <2>5, QuietWorkStep DEF QuietWork
    <2> QED
      BY <1>4, <2>2, <2>3, <2>4, <2>5 DEF Completing
  <1>5. CASE Ending
    <2> QED
      BY <1>1, <1>2, <1>a, <1>5, EndingCore, QuietWorkStep DEF QuietWork
  <1>6. ASSUME NEW p \in Threads, ThreadStep(p)
        PROVE  IInv'
    <2>1. Core'
      BY <1>1, <1>2, <1>6, ThreadCore
    <2>2. CASE TakeTask(p)
      BY <1>1, <1>2, <1>a, <2>1, <2>2, TakeTaskStep
    <2>3. CASE RunTask(p)
      BY <1>1, <1>2, <1>a, <2>1, <2>3, RunTaskStep
    <2>4. CASE RunExit(p)
      BY <1>1, <1>2, <1>a, <2>1, <2>4, RunExitStep
    <2>5. CASE LinkDone(p)
      BY <1>1, <1>2, <1>a, <2>1, <2>5, LinkDoneStep
    <2>6. CASE MoveLast(p)
      BY <1>1, <1>2, <1>a, <2>1, <2>6, MoveLastStep
    <2>7. CASE Quiet(p)
      BY <1>1, <1>2, <1>a, <2>1, <2>7, QuietStep
    <2> QED
      BY <1>6, <2>2, <2>3, <2>4, <2>5, <2>6, <2>7 DEF ThreadStep, Quiet
  <1>7. CASE UNCHANGED vars
    BY <1>7, StutterSound
  <1> QED
    BY <1>3, <1>4, <1>5, <1>6, <1>7 DEF Next

(* The invariant holds throughout, for any tasks and threads.              *)
THEOREM Invariance == Spec => []IInv
  BY InitSound, StepSound, PTL DEF Spec

-----------------------------------------------------------------------------
(* What the runs check of it. *)

(* It is stronger than the property of the pool.                           *)
LEMMA InvariantIsSound == IInv => ThreadPoolIsSound
  <1> SUFFICES ASSUME IInv
               PROVE  ThreadPoolIsSound
    OBVIOUS
  <1> USE ThreadPoolAssumption
  <1>1. PICK q \in Orders, d \in Orders, k \in Orders : Sound(q, d, k)
    BY DEF IInv
  <1>2. Types /\ LocksAreHeld /\ HandsAreTrue
    BY DEF IInv
  <1>3. /\ Len(q) \in Nat /\ Cardinality(Idle) \in Nat /\ Cardinality(Gone) \in Nat
        /\ Cardinality(Idle) <= Cardinality(Threads) /\ Cardinality(Gone) <= Cardinality(Threads)
        /\ Cardinality(Threads) \in Nat /\ Cardinality(Threads) > 0
    <2>1. Idle \in SUBSET Threads /\ Gone \in SUBSET Threads /\ Threads \in SUBSET Threads
      BY DEF Idle, Gone
    <2>2. PICK p : p \in Threads
      OBVIOUS
    <2> QED
      BY <2>1, <2>2, RowBasics, ThreadSets
  <1>4. exits \in Nat /\ exits <= Cardinality(Gone)
    BY <1>1, <1>2, <1>3 DEF Sound, ExitsAreCounted, Types
  <1>5. TypeOK
    <2>1. waiting \in (- Cardinality(Threads)) .. MaxQueue
      <3>1. waiting = Len(q) - Cardinality(Idle) /\ waiting \in Int /\ waiting <= MaxQueue
        BY <1>1, <1>2 DEF Sound, QueueIsCounted, Types
      <3> QED
        BY <1>3, <3>1
    <2>2. exits \in 0 .. Cardinality(Threads)
      BY <1>3, <1>4
    <2> QED
      BY <1>2, <2>1, <2>2 DEF TypeOK, Types, Links, Places
  <1>6. ListsAreSound
    <2>1. doneLock = NULL => \A p \in Threads : pc[p] # "last"
      BY <1>2 DEF LocksAreHeld
    <2>2. \A p, r \in Threads : cur[p] = cur[r] /\ cur[p] # NULL => p = r
      BY <1>2 DEF HandsAreTrue
    <2> QED
      BY <1>1, <2>1, <2>2 DEF ListsAreSound, Sound, RowsAreLinked, RowsAreApart
  <1>7. WaitingIsTrue
    BY <1>1 DEF WaitingIsTrue, Sound, RowsAreLinked, QueueIsCounted
  <1>8. NothingIsLost
    BY <1>1 DEF NothingIsLost, Sound, RowsAreLinked, TasksAreActive, Here
  <1>9. NoTaskWaitsForASleeper
    <2> SUFFICES ASSUME mtx = NULL, \E p \in Threads : pc[p] = "asleep"
                 PROVE  Len(q) <= Cardinality(Woken)
      BY <1>1 DEF NoTaskWaitsForASleeper, Sound, RowsAreLinked, Woken
    <2>1. wpc # "append" /\ \A p \in Threads : pc[p] # "check"
      BY <1>2 DEF LocksAreHeld
    <2> QED
      BY <1>1, <1>3, <2>1, Counts DEF Sound, SleepersAreWoken
  <1>10. DestroyedWhenUnused
    <2> SUFFICES ASSUME wpc = "destroyed"
                 PROVE  (\A p \in Threads : pc[p] = "gone") /\ queue.first = NULL /\ mtx = NULL
      BY DEF DestroyedWhenUnused
    <2>1. exits = Cardinality(Threads)
      BY <1>1 DEF Sound, ExitsAreCounted
    <2>2. Cardinality(Gone) = Cardinality(Threads) /\ exits > 0
      BY <1>3, <1>4, <2>1
    <2>3. \A p \in Threads : pc[p] = "gone"
      <3>1. Gone \in SUBSET Threads
        BY DEF Gone
      <3>2. Gone = Threads
        BY <2>2, <3>1, ThreadSets
      <3> QED
        BY <3>2 DEF Gone
    <2>4. Within(q) \subseteq {Exit} /\ Exit \notin Within(q)
      BY <1>1, <2>2 DEF Sound, ExitsAreCounted
    <2>5. queue.first = NULL
      <3>1. q = << >>
        BY <2>4, RowBasics
      <3> QED
        BY <1>1, <3>1 DEF Sound, RowsAreLinked, IsRow
    <2>6. mtx = NULL
      BY <1>2, <2>3 DEF LocksAreHeld, Types
    <2> QED
      BY <2>3, <2>5, <2>6
  <1> QED
    BY <1>5, <1>6, <1>7, <1>8, <1>9, <1>10 DEF ThreadPoolIsSound, TasksAreServed

(* For any number of threads and tasks and any size of the queue, and      *)
(* whichever calls of pthread fail: the links of the queue, of the done    *)
(* list and of the tasks being completed lead through rows without a       *)
(* common task, tp->waiting is the length of the queue less the idle       *)
(* threads, no task is dropped, none waits beside a thread that sleeps     *)
(* unwoken, and the pool is destroyed only after its last thread has       *)
(* ended.                                                                  *)
THEOREM PoolIsServed == Spec => []ThreadPoolIsSound
  BY Invariance, InvariantIsSound, PTL


-----------------------------------------------------------------------------
(* The executor. *)

(* A head names one row. *)
LEMMA ChosenRow ==
  ASSUME NEW n, NEW s \in Orders, NEW f, LinkedBy(n, s, f)
  PROVE  (CHOOSE r \in Orders : LinkedBy(n, r, f)) = s
  <1> DEFINE c == CHOOSE r \in Orders : LinkedBy(n, r, f)
  <1>1. c \in Orders /\ LinkedBy(n, c, f)
    <2> HIDE DEF LinkedBy
    <2> QED
      BY Zenon
  <1> HIDE DEF c
  <1>2. c = s
    BY <1>1, LinkedUnique
  <1> QED
    BY <1>2 DEF c

LEMMA RowIs ==
  ASSUME NEW q \in Orders, NEW d \in Orders, NEW k \in Orders
  PROVE  /\ RowsAreLinked(q, d, k) =>
              Row(queue.first) = q /\ Row(done.first) = d /\ Row(taken) = k
         /\ RowsAreLinked(q, d, k)' =>
              Row(queue.first)' = q /\ Row(done.first)' = d /\ Row(taken)' = k
  <1>1. ASSUME RowsAreLinked(q, d, k)
        PROVE  Row(queue.first) = q /\ Row(done.first) = d /\ Row(taken) = k
    <2>1. /\ LinkedBy(next, q, queue.first) /\ LinkedBy(next, d, done.first)
          /\ LinkedBy(next, k, taken)
      BY <1>1 DEF RowsAreLinked, IsRow, LinkedBy
    <2>2. /\ Row(queue.first) = CHOOSE r \in Orders : LinkedBy(next, r, queue.first)
          /\ Row(done.first) = CHOOSE r \in Orders : LinkedBy(next, r, done.first)
          /\ Row(taken) = CHOOSE r \in Orders : LinkedBy(next, r, taken)
      BY Zenon DEF Row, IsRow, LinkedBy
    <2> QED
      BY <2>1, <2>2, ChosenRow, Zenon
  <1>2. ASSUME RowsAreLinked(q, d, k)'
        PROVE  Row(queue.first)' = q /\ Row(done.first)' = d /\ Row(taken)' = k
    <2>1. /\ LinkedBy(next', q, queue'.first) /\ LinkedBy(next', d, done'.first)
          /\ LinkedBy(next', k, taken')
      BY <1>2 DEF RowsAreLinked, IsRow, LinkedBy
    <2>2. /\ Row(queue.first)' = CHOOSE r \in Orders : LinkedBy(next', r, queue'.first)
          /\ Row(done.first)' = CHOOSE r \in Orders : LinkedBy(next', r, done'.first)
          /\ Row(taken)' = CHOOSE r \in Orders : LinkedBy(next', r, taken')
      BY Zenon DEF Row, IsRow, LinkedBy
    <2> QED
      BY <2>1, <2>2, ChosenRow, Zenon
  <1> QED
    BY <1>1, <1>2

(* What the queue holds besides the exit task. *)
LEMMA TaskedWhole ==
  ASSUME NEW s \in Orders, Exit \notin Within(s)
  PROVE  Tasked(s) = s
  <1>1. s # << >> => s[Len(s)] \in Within(s)
    BY RowBasics DEF Within
  <1> QED
    BY <1>1 DEF Tasked

LEMMA TaskedAppend ==
  ASSUME NEW s \in Orders, Exit \notin Within(s), NEW t \in All, t \notin Within(s)
  PROVE  Tasked(Append(s, t)) = IF t = Exit THEN Tasked(s) ELSE Append(Tasked(s), t)
  <1>1. Tasked(s) = s
    BY TaskedWhole
  <1>2. s \in Seq(All) /\ Append(s, t) \in Orders /\ Within(Append(s, t)) = Within(s) \cup {t}
          /\ Append(s, t) # << >> /\ Len(Append(s, t)) = Len(s) + 1 /\ Append(s, t)[Len(s) + 1] = t
    BY RowBasics, RowAppend
  <1>3. t # Exit => Tasked(Append(s, t)) = Append(s, t)
    BY <1>2, TaskedWhole
  <1>4. t = Exit => Tasked(Append(s, t)) = SubSeq(Append(s, t), 1, Len(Append(s, t)) - 1)
    BY <1>2 DEF Tasked
  <1>5. SubSeq(Append(s, t), 1, Len(Append(s, t)) - 1) = s
    BY <1>2
  <1> QED
    BY <1>1, <1>3, <1>4, <1>5

LEMMA TaskedTail ==
  ASSUME NEW s \in Orders, s # << >>, Exit \in Within(s) => s[Len(s)] = Exit
  PROVE  IF s[1] = Exit
           THEN Tasked(s) = << >> /\ Tasked(Tail(s)) = << >>
           ELSE /\ Tasked(s) # << >> /\ Head(Tasked(s)) = s[1]
                /\ Tasked(Tail(s)) = Tail(Tasked(s))
  <1>1. /\ s \in Seq(All) /\ Once(s) /\ Len(s) \in Nat \ {0} /\ DOMAIN s = 1 .. Len(s)
        /\ Tail(s) \in Orders /\ Within(Tail(s)) = Within(s) \ {s[1]} /\ s[1] \in Within(s)
        /\ Len(Tail(s)) = Len(s) - 1
        /\ \A i \in 1 .. Len(s) - 1 : Tail(s)[i] = s[i + 1]
    BY RowBasics, RowTail
  <1>2. CASE s[1] = Exit
    <2>1. Len(s) = 1
      BY <1>1, <1>2 DEF Once
    <2>2. Tail(s) = << >>
      <3>1. Len(Tail(s)) = 0
        BY <1>1, <2>1
      <3> QED
        BY <1>1, <3>1, RowBasics
    <2>3. SubSeq(s, 1, Len(s) - 1) = << >>
      BY <1>1, <2>1
    <2>4. s[Len(s)] = Exit
      BY <1>2, <2>1
    <2> QED
      BY <1>2, <2>2, <2>3, <2>4 DEF Tasked
  <1>3. CASE s[1] # Exit /\ Exit \notin Within(s)
    <2>1. Tasked(s) = s /\ Tasked(Tail(s)) = Tail(s)
      BY <1>1, <1>3, TaskedWhole
    <2> QED
      BY <1>1, <1>3, <2>1
  <1>4. CASE s[1] # Exit /\ Exit \in Within(s)
    <2>1. s[Len(s)] = Exit /\ Len(s) > 1
      BY <1>1, <1>4
    <2>2. Tail(s) # << >> /\ Tail(s)[Len(Tail(s))] = Exit
      <3>1. Len(s) - 1 \in 1 .. Len(s) - 1 /\ (Len(s) - 1) + 1 = Len(s)
        BY <1>1, <2>1
      <3>2. Tail(s)[Len(Tail(s))] = s[Len(s)]
        BY <1>1, <3>1
      <3>3. Len(Tail(s)) # 0
        BY <1>1, <2>1
      <3> QED
        BY <1>1, <2>1, <3>2, <3>3, RowBasics
    <2>3. Tasked(s) = SubSeq(s, 1, Len(s) - 1) /\ Tasked(Tail(s)) = SubSeq(Tail(s), 1, Len(Tail(s)) - 1)
      BY <2>1, <2>2 DEF Tasked
    <2>4. /\ SubSeq(s, 1, Len(s) - 1) # << >> /\ Head(SubSeq(s, 1, Len(s) - 1)) = s[1]
      <3> DEFINE w == SubSeq(s, 1, Len(s) - 1)
      <3>1. w \in Seq(All) /\ Len(w) = Len(s) - 1
        BY <1>1, <2>1
      <3>2. w[1] = s[1]
        BY <1>1, <2>1
      <3>3. Len(w) # 0
        BY <1>1, <2>1, <3>1
      <3> HIDE DEF w
      <3>4. w # << >> /\ Head(w) = w[1]
        BY <3>1, <3>3
      <3> QED
        BY <3>2, <3>4 DEF w
    <2>5. SubSeq(Tail(s), 1, Len(Tail(s)) - 1) = Tail(SubSeq(s, 1, Len(s) - 1))
      BY <1>1, <2>1
    <2> QED
      BY <1>4, <2>3, <2>4, <2>5
  <1> QED
    BY <1>2, <1>3, <1>4

LEMMA RowsJoined ==
  ASSUME NEW k \in Orders, NEW d \in Orders
  PROVE  /\ << >> \o d = d /\ k \o << >> = k
         /\ k # << >> => k \o d # << >> /\ Tail(k \o d) = Tail(k) \o d
         /\ \A t \in All : k \o Append(d, t) = Append(k \o d, t)
         /\ Within(k \o d) \subseteq Within(k) \cup Within(d)
  <1>1. k \in Seq(All) /\ d \in Seq(All)
    BY RowBasics
  <1>2. << >> \o d = d /\ k \o << >> = k
    BY <1>1
  <1>3. k # << >> => k \o d # << >>
    BY <1>1
  <1>4. k # << >> => Tail(k \o d) = Tail(k) \o d
    BY <1>1
  <1>5. \A t \in All : k \o Append(d, t) = Append(k \o d, t)
    BY <1>1
  <1>6. Within(k \o d) \subseteq Within(k) \cup Within(d)
    <2> SUFFICES ASSUME NEW i \in DOMAIN (k \o d)
                 PROVE  (k \o d)[i] \in Within(k) \cup Within(d)
      BY DEF Within
    <2>1. i \in 1 .. Len(k) + Len(d) /\ Len(k) \in Nat /\ Len(d) \in Nat
      BY <1>1
    <2>2. CASE i <= Len(k)
      BY <1>1, <2>1, <2>2 DEF Within
    <2>3. CASE i > Len(k)
      <3>1. (k \o d)[i] = d[i - Len(k)] /\ i - Len(k) \in 1 .. Len(d)
        BY <1>1, <2>1, <2>3
      <3> QED
        BY <1>1, <3>1 DEF Within
    <2> QED
      BY <2>1, <2>2, <2>3
  <1> QED
    BY <1>2, <1>3, <1>4, <1>5, <1>6

(* The variables of the executor, by the rows. *)
Pending == Tasked(Row(queue.first))
Running == Held \cap Tasks
Finished == IF wpc = "reset" THEN Row(taken) ELSE Row(taken) \o Row(done.first)

(* What the lists are to the executor.                                     *)
LEMMA Abstraction ==
  ASSUME NEW q \in Orders, NEW d \in Orders, NEW k \in Orders
  PROVE  /\ Sound(q, d, k) =>
              /\ Pending = Tasked(q)
              /\ Finished = IF wpc = "reset" THEN k ELSE k \o d
         /\ Sound(q, d, k)' =>
              /\ Pending' = Tasked(q)
              /\ Finished' = IF wpc' = "reset" THEN k ELSE k \o d
  <1>1. ASSUME Sound(q, d, k)
        PROVE  Pending = Tasked(q) /\ Finished = IF wpc = "reset" THEN k ELSE k \o d
    <2>1. Row(queue.first) = q /\ Row(done.first) = d /\ Row(taken) = k
      BY <1>1, RowIs DEF Sound
    <2> QED
      BY <2>1 DEF Pending, Finished
  <1>2. ASSUME Sound(q, d, k)'
        PROVE  Pending' = Tasked(q) /\ Finished' = IF wpc' = "reset" THEN k ELSE k \o d
    <2>1. Row(queue.first)' = q /\ Row(done.first)' = d /\ Row(taken)' = k
      BY <1>2, RowIs DEF Sound
    <2> QED
      BY <2>1 DEF Pending, Finished
  <1> QED
    BY <1>1, <1>2

(* A step of the pool that the executor does not see. *)
LEMMA Unseen ==
  ASSUME NEW q \in Orders, NEW d \in Orders, NEW k \in Orders,
         Sound(q, d, k), Sound(q, d, k)', Held' \cap Tasks = Held \cap Tasks,
         wpc' = "reset" <=> wpc = "reset"
  PROVE  UNCHANGED << Pending, Running, Finished >>
  <1>1. Pending = Tasked(q) /\ Finished = IF wpc = "reset" THEN k ELSE k \o d
    BY Abstraction
  <1>2. Pending' = Tasked(q) /\ Finished' = IF wpc' = "reset" THEN k ELSE k \o d
    BY Abstraction
  <1>3. Running' = Running
    BY DEF Running
  <1>4. CASE wpc = "reset"
    BY <1>1, <1>2, <1>3, <1>4
  <1>5. CASE wpc # "reset"
    BY <1>1, <1>2, <1>3, <1>5
  <1> QED
    BY <1>4, <1>5

ExecutorStep ==
  \/ /\ Pending # << >>
     /\ Pending' = Tail(Pending) /\ Running' = Running \cup {Head(Pending)}
     /\ Finished' = Finished
  \/ /\ Finished # << >>
     /\ Finished' = Tail(Finished) /\ Pending' = Pending /\ Running' = Running
  \/ \E t \in Tasks :
       /\ t \notin Within(Pending) \cup Running \cup Within(Finished)
       /\ Pending' = Append(Pending, t) /\ Running' = Running /\ Finished' = Finished
  \/ \E t \in Tasks :
       /\ t \in Running /\ Running' = Running \ {t}
       /\ Finished' = Append(Finished, t) /\ Pending' = Pending
  \/ UNCHANGED << Pending, Running, Finished >>

(* Posting is seen when the task is in the queue.                          *)
LEMMA PostingSeen ==
  ASSUME Core, Core', NEW q \in Orders, NEW d \in Orders, NEW k \in Orders,
         Sound(q, d, k), Posting
  PROVE  ExecutorStep
  <1>1. CASE PostAppend
    <2>1. PICK r \in Orders : r = Append(q, arg) /\ Sound(r, d, k)'
      BY <1>1, PostAppendStep
    <2>2. Held' = Held
      BY <1>1, PostAppendStep
    <2>3. /\ wpc = "append" /\ wpc' # "reset" /\ arg \in All /\ (arg = Exit <=> back = "destroy")
      BY <1>1, FiniteAll DEF PostAppend, Core, Types, HandsAreTrue
    <2>4. /\ arg \notin Within(q) \cup Within(d) \cup Within(k) \cup Held
          /\ Exit \notin Within(q)
      BY <2>3 DEF Sound, RowsAreApart, ExitsAreCounted
    <2>5. /\ Pending = Tasked(q) /\ Pending' = Tasked(r)
          /\ Finished = k \o d /\ Finished' = k \o d
      BY <2>1, <2>3, Abstraction
    <2>6. Running' = Running
      BY <2>2 DEF Running
    <2>7. Tasked(q) = q /\ Tasked(r) = IF arg = Exit THEN q ELSE Append(q, arg)
      BY <2>1, <2>3, <2>4, TaskedWhole, TaskedAppend
    <2>8. CASE arg = Exit
      BY <2>5, <2>6, <2>7, <2>8 DEF ExecutorStep
    <2>9. CASE arg # Exit
      <3>1. arg \in Tasks /\ Pending' = Append(Pending, arg)
        BY <2>3, <2>5, <2>7, <2>9, FiniteAll
      <3>2. arg \notin Within(Pending) \cup Running \cup Within(Finished)
        <4>1. Within(k \o d) \subseteq Within(k) \cup Within(d)
          BY RowsJoined
        <4>2. Within(Pending) = Within(q) /\ Within(Finished) = Within(k \o d)
          BY <2>5, <2>7
        <4> QED
          BY <2>4, <4>1, <4>2 DEF Running
      <3> QED
        BY <2>5, <2>6, <3>1, <3>2 DEF ExecutorStep
    <2> QED
      BY <2>8, <2>9
  <1>2. CASE PostSignal
    <2>1. Held' = Held /\ Sound(q, d, k)'
      BY <1>2, PostSignalStep
    <2>2. wpc' = "reset" <=> wpc = "reset"
      BY <1>2 DEF PostSignal, Core, Types
    <2> QED
      BY <2>1, <2>2, Unseen DEF ExecutorStep
  <1>3. CASE UserPosts \/ PostRefused
    <2>1. QuietWork
      BY <1>3 DEF QuietWork
    <2>2. Held' = Held /\ (wpc' = "reset" <=> wpc = "reset") /\ Sound(q, d, k)'
      BY <2>1, QuietWorkFrame, QuietWorkStep
    <2> QED
      BY <2>2, Unseen DEF ExecutorStep
  <1> QED
    BY <1>1, <1>2, <1>3 DEF Posting

(* Completing is seen when the event loop calls the handler of the task.   *)
LEMMA CompletingSeen ==
  ASSUME Core, Core', NEW q \in Orders, NEW d \in Orders, NEW k \in Orders,
         Sound(q, d, k), Completing
  PROVE  ExecutorStep
  <1>1. CASE Detach
    <2>1. Sound(q, d, d)' /\ wpc = "detach" /\ wpc' = "reset" /\ UNCHANGED << pc, cur >>
      BY <1>1, DetachStep DEF Detach
    <2>2. k = << >>
      BY <2>1 DEF Sound, RowsAreApart
    <2>3. Pending' = Pending /\ Finished = k \o d /\ Finished' = d
      BY <2>1, Abstraction
    <2>4. << >> \o d = d
      BY RowsJoined
    <2>5. Running' = Running
      BY <2>1 DEF Running, Held
    <2> QED
      BY <2>2, <2>3, <2>4, <2>5 DEF ExecutorStep
  <1>2. CASE ResetDone
    <2>1. /\ Sound(q, << >>, k)' /\ wpc = "reset" /\ wpc' = "complete" /\ UNCHANGED << pc, cur >>
      BY <1>2, ResetDoneStep DEF ResetDone
    <2>2. Pending' = Pending /\ Finished = k /\ Finished' = k \o << >>
      BY <2>1, Abstraction, RowEmpty
    <2>3. k \o << >> = k
      BY RowsJoined
    <2>4. Running' = Running
      BY <2>1 DEF Running, Held
    <2> QED
      BY <2>2, <2>3, <2>4 DEF ExecutorStep
  <1>3. CASE Complete
    <2>1. /\ wpc = "complete" /\ wpc' # "reset" /\ UNCHANGED << pc, cur >>
      BY <1>3 DEF Complete
    <2>2. Running' = Running
      BY <2>1 DEF Running, Held
    <2>3. CASE taken = NULL
      <3>1. Sound(q, d, k)'
        BY <1>3, <2>3, CompleteStep
      <3> QED
        BY <2>1, <2>2, <3>1, Abstraction DEF ExecutorStep
    <2>4. CASE taken # NULL
      <3>1. k # << >> /\ Tail(k) \in Orders /\ Sound(q, d, Tail(k))'
        BY <1>3, <2>4, CompleteStep
      <3>2. Pending' = Pending /\ Finished = k \o d /\ Finished' = Tail(k) \o d
        BY <2>1, <3>1, Abstraction
      <3>3. k \o d # << >> /\ Tail(k \o d) = Tail(k) \o d
        BY <3>1, RowsJoined
      <3> QED
        BY <2>2, <3>2, <3>3 DEF ExecutorStep
    <2> QED
      BY <2>3, <2>4
  <1>4. CASE Notified \/ WorkerSpinLock \/ CallbackReturns
    <2>1. QuietWork
      BY <1>4 DEF QuietWork
    <2>2. Held' = Held /\ (wpc' = "reset" <=> wpc = "reset") /\ Sound(q, d, k)'
      BY <2>1, QuietWorkFrame, QuietWorkStep
    <2> QED
      BY <2>2, Unseen DEF ExecutorStep
  <1> QED
    BY <1>1, <1>2, <1>3, <1>4 DEF Completing

(* Taking and finishing a task is seen when the lists change.              *)
LEMMA ThreadSeen ==
  ASSUME Core, Core', NEW q \in Orders, NEW d \in Orders, NEW k \in Orders,
         Sound(q, d, k), NEW p \in Threads, ThreadStep(p)
  PROVE  ExecutorStep
  <1>1. CASE TakeTask(p)
    <2>1. /\ q # << >> /\ Held' = Held \cup {q[1]}
          /\ Tail(q) \in Orders /\ Sound(Tail(q), d, k)' /\ wpc' = wpc
      BY <1>1, TakeTaskStep DEF TakeTask, worker
    <2>a. Pending = Tasked(q) /\ Finished = IF wpc = "reset" THEN k ELSE k \o d
      BY Abstraction
    <2>b. Pending' = Tasked(Tail(q)) /\ Finished' = IF wpc' = "reset" THEN k ELSE k \o d
      BY <2>1, Abstraction
    <2>2. Pending = Tasked(q) /\ Pending' = Tasked(Tail(q)) /\ Finished' = Finished
      <3> HIDE DEF Pending, Finished
      <3>1. CASE wpc = "reset"
        BY <2>a, <2>b, <2>1, <3>1
      <3>2. CASE wpc # "reset"
        BY <2>a, <2>b, <2>1, <3>2
      <3> QED
        BY <3>1, <3>2
    <2>3. Exit \in Within(q) => q[Len(q)] = Exit
      BY DEF Sound, ExitsAreCounted
    <2>4. q[1] \in All
      BY <2>1, RowTail
    <2>5. CASE q[1] = Exit
      <3>1. Tasked(q) = << >> /\ Tasked(Tail(q)) = << >>
        BY <2>1, <2>3, <2>5, TaskedTail
      <3>2. Running' = Running
        BY <2>1, <2>5, FiniteAll DEF Running
      <3> QED
        BY <2>2, <3>1, <3>2 DEF ExecutorStep
    <2>6. CASE q[1] # Exit
      <3>1. /\ Tasked(q) # << >> /\ Head(Tasked(q)) = q[1]
            /\ Tasked(Tail(q)) = Tail(Tasked(q))
        BY <2>1, <2>3, <2>6, TaskedTail
      <3>2. Running' = Running \cup {q[1]}
        BY <2>1, <2>4, <2>6, FiniteAll DEF Running
      <3> QED
        BY <2>2, <3>1, <3>2 DEF ExecutorStep
    <2> QED
      BY <2>5, <2>6
  <1>2. CASE LinkDone(p)
    <2>1. PICK r \in Orders : r = Append(d, cur[p]) /\ Sound(q, r, k)'
      BY <1>2, LinkDoneStep
    <2>2. wpc # "reset" /\ cur[p] \in Tasks /\ Held' = Held \ {cur[p]} /\ wpc' = wpc
      BY <1>2, LinkDoneStep DEF LinkDone, worker
    <2>3. cur[p] \in Held
      BY <1>2 DEF LinkDone, Held
    <2>4. Pending' = Pending /\ Finished = k \o d /\ Finished' = k \o r
      BY <2>1, <2>2, Abstraction
    <2>5. k \o r = Append(k \o d, cur[p])
      BY <2>1, <2>2, FiniteAll, RowsJoined
    <2>6. cur[p] \in Running /\ Running' = Running \ {cur[p]}
      BY <2>2, <2>3 DEF Running
    <2> QED
      BY <2>2, <2>4, <2>5, <2>6 DEF ExecutorStep
  <1>3. CASE RunTask(p)
    BY <1>3, RunTaskStep, Unseen DEF ExecutorStep, RunTask, worker
  <1>4. CASE MoveLast(p)
    BY <1>4, MoveLastStep, Unseen DEF ExecutorStep, MoveLast, worker
  <1>5. CASE RunExit(p)
    <2>1. Held' = Held \ {Exit} /\ Sound(q, d, k)' /\ wpc' = wpc
      BY <1>5, RunExitStep DEF RunExit, worker
    <2>2. Held' \cap Tasks = Held \cap Tasks
      BY <2>1, FiniteAll
    <2> QED
      BY <2>1, <2>2, Unseen DEF ExecutorStep
  <1>6. CASE Quiet(p)
    BY <1>6, QuietFrame, QuietStep, Unseen DEF ExecutorStep, worker
  <1> QED
    BY <1>1, <1>2, <1>3, <1>4, <1>5, <1>6 DEF ThreadStep, Quiet

(* Each step of the pool is a step of the executor or none.                *)
LEMMA StepSeen ==
  ASSUME IInv, IInv', [Next]_vars
  PROVE  ExecutorStep
  <1>1. Core /\ Core'
    BY DEF IInv, Core
  <1>2. PICK q \in Orders, d \in Orders, k \in Orders : Sound(q, d, k)
    BY DEF IInv
  <1>3. CASE Posting
    BY <1>1, <1>2, <1>3, PostingSeen
  <1>4. CASE Completing
    BY <1>1, <1>2, <1>4, CompletingSeen
  <1>5. CASE Ending
    <2>1. QuietWork
      BY <1>5 DEF QuietWork
    <2>2. Held' = Held /\ (wpc' = "reset" <=> wpc = "reset") /\ Sound(q, d, k)'
      BY <1>1, <1>2, <2>1, QuietWorkFrame, QuietWorkStep
    <2> QED
      BY <1>2, <2>2, Unseen DEF ExecutorStep
  <1>6. ASSUME NEW p \in Threads, ThreadStep(p)
        PROVE  ExecutorStep
    BY <1>1, <1>2, <1>6, ThreadSeen
  <1>7. CASE UNCHANGED vars
    <2>1. UNCHANGED << next, queue, done, pc, cur, wpc, taken >>
      BY <1>7 DEF vars, lists, worker
    <2>2. Held' = Held
      BY <2>1 DEF Held
    <2>3. /\ Row(queue.first)' = Row(queue.first) /\ Row(taken)' = Row(taken)
          /\ Row(done.first)' = Row(done.first)
      BY <2>1, Zenon DEF Row, IsRow
    <2> QED
      BY <2>1, <2>2, <2>3 DEF ExecutorStep, Pending, Running, Finished
  <1> QED
    BY <1>3, <1>4, <1>5, <1>6, <1>7 DEF Next

(* The pool that starts is an executor without tasks.                      *)
LEMMA InitSeen == Init => Pool!Init
  <1> SUFFICES ASSUME Init
               PROVE  Pool!Init
    OBVIOUS
  <1>1. queue.first = NULL /\ done.first = NULL /\ taken = NULL /\ wpc = "loop" /\ Held = {}
    BY DEF Init, EmptyList, Held
  <1>2. LinkedBy(next, << >>, NULL)
    BY DEF LinkedBy
  <1>3. Row(NULL) = << >>
    <2>1. Row(NULL) = CHOOSE r \in Orders : LinkedBy(next, r, NULL)
      BY Zenon DEF Row, IsRow, LinkedBy
    <2> QED
      BY <1>2, <2>1, RowEmpty, ChosenRow, Zenon
  <1>4. Tasked(<< >>) = << >> /\ << >> \o << >> = << >>
    BY RowEmpty, RowsJoined DEF Tasked
  <1> QED
    BY <1>1, <1>3, <1>4 DEF Pool!Init

(* Locks, wake-ups and the pointers of two lists implement the executor:   *)
(* a posted task waits its turn, is taken by one thread, run once, and     *)
(* completed in the order of finishing.                                    *)
THEOREM Refinement == Spec => ImplementsExecutor
  <1>1. ASSUME ExecutorStep
        PROVE  [Pool!Next]_(Pool!vars)
    <2> USE DEF Pool!Next, Pool!vars, Pool!Busy, Pool!Start, Pool!Complete, Pool!Post, Pool!Finish
    <2> QED
      BY <1>1 DEF ExecutorStep, Pending, Running, Finished, Within
  <1> QED
    BY <1>1, Invariance, InitSeen, StepSeen, PTL DEF Spec, ImplementsExecutor, Pool!Spec

=============================================================================
