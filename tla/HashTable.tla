------------------------------ MODULE HashTable ------------------------------
(***************************************************************************)
(* The hash of names with wildcards (ngx_hash.c): keys are gathered, from  *)
(* them a table of exact names and two trees of tables for the wildcards   *)
(* are built in memory, and then names are looked up.                      *)
(*                                                                         *)
(* A name is a sequence of labels.  A key is a name of a kind: "exact",    *)
(* "dot" for .example.com, "star" for a star and .example.com, "tail" for  *)
(* www.example and a star, or "bad", one with stars or dots elsewhere.     *)
(* Its value is the key.                                                   *)
(* Memory is an array of words of the size of a pointer.                   *)
(***************************************************************************)
EXTENDS Integers, Sequences, FiniteSets, SequencesExt, FiniteSetsExt, TLC

CONSTANTS
  HashNames,     (* the names of keys *)
  Asked,         (* the names that are looked up *)
  HashOf(_),     (* what ngx_hash makes of a label or a name *)
  LenOf(_),      (* the words that NGX_HASH_ELT_SIZE takes for it, without the value *)
  HashConfs,     (* max_size and, in words, bucket_size *)
  CacheLine,     (* ngx_cacheline_size, in words *)
  HashKeys       (* bound on the keys that are added *)

VARIABLES
  keys,          (* ngx_hash_keys_arrays_t *)
  built,         (* the combined hash, or the step that the caller is at *)
  accepted       (* history: the keys that were taken *)
hashVars == << keys, built, accepted >>

Kinds == {"exact", "dot", "star", "tail", "bad"}
NoKey == [kind |-> "none", name |-> << >>]

HashInitially ==
  /\ keys = [exact |-> << >>, head |-> << >>, tail |-> << >>, exactSeen |-> {}, headSeen |-> {}, tailSeen |-> {}]
  /\ built = [done |-> FALSE, rc |-> "none"]
  /\ accepted = {}

-----------------------------------------------------------------------------
(* ngx_hash_add_key().  The name of a wildcard at the head is turned round, *)
(* a star leaves a dot at its end.                                          *)
Entry(path, dot, key) == [path |-> path, dot |-> dot, value |-> key]

AddExact(name) ==
  IF name \in keys.exactSeen THEN [keys |-> keys, rc |-> "busy"]
  ELSE [rc |-> "ok", keys |-> [keys EXCEPT !.exactSeen = @ \cup {name},
                                 !.exact = Append(@, Entry(name, FALSE, [kind |-> "exact", name |-> name]))]]

(* .example.com takes the place of example.com too. *)
AddHead(kind, name) ==
  LET claimed == IF kind = "dot" THEN [keys EXCEPT !.exactSeen = @ \cup {name}] ELSE keys IN
  IF kind = "dot" /\ name \in keys.exactSeen THEN [keys |-> keys, rc |-> "busy"]
  ELSE IF name \in keys.headSeen THEN [keys |-> claimed, rc |-> "busy"]
  ELSE [rc |-> "ok", keys |-> [claimed EXCEPT !.headSeen = @ \cup {name},
                                 !.head = Append(@, Entry(Reverse(name), kind = "star", [kind |-> kind, name |-> name]))]]

AddTail(name) ==
  IF name \in keys.tailSeen THEN [keys |-> keys, rc |-> "busy"]
  ELSE [rc |-> "ok", keys |-> [keys EXCEPT !.tailSeen = @ \cup {name},
                                 !.tail = Append(@, Entry(name, FALSE, [kind |-> "tail", name |-> name]))]]

AddKey(kind, name) ==
  LET r == CASE kind = "exact" -> AddExact(name)
             [] kind \in {"dot", "star"} -> AddHead(kind, name)
             [] kind = "tail" -> AddTail(name)
             [] kind = "bad" -> [keys |-> keys, rc |-> "declined"]
  IN /\ ~built.done /\ Cardinality(accepted) < HashKeys
     /\ keys' = r.keys
     /\ accepted' = IF r.rc = "ok" THEN accepted \cup {[kind |-> kind, name |-> name]} ELSE accepted
     /\ built' = [built EXCEPT !.rc = r.rc]

-----------------------------------------------------------------------------
(* ngx_hash_init(): elts are the names and values; the result is the table *)
(* in its own memory, or the flag that it cannot be built.                 *)

Words(e) == 1 + LenOf(e.name)
Aligned(n) == CacheLine * ((n + CacheLine - 1) \div CacheLine)
BucketOf(e, size) == HashOf(e.name) % size
InBucket(elts, i, size) == SelectSeq(elts, LAMBDA e : BucketOf(e, size) = i)
SumWords(es) == FoldLeft(LAMBDA n, e : n + Words(e), 0, es)

(* The least number of buckets that are small enough, or max_size. *)
SizeFor(elts, conf) ==
  LET start == Max({1, Len(elts) \div ((conf.bucket - 1) \div 2)})
      good == {s \in start .. conf.max : \A i \in 0 .. s - 1 : SumWords(InBucket(elts, i, s)) <= conf.bucket - 1}
  IN IF good = {} THEN conf.max ELSE Min(good)

BucketWords(es) == IF es = << >> THEN 0 ELSE Aligned(SumWords(es) + 1)

(* An element covers its words; what is written later wins. *)
Write(mem, at, n, cell) == [a \in at .. at + n - 1 |-> IF a = at THEN cell ELSE [end |-> FALSE, inner |-> TRUE]] @@ mem

HashInit(elts, conf) ==
  LET size == SizeFor(elts, conf)
      rows == [i \in 0 .. size - 1 |-> InBucket(elts, i, size)]
      start == [i \in 0 .. size - 1 |-> MapThenSumSet(LAMBDA j : BucketWords(rows[j]), 0 .. i - 1)]
      put(m, e) == [at |-> m.at + Words(e), mem |-> Write(m.mem, m.at, Words(e), [end |-> FALSE, inner |-> FALSE, elt |-> e])]
      fill(mem, i) == LET m == FoldLeft(put, [at |-> start[i], mem |-> mem], rows[i]) IN
                      IF rows[i] = << >> THEN mem ELSE m.mem
      ended(mem, i) == IF rows[i] = << >> THEN mem
                       ELSE Write(mem, start[i] + SumWords(rows[i]), 1, [end |-> TRUE, inner |-> FALSE])
      order == [i \in 1 .. size |-> i - 1]
      bad == \E i \in DOMAIN elts : conf.bucket < Words(elts[i]) + 1
  IN IF conf.max = 0 \/ bad THEN [ok |-> FALSE]
     ELSE [ok |-> TRUE, size |-> size, bucket |-> [i \in 0 .. size - 1 |-> IF rows[i] = << >> THEN -1 ELSE start[i]],
           mem |-> FoldLeft(ended, FoldLeft(fill, << >>, order), order)]

RECURSIVE Walk(_, _, _)
Walk(mem, at, name) ==
  IF mem[at].end THEN << >>
  ELSE IF mem[at].elt.name = name THEN << mem[at].elt >>
  ELSE Walk(mem, at + Words(mem[at].elt), name)

(* ngx_hash_find(): the element, if there is one *)
HashFind(hash, name) ==
  LET at == hash.bucket[HashOf(name) % hash.size] IN IF at = -1 THEN << >> ELSE Walk(hash.mem, at, name)

-----------------------------------------------------------------------------
(* ngx_hash_wildcard_init(): one element for each first label, that has    *)
(* the key of the name that ends there, or a table of what follows.        *)

Dotless(entries) == {e \in entries : Len(e.path) = 1}
Rest(e) == [e EXCEPT !.path = Tail(@)]

(* Fault of OwnValue: a table below has no value. *)
OwnValueIsLost(ends) == NoKey

OwnValue(ends) == IF ends = {} THEN NoKey ELSE (CHOOSE e \in ends : TRUE).value

RECURSIVE WildcardInit(_, _)
WildcardInit(entries, conf) ==
  LET labels == SetToSeq({e.path[1] : e \in entries})
      of(l) == {e \in entries : e.path[1] = l}
      more(l) == {Rest(e) : e \in of(l) \ Dotless(of(l))}
      (* the first of them in order has a dot *)
      dot(l) == \A e \in Dotless(of(l)) : e.dot
      elt(l) == IF more(l) # {}
                THEN [name |-> l, sub |-> TRUE, strict |-> dot(l), key |-> NoKey,
                      below |-> [WildcardInit(more(l), conf) EXCEPT !.value = OwnValue(Dotless(of(l)))]]
                ELSE [name |-> l, sub |-> FALSE, strict |-> dot(l), key |-> OwnValue(of(l)), below |-> << >>]
  IN [value |-> NoKey, hash |-> HashInit([i \in DOMAIN labels |-> elt(labels[i])], conf)]

(* ngx_hash_find_wc_head(), from the last label; ngx_hash_find_wc_tail() *)
RECURSIVE FindHead(_, _)
FindHead(hwc, name) ==
  LET found == HashFind(hwc.hash, Last(name))
      elt == found[1]
      deeper == FindHead(elt.below, Front(name))
  IN IF found = << >> THEN hwc.value
     ELSE IF Len(name) = 1 /\ elt.strict THEN NoKey
     ELSE IF ~elt.sub THEN elt.key
     ELSE IF Len(name) = 1 \/ deeper = NoKey THEN elt.below.value
     ELSE deeper

RECURSIVE FindTail(_, _)
FindTail(hwc, name) ==
  LET found == HashFind(hwc.hash, name[1])
      elt == found[1]
      deeper == FindTail(elt.below, Tail(name))
  IN IF Len(name) = 1 THEN NoKey
     ELSE IF found = << >> THEN hwc.value
     ELSE IF ~elt.sub THEN elt.key
     ELSE IF deeper = NoKey THEN elt.below.value ELSE deeper

(* ngx_hash_find_combined() *)
FindCombined(b, name) ==
  LET exact == IF b.exact = << >> THEN << >> ELSE HashFind(b.exact[1], name)
      head == IF b.head = << >> THEN NoKey ELSE FindHead(b.head[1], name)
      tail == IF b.tail = << >> THEN NoKey ELSE FindTail(b.tail[1], name)
  IN IF exact # << >> THEN exact[1].key ELSE IF head # NoKey THEN head ELSE tail

RECURSIVE Sound(_)
Sound(hwc) ==
  hwc.hash.ok /\ \A a \in DOMAIN hwc.hash.mem :
    LET c == hwc.hash.mem[a] IN ~c.end /\ ~c.inner /\ c.elt.sub => Sound(c.elt.below)

(* The caller builds what there is. *)
Build(conf) ==
  LET exact == HashInit([i \in DOMAIN keys.exact |-> [name |-> keys.exact[i].path, key |-> keys.exact[i].value]], conf)
      wild(es) == IF es = << >> THEN << >> ELSE << WildcardInit(Range(es), conf) >>
      head == wild(keys.head)
      tail == wild(keys.tail)
      ok == exact.ok /\ \A h \in Range(head \o tail) : Sound(h)
  IN /\ ~built.done
     /\ built' = IF ok THEN [done |-> TRUE, rc |-> "ok", exact |-> IF keys.exact = << >> THEN << >> ELSE << exact >>,
                             head |-> head, tail |-> tail]
                 ELSE [done |-> TRUE, rc |-> "error"]
     /\ UNCHANGED << keys, accepted >>

HashNext ==
  \/ \E kind \in Kinds, name \in HashNames : AddKey(kind, name)
  \/ \E conf \in HashConfs : Build(conf)

-----------------------------------------------------------------------------

(* What a name is answered by, from the keys alone: itself, else the       *)
(* longest wildcard at the head, else the longest one at the tail.         *)
Heads(name) == {k \in accepted : /\ k.kind \in {"dot", "star"} /\ IsSuffix(k.name, name)
                                 /\ k.kind = "star" => Len(name) > Len(k.name)}
Tails(name) == {k \in accepted : k.kind = "tail" /\ IsPrefix(k.name, name) /\ Len(name) > Len(k.name)}
Longest(ks) == IF ks = {} THEN NoKey ELSE CHOOSE k \in ks : \A j \in ks : Len(j.name) <= Len(k.name)
Meant(name) ==
  LET exact == [kind |-> "exact", name |-> name] IN
  IF exact \in accepted THEN exact
  ELSE IF Heads(name) # {} THEN Longest(Heads(name)) ELSE Longest(Tails(name))

(* Whatever keys were taken, in whatever order, and however the buckets    *)
(* fall, each name finds the key that is meant: no element of a bucket is  *)
(* lost or written over, and where a longer wildcard does not match the    *)
(* search falls back to the next shorter one (ngx_hash_init,               *)
(* ngx_hash_wildcard_init, ngx_hash_find_combined).                        *)
NamesFindTheirKeys ==
  built.done /\ built.rc = "ok" => \A name \in Asked : FindCombined(built, name) = Meant(name)
=============================================================================
