------------------------------ MODULE RadixTree ------------------------------
(***************************************************************************)
(* The radix tree of addresses (ngx_radix_tree.c): values are stored under *)
(* the first bits of an address, and an address finds the value of the     *)
(* longest prefix.  The functions of 128 bits, with keys of KeyBits bits;  *)
(* a node is named by the bits on the way to it.                           *)
(***************************************************************************)
EXTENDS Integers, Sequences, FiniteSets, SequencesExt, FiniteSetsExt

CONSTANTS
  KeyBits,
  RadixValues,
  NoValue,       (* NGX_RADIX_NO_VALUE *)
  PerPage,       (* nodes in a page *)
  RadixPages     (* bound on the pages: later ones cannot be allocated *)

VARIABLES
  radix,         (* the nodes with their values, tree->free, tree->size *)
  routes         (* history: the values that callers have stored *)
radixVars == << radix, routes >>

BitStrings == UNION {[1 .. n -> {0, 1}] : n \in 0 .. KeyBits}
Keys == [1 .. KeyBits -> {0, 1}]
Kids(nodes, n) == {m \in nodes : m # << >> /\ Front(m) = n}
Values(nodes) == [p \in nodes |-> radix.value[p]]

(* ngx_radix_alloc(), n times: from the list, then from a page.  Room is   *)
(* what the tree can get.                                                  *)
Room == radix.free + radix.size + PerPage * (RadixPages - radix.pages)
Alloc(r, n) ==
  LET fresh == Max({0, n - r.free})
      pages == Max({0, (fresh - r.size + PerPage - 1) \div PerPage}) IN
  [r EXCEPT !.free = Max({0, @ - n}), !.pages = @ + pages, !.size = @ + pages * PerPage - fresh]

(* Nodes of the way to p that are missing, shortest first; as many as can  *)
(* be allocated are there afterwards.                                      *)
Missing(p) == SelectSeq([n \in 1 .. Len(p) |-> SubSeq(p, 1, n)], LAMBDA q : q \notin radix.nodes)

(* ngx_radix_tree_create(): the root, and the levels that are preallocated *)
RadixInit ==
  \E levels \in 0 .. KeyBits - 1 :
    LET nodes == {p \in BitStrings : Len(p) <= levels} IN
    /\ radix = Alloc([nodes |-> nodes, value |-> [p \in nodes |-> NoValue], free |-> 0, size |-> 0, pages |-> 0],
                     Cardinality(nodes))
    /\ routes = [p \in BitStrings |-> NoValue]

(* ngx_radix128tree_insert() *)
RadixInsert(p, v) ==
  LET n == Min({Len(Missing(p)), Room})
      added == {Missing(p)[i] : i \in 1 .. n}
      grown == [Alloc(radix, n) EXCEPT !.nodes = @ \cup added,
                                       !.value = [q \in radix.nodes \cup added |-> IF q \in added THEN NoValue ELSE @[q]]]
  IN /\ p \in radix.nodes => radix.value[p] = NoValue     (* else NGX_BUSY *)
     /\ IF n < Len(Missing(p)) THEN radix' = grown /\ UNCHANGED routes
        ELSE /\ radix' = [grown EXCEPT !.value[p] = v]
             /\ routes' = [routes EXCEPT ![p] = v]

(* The leaf and, above it, the nodes without a value and another child *)
Dying(p) ==
  {p} \cup {q \in radix.nodes \ {<< >>} : IsStrictPrefix(q, p) /\
              \A r \in radix.nodes : IsPrefix(q, r) => IsPrefix(r, p) /\ (r # p => radix.value[r] = NoValue)}

(* ngx_radix128tree_delete().  Its callers do not delete the root of an    *)
(* empty tree: it has no parent.                                           *)
RadixDelete(p) ==
  /\ p \in radix.nodes
  /\ IF Kids(radix.nodes, p) # {}
     THEN /\ radix.value[p] # NoValue
          /\ radix' = [radix EXCEPT !.value[p] = NoValue]
     ELSE /\ p # << >>
          /\ LET left == radix.nodes \ Dying(p) IN
             radix' = [radix EXCEPT !.nodes = left, !.value = [q \in left |-> radix.value[q]],
                                    !.free = @ + Cardinality(Dying(p))]
  /\ routes' = [routes EXCEPT ![p] = NoValue]

(* ngx_radix128tree_find(): the last value on the way, which ends where a  *)
(* node is missing                                                         *)
RadixFind(key) ==
  LET from[n \in 0 .. KeyBits] ==
        LET p == SubSeq(key, 1, n)
            deeper == IF n < KeyBits THEN from[n + 1] ELSE NoValue
        IN IF p \notin radix.nodes THEN NoValue
           ELSE IF deeper # NoValue THEN deeper ELSE radix.value[p]
  IN from[0]

RadixNext == \E p \in BitStrings : RadixDelete(p) \/ \E v \in RadixValues : RadixInsert(p, v)

-----------------------------------------------------------------------------

(* After any insertions, also those that ran out of memory half way, and   *)
(* deletions, an address finds the value of the longest prefix that is     *)
(* stored; every node hangs from its parent, and every node that was ever  *)
(* allocated is in the tree, or waits to be used again                     *)
(* (ngx_radix128tree_insert, ngx_radix128tree_delete).                     *)
AddressesFindTheirRoute ==
  /\ \A key \in Keys :
       LET stored == {n \in 0 .. KeyBits : routes[SubSeq(key, 1, n)] # NoValue} IN
       RadixFind(key) = IF stored = {} THEN NoValue ELSE routes[SubSeq(key, 1, Max(stored))]
  /\ << >> \in radix.nodes /\ \A p \in radix.nodes \ {<< >>} : Front(p) \in radix.nodes
  /\ Cardinality(radix.nodes) + radix.free + radix.size = PerPage * radix.pages
=============================================================================
