------------------------------ MODULE MCTables ------------------------------
(* The tables of a worker, one at a time: three connections, names of one  *)
(* and two labels, addresses of three bits, and a tree of ten nodes whose  *)
(* keys go around the wrap of the words, where the fourth node has the key *)
(* of the fifth and the last two come when all the others are there.       *)
EXTENDS Connections, HashTable, RadixTree, RBTree
CONSTANTS ls, c1, c2
VARIABLES part
MCSlots == {ls, c1, c2}
MCPosting == {<< c1, "write" >>}
L1 == {"a", "b"}
MCNames == {<< x >> : x \in L1} \cup (L1 \X L1)
MCAsked == MCNames \cup (L1 \X L1 \X L1)
Number(x) == IF x = "a" THEN 1 ELSE 2
MCHashOf(x) == IF x \in L1 THEN Number(x) ELSE FoldLeft(LAMBDA h, y : 31 * h + Number(y), 0, x)
MCLenOf(x) == IF x \in L1 THEN Number(x) ELSE Len(x)
MCConfs == {[max |-> 1, bucket |-> 4], [max |-> 3, bucket |-> 4], [max |-> 2, bucket |-> 8], [max |-> 3, bucket |-> 3]}
Ten == 1 .. 10
Around == [n \in Nodes |-> {IF n = 4 THEN 0 ELSE (n + Width - 5) % Width}]
LastTwo == \A n \in 9 .. 10 : n \in Below(tree') \ Below(tree) => 1 .. n - 1 \subseteq Below(tree)

(* One of the parts moves, the others stay as they began. *)
Init == /\ part \in {"connections", "hash", "radix", "tree"} /\ HashInitially /\ TreeInit
        /\ ConnInit /\ (part # "connections" => freeList = << c1, c2 >>)
        /\ RadixInit /\ (part # "radix" => Cardinality(radix.nodes) = 1)
Next == \/ part = "connections" /\ ConnNext /\ UNCHANGED << part, hashVars, radixVars, treeVars >>
        \/ part = "hash" /\ HashNext /\ UNCHANGED << part, connVars, radixVars, treeVars >>
        \/ part = "radix" /\ RadixNext /\ UNCHANGED << part, connVars, hashVars, treeVars >>
        \/ part = "tree" /\ TreeNext /\ LastTwo /\ UNCHANGED << part, connVars, hashVars, radixVars >>
Spec == Init /\ [][Next]_<< part, connVars, hashVars, radixVars, treeVars >>

(* Names and addresses find what was entered for them. *)
LookupsFind == (part = "hash" => NamesFindTheirKeys) /\ (part = "radix" => AddressesFindTheirRoute)
=============================================================================
