------------------------------- MODULE RBTree -------------------------------
(***************************************************************************)
(* The red-black tree of ngx_rbtree.c, by its pointers.  Every turn of a   *)
(* loop of the code that restores the colours on the way up, after an      *)
(* insertion or a deletion, is a step; the way down, which only reads, is  *)
(* part of the first step of an insertion.                                 *)
(*                                                                         *)
(* Nil is the sentinel of the tree.  It is a node like any other for the   *)
(* code, which writes its field parent while it deletes; its links to      *)
(* children are never set.  The two mirrored halves of each loop are one   *)
(* operator with the side as a parameter.                                  *)
(***************************************************************************)
EXTENDS Integers, Sequences, FiniteSets

CONSTANTS
  Nodes,
  Nil,        (* the sentinel *)
  NULL,
  Half, Wraps, KeysOf,    (* as in OrderedTree *)
  MaxDeletes              (* bound on the number of deletions *)

Width == 2 * Half

All == Nodes \cup {Nil}

ASSUME RBTreeAssumption ==
  /\ IsFiniteSet(Nodes) /\ Nil \notin Nodes /\ NULL \notin All
  /\ Half \in Nat \ {0} /\ Wraps \in BOOLEAN
  /\ KeysOf \in [Nodes -> SUBSET (0 .. Width - 1)]
  /\ MaxDeletes \in Nat

VARIABLES
  tree,      (* root, and of each node the children, parent and colour *)
  key,       (* node->key *)
  pc,        (* the loop that runs *)
  cur,       (* the node that the loop has reached *)
  deletes,   (* history: how many nodes were deleted *)
  turns      (* history: the turns of the loop that runs *)

treeVars == << tree, key, pc, cur, deletes, turns >>

TreeInit ==
  /\ tree = [root |-> Nil,
             child |-> [s \in {"left", "right"} |-> [n \in All |-> NULL]],
             parent |-> [n \in All |-> NULL],
             red |-> {}]
  /\ key = [n \in Nodes |-> 0]
  /\ pc = "idle" /\ cur = NULL /\ deletes = 0 /\ turns = 0

Opp(s) == IF s = "left" THEN "right" ELSE "left"

Black(t, n) == [t EXCEPT !.red = @ \ {n}]
Red(t, n) == [t EXCEPT !.red = @ \cup {n}]
CopyColor(t, n, m) == IF m \in t.red THEN Red(t, n) ELSE Black(t, n)

(* The side on which a node hangs. *)
SideOf(t, n) == IF t.child["left"][t.parent[n]] = n THEN "left" ELSE "right"

(* The link that leads to n leads to m. *)
Relink(t, n, m) ==
  IF t.root = n THEN [t EXCEPT !.root = m]
  ELSE [t EXCEPT !.child[SideOf(t, n)][t.parent[n]] = m]

SetParent(t, n, p) == IF n = Nil THEN t ELSE [t EXCEPT !.parent[n] = p]

(* Turn the child of n on the other side up, n down to the side s. *)
Rotate(t, n, s) ==
  LET up == t.child[Opp(s)][n]
      moved == t.child[s][up]
      t1 == SetParent([t EXCEPT !.child[Opp(s)][n] = moved], moved, n)
      t2 == Relink([t1 EXCEPT !.parent[up] = t.parent[n]], n, up)
  IN [t2 EXCEPT !.child[s][up] = n, !.parent[n] = up]

Signed(d) == IF d % Width < Half THEN d % Width ELSE (d % Width) - Width
Before(k, l) == IF Wraps THEN Signed(k - l) < 0 ELSE k < l

(* The leftmost node below n. *)
LeastOf(t, n) ==
  LET down[m \in Nodes] ==
        IF t.child["left"][m] = Nil THEN m ELSE down[t.child["left"][m]]
  IN down[n]

Below(t) ==
  LET nodes[n \in All] ==
        IF n = Nil THEN {}
        ELSE {n} \cup nodes[t.child["left"][n]] \cup nodes[t.child["right"][n]]
  IN nodes[t.root]

-----------------------------------------------------------------------------
(* Insertion. *)

Leaf(t, n, p) ==
  [t EXCEPT !.child["left"][n] = Nil, !.child["right"][n] = Nil,
            !.parent[n] = p]

(* Fault of PlaceOf: equal keys go to the left. *)
PlaceBeforeEqual(t, k) ==
  LET side(n) == IF Before(key[n], k) THEN "right" ELSE "left"
      walk[n \in Nodes] ==
        LET c == t.child[side(n)][n]
        IN IF c = Nil THEN [at |-> n, side |-> side(n)] ELSE walk[c]
  IN walk[t.root]

(* ngx_rbtree_insert_value and ngx_rbtree_insert_timer_value: the node and *)
(* its side where the way down for the key k ends.                         *)
PlaceOf(t, k) ==
  LET side(n) == IF Before(k, key[n]) THEN "left" ELSE "right"
      walk[n \in Nodes] ==
        LET c == t.child[side(n)][n]
        IN IF c = Nil THEN [at |-> n, side |-> side(n)] ELSE walk[c]
  IN walk[t.root]

(* ngx_rbtree_insert, up to its loop. *)
Insert(n, k) ==
  /\ pc = "idle" /\ n \notin Below(tree)
  /\ key' = [key EXCEPT ![n] = k] /\ UNCHANGED deletes /\ turns' = 0
  /\ IF tree.root = Nil
       THEN /\ tree' = [Black(Leaf(tree, n, NULL), n) EXCEPT !.root = n]
            /\ UNCHANGED << pc, cur >>
       ELSE LET place == PlaceOf(tree, k)
            IN /\ tree' = Red([Leaf(tree, n, place.at)
                                 EXCEPT !.child[place.side][place.at] = n], n)
               /\ pc' = "inserted" /\ cur' = n

(* Fault of InsertRotations: an inner child is not turned outwards first. *)
OuterRotationOnly(t, n, s) ==
  LET p == t.parent[n]
      g == t.parent[p]
  IN Rotate(Red(Black(t, p), g), g, Opp(s))

(* The colours of t after a turn of the loop of ngx_rbtree_insert whose    *)
(* uncle is black: n is a red child of a red parent.                       *)
InsertRotations(t, n, s) ==
  LET inner == n = t.child[Opp(s)][t.parent[n]]
      t1 == IF inner THEN Rotate(t, t.parent[n], s) ELSE t
      p == IF inner THEN t1.parent[t.parent[n]] ELSE t.parent[n]
      g == t1.parent[p]
  IN Rotate(Red(Black(t1, p), g), g, Opp(s))

InsertFix ==
  /\ pc = "inserted" /\ turns' = turns + 1
  /\ UNCHANGED << key, deletes >>
  /\ IF cur = tree.root \/ tree.parent[cur] \notin tree.red
       THEN tree' = Black(tree, tree.root) /\ pc' = "idle" /\ cur' = NULL
       ELSE LET p == tree.parent[cur]
                g == tree.parent[p]
                s == SideOf(tree, p)
                uncle == tree.child[Opp(s)][g]
            IN /\ UNCHANGED pc
               /\ IF uncle \in tree.red
                    THEN /\ tree' = Red(Black(Black(tree, p), uncle), g)
                         /\ cur' = g
                    ELSE /\ tree' = InsertRotations(tree, cur, s)
                         /\ cur' = IF cur = tree.child[Opp(s)][p]
                                     THEN p ELSE cur

-----------------------------------------------------------------------------

(* The node n of t gives its place, links and colour to subst, which has   *)
(* been unlinked; temp hangs where subst hung.                             *)
Substitute(t, n, subst, temp) ==
  LET t1 == [t EXCEPT !.parent[temp] = IF t.parent[subst] = n THEN subst
                                       ELSE t.parent[subst]]
      t2 == [t1 EXCEPT !.child["left"][subst] = t1.child["left"][n],
                       !.child["right"][subst] = t1.child["right"][n],
                       !.parent[subst] = t1.parent[n]]
      t3 == Relink(CopyColor(t2, subst, n), n, subst)
      t4 == SetParent(t3, t3.child["left"][subst], subst)
  IN SetParent(t4, t4.child["right"][subst], subst)

Cleared(t, n) ==
  [t EXCEPT !.child["left"][n] = NULL, !.child["right"][n] = NULL,
            !.parent[n] = NULL]

LosesBlack(t, subst) == subst \notin t.red

(* ngx_rbtree_delete, up to its loop. *)
Delete(n) ==
  /\ pc = "idle" /\ n \in Below(tree)
  /\ deletes < MaxDeletes /\ deletes' = deletes + 1 /\ turns' = 0
  /\ LET l == tree.child["left"][n]
         r == tree.child["right"][n]
         subst == IF l = Nil \/ r = Nil THEN n ELSE LeastOf(tree, r)
         temp == IF l = Nil THEN r
                 ELSE IF r = Nil THEN l
                 ELSE tree.child["right"][subst]
         cut == [tree EXCEPT
                   !.child[SideOf(tree, subst)][tree.parent[subst]] = temp]
     IN IF subst = tree.root
          THEN /\ tree' = Cleared(Black([tree EXCEPT !.root = temp], temp), n)
               /\ UNCHANGED << pc, cur >>
          ELSE /\ tree' = Cleared(
                    IF subst = n
                      THEN [cut EXCEPT !.parent[temp] = tree.parent[subst]]
                      ELSE Substitute(cut, n, subst, temp), n)
               /\ IF LosesBlack(tree, subst)
                    THEN pc' = "deleted" /\ cur' = temp
                    ELSE UNCHANGED << pc, cur >>
  /\ key' = [key EXCEPT ![n] = 0]

(* A turn of the loop of ngx_rbtree_delete that ends it: the sibling w of  *)
(* n, on the side s, is black and has a red child.                         *)
DeleteRotations(t, n, w, s) ==
  LET p == t.parent[n]
      far == t.child[Opp(s)][w]
      t1 == IF far \in t.red THEN t
            ELSE Rotate(Red(Black(t, t.child[s][w]), w), w, Opp(s))
      w1 == t1.child[Opp(s)][p]
      t2 == Black(Black(CopyColor(t1, w1, p), p), t1.child[Opp(s)][w1])
  IN Rotate(t2, p, s)

DeleteFix ==
  /\ pc = "deleted" /\ turns' = turns + 1
  /\ UNCHANGED << key, deletes >>
  /\ IF cur = tree.root \/ cur \in tree.red
       THEN tree' = Black(tree, cur) /\ pc' = "idle" /\ cur' = NULL
       ELSE LET s == SideOf(tree, cur)
                p == tree.parent[cur]
                w0 == tree.child[Opp(s)][p]
                t == IF w0 \in tree.red
                       THEN Rotate(Red(Black(tree, w0), p), p, s) ELSE tree
                w == t.child[Opp(s)][p]
            IN /\ UNCHANGED pc
               /\ IF \A d \in {"left", "right"} : t.child[d][w] \notin t.red
                    THEN tree' = Red(t, w) /\ cur' = p
                    ELSE /\ tree' = DeleteRotations(t, cur, w, s)
                         /\ cur' = tree'.root

-----------------------------------------------------------------------------
Turn == InsertFix \/ DeleteFix

TreeNext ==
  \/ Turn
  \/ \E n \in Nodes : Delete(n) \/ \E k \in KeysOf[n] : Insert(n, k)

-----------------------------------------------------------------------------
TreeTypeOK ==
  /\ tree.root \in All
  /\ tree.child \in [{"left", "right"} -> [All -> All \cup {NULL}]]
  /\ tree.parent \in [All -> All \cup {NULL}]
  /\ tree.red \subseteq All
  /\ key \in [Nodes -> 0 .. Width - 1]
  /\ pc \in {"idle", "inserted", "deleted"}
  /\ cur \in All \cup {NULL} /\ deletes \in 0 .. MaxDeletes
  /\ turns \in 0 .. 2 * Cardinality(Nodes)

(* Along every path from n to the sentinel the number of black nodes, or   *)
(* -1 where two paths differ.                                              *)
BlackHeight(t) ==
  LET height[n \in All] ==
        IF n = Nil THEN 0
        ELSE LET l == height[t.child["left"][n]]
                 r == height[t.child["right"][n]]
             IN IF l # r \/ l = -1 THEN -1
                ELSE IF n \in t.red THEN l ELSE l + 1
  IN height[t.root]

(* Between two calls the tree is a red-black tree: the root is black, no   *)
(* red node has a red child, and all paths have as many black nodes.  The  *)
(* loops at ngx_rbtree.c:73 and :321 restore this turn by turn.            *)
IsRedBlack ==
  pc = "idle" =>
    /\ tree.root \notin tree.red
    /\ \A n \in Below(tree), s \in {"left", "right"} :
         n \in tree.red => tree.child[s][n] \notin tree.red
    /\ BlackHeight(tree) # -1

(* A child knows its parent, on which ngx_rbtree_next and every turn       *)
(* upwards rely; a deleted node is not linked from anywhere                *)
(* (ngx_rbtree.c:262-310).                                                 *)
LinksAgree ==
  LET below == Below(tree)
  IN /\ \A n \in below, s \in {"left", "right"} :
          LET c == tree.child[s][n]
          IN c \in below \cup {Nil} /\ (c # Nil => tree.parent[c] = n)
     /\ \A n \in Nodes \ below : \A s \in {"left", "right"} :
          tree.child[s][n] = NULL

(* The sentinel stays black and without children: the code never takes it  *)
(* for the sibling of a node (ngx_rbtree.c:321-406).                       *)
SentinelIsBlack ==
  /\ Nil \notin tree.red
  /\ \A s \in {"left", "right"} : tree.child[s][Nil] = NULL

InOrder(t) ==
  LET row[n \in All] ==
        IF n = Nil THEN << >>
        ELSE row[t.child["left"][n]] \o << n >> \o row[t.child["right"][n]]
  IN row[t.root]

(* ngx_rbtree_next: the least node to the right, or the first ancestor     *)
(* that is reached from the left; NULL after the last.                     *)
NextOf(t, n) ==
  LET up[m \in Nodes] ==
        IF m = t.root THEN NULL
        ELSE IF t.child["left"][t.parent[m]] = m THEN t.parent[m]
        ELSE up[t.parent[m]]
  IN IF t.child["right"][n] # Nil THEN LeastOf(t, t.child["right"][n])
     ELSE up[n]

(* Going from the least node to the next visits the nodes in their order,  *)
(* as ngx_event_no_timers_left and the walks over caches do.               *)
WalkIsInOrder ==
  pc = "idle" /\ tree.root # Nil =>
    LET row == InOrder(tree)
    IN /\ LeastOf(tree, tree.root) = row[1]
       /\ \A i \in 1 .. Len(row) :
            NextOf(tree, row[i]) = IF i = Len(row) THEN NULL ELSE row[i + 1]

(* The walk from one end to the other is the order of the tree: rotations  *)
(* and the turns of the loops leave it alone.                              *)
Ordered == INSTANCE OrderedTree WITH order <- InOrder(tree)
ImplementsOrderedTree == Ordered!Spec

(* No call runs for ever: its loop takes at most one turn for each level   *)
(* of the tree and one more, although a turn of the deletion may lower the *)
(* node it goes on with (ngx_rbtree.c:334, 346).                           *)
CallsReturn ==
  LET height[n \in All] ==
        IF n = Nil THEN 0
        ELSE LET l == height[tree.child["left"][n]]
                 r == height[tree.child["right"][n]]
             IN 1 + IF l < r THEN r ELSE l
  IN turns <= height[tree.root] + 1

(* Between two calls the tree is a red-black tree and the walk through it *)
(* is complete; its links, the sentinel and the loops are as every later   *)
(* call relies on, also in the middle of a call that restores the colours. *)
WellFormed == TreeTypeOK /\ LinksAgree /\ SentinelIsBlack /\ CallsReturn /\ IsRedBlack /\ WalkIsInOrder
=============================================================================
