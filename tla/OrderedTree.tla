---------------------------- MODULE OrderedTree ----------------------------
(***************************************************************************)
(* What a tree of ngx_rbtree_t promises to its users: the nodes in one     *)
(* order, in which a new node has a place between two neighbours that      *)
(* compare as its key requires.  In a search tree both neighbours of the   *)
(* place are met on the way down, so that this is all a user can rely on,  *)
(* whatever the shape; where the comparison is an order the place is       *)
(* unique but for equal keys.                                              *)
(*                                                                         *)
(* Keys are words of Width values.  Trees of timers compare them as signed *)
(* differences (Wraps), the others as unsigned numbers.                    *)
(***************************************************************************)
EXTENDS Integers, Sequences, SequencesExt

CONSTANTS
  Nodes,
  Half,       (* half the number of values of ngx_rbtree_key_t *)
  Wraps,      (* insert is ngx_rbtree_insert_timer_value *)
  KeysOf      (* bound: the keys that a node may be given *)

Width == 2 * Half

(* The signed value of the difference of two words. *)
Signed(d) == IF d % Width < Half THEN d % Width ELSE (d % Width) - Width

Before(k, l) == IF Wraps THEN Signed(k - l) < 0 ELSE k < l

VARIABLES order, key

vars == << order, key >>

Places(s, k) ==
  {i \in 1 .. Len(s) + 1 :
     /\ i > 1 => ~Before(k, key[s[i - 1]])
     /\ i <= Len(s) => Before(k, key[s[i]])}

With(s, n, k) == {InsertAt(s, i, n) : i \in Places(s, k)}

Init ==
  /\ order = << >>
  /\ key = [n \in Nodes |-> 0]

Insert(n, k) ==
  /\ key' = [key EXCEPT ![n] = k]
  /\ ~Contains(order, n)
  /\ order' \in With(order, n, k)

(* The key of a node that was deleted is cleared. *)
Delete(n) ==
  /\ key' = [key EXCEPT ![n] = 0]
  /\ Contains(order, n)
  /\ order' = Remove(order, n)

Next ==
  /\ order' # order
  /\ \E n \in Nodes : Delete(n) \/ \E k \in KeysOf[n] : Insert(n, k)

Spec == Init /\ [][Next]_vars
=============================================================================
