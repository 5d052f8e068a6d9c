----------------------------- MODULE Allocator -----------------------------
(***************************************************************************)
(* What an allocator of memory promises: blocks that are handed out lie    *)
(* inside the memory and never overlap, until they are given back.         *)
(***************************************************************************)
EXTENDS Integers

CONSTANT Limit      (* the bytes of the memory are 0 .. Limit - 1 *)

VARIABLES
  live,             (* the blocks that are handed out *)
  held              (* how many they are *)

vars == << live, held >>

Disjoint(b, c) == b.addr + b.len <= c.addr \/ c.addr + c.len <= b.addr

Init == live = {} /\ held = 0

Alloc ==
  \E b \in live' \ live :
    /\ b.addr \in 0 .. Limit - 1 /\ b.len \in 1 .. Limit - b.addr
    /\ \A c \in live : Disjoint(b, c)
    /\ live' = live \cup {b} /\ held' = held + 1

Free == \E b \in live : live' = live \ {b} /\ held' = held - 1

Next == Alloc \/ Free

Spec == Init /\ [][Next]_vars
=============================================================================
