------------------------------- MODULE MCSlab -------------------------------
(* Slab for TLC with pages so large that the bits for the bitmap itself    *)
(* fill a word.                                                            *)
EXTENDS Slab

Smallest == {2}
Spec == SlabSpec
=============================================================================
