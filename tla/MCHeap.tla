------------------------------- MODULE MCHeap -------------------------------
(* The heap with pages of a few units, so that rounding to pages, headers   *)
(* that just do not fit and several expansions all happen within a dozen    *)
(* segments.                                                                *)
EXTENDS Heap
=============================================================================
