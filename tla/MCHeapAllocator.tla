--------------------------- MODULE MCHeapAllocator ---------------------------
(* Requests that fill part of a page, a page less its header, and more than *)
(* a page, on a heap with room for four pages of blocks.                    *)
EXTENDS HeapAllocator, TLC

MCRequests == {24, 4080, 5000}
MCHeapSize == 5 * Page
MCCursorMax == 7 * Page
Symmetry == Permutations(Owners)
=============================================================================
