--------------------------- MODULE MCSubAllocator ---------------------------
(* Blocks of 1 and 3 units, 2 being rounded up to 3: a block may be larger  *)
(* than what is used of it, and merged runs are cut into several pieces.    *)
EXTENDS SubAllocator
=============================================================================
