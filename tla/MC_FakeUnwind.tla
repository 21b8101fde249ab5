--------------------------- MODULE MC_FakeUnwind ---------------------------
(***************************************************************************)
(* A 7-bit address space with 4-byte words.  The stack occupies the six  *)
(* words 40..60, well below the top of the address space (as the real     *)
(* stack lies below BEGINNING_OF_STACK) and above STEP_LIMIT (as a real   *)
(* stack lies above 256MB).  SANE_LIMIT is three words.                   *)
(***************************************************************************)
EXTENDS FakeUnwind

MCStackWords == {40, 44, 48, 52, 56, 60}

(* Null, the stack's frame addresses and a misaligned word, as          *)
(* -fomit-frame-pointer code leaves in bp.                               *)
GarbageVals == {0, 44, 50, 52, 60}
=============================================================================
