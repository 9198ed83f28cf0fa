------------------------------- MODULE Absent -------------------------------
(* What stands where a value may be missing: no row, no file, no event.    *)
CONSTANT None
=============================================================================
