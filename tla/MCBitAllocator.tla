--------------------------- MODULE MCBitAllocator ---------------------------
(* Room for two chunks of two bitmaps of three bits; the third bit of the  *)
(* top-level map lies beyond the range.                                    *)
EXTENDS BitAllocator
=============================================================================
