------------------------------ MODULE MCVariant ------------------------------
(* Two types with two values each.                                         *)
EXTENDS Variant

CONSTANTS int, string

TwoTypes == <<int, string>>
=============================================================================
