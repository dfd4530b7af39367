------------------------------- MODULE MCStack -------------------------------
(* One thread, as in bin/stack.cc.                                         *)
EXTENDS Stack

CONSTANTS t1, v1, v2, a1, a2

OneThread == {t1}
TwoValues == {v1, v2}
TwoAddrs  == {a1, a2}
=============================================================================
