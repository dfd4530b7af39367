---------------------------- MODULE MCPageServer ----------------------------
(* Chunks of three pages, so that an address can be off by one or by two.  *)
EXTENDS PageServer, TLC

CONSTANTS daemon, t1, t2

DaemonAndTwo    == {daemon, t1, t2}
Interchangeable == Permutations({t1, t2})
=============================================================================
