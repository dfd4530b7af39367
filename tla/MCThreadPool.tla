---------------------------- MODULE MCThreadPool ----------------------------
(* The owner adds a task p that adds another one, and two that add none.   *)
EXTENDS ThreadPool, TLC

CONSTANTS w1, w2, p, c, x, y

TwoWorkers == {w1, w2}
FourTasks  == {p, c, x, y}
MCParent   == (p :> Owner) @@ (c :> p) @@ (x :> Owner) @@ (y :> Owner)
MCMayWait  == {p}
=============================================================================
