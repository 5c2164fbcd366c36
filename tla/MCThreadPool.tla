----------------------------- MODULE MCThreadPool -----------------------------
(* A small instance of ThreadPool for TLC.  The run checks liveness and     *)
(* cannot use the symmetry of the workers and the tasks.                    *)
EXTENDS ThreadPool

CONSTANTS w1, w2, w3, t1, t2, t3

ThreeWorkers == {w1, w2, w3}
ThreeTasks   == {t1, t2, t3}
=============================================================================
