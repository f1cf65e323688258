---------------------------- MODULE MCThreadPool ----------------------------
(* Instances of ThreadPool for TLC.                                        *)
EXTENDS ThreadPool

CONSTANTS w1, w2, main, timer, t1, t2, t3

PoolWorkers == {w1, w2}
PoolCallers == {main, timer}
PoolTasks   == {t1, t2, t3}
=============================================================================
