---------------------------- MODULE MCThreadPool ----------------------------
(* Small instances of ThreadPool, with the queue it implements.            *)
EXTENDS PoolQueue, TLC

CONSTANTS c1, c2, c3

TwoConsumers   == {c1, c2}
ThreeConsumers == {c1, c2, c3}

\* The safety properties say nothing of a run after its mutex was broken.
MutexRespected == ~broken

\* No consumer is told from another.
ConsumerSymmetry == Permutations(Consumers)
=============================================================================
