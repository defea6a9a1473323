--------------------------- MODULE MCThreadPool ---------------------------
(***************************************************************************)
(* Instances of ThreadPool for TLC.                                        *)
(***************************************************************************)
EXTENDS ThreadPool, TLC

CONSTANTS w1, w2, w3, p1, p2, j1, j2, j3, j4

MCThreeWorkers == {w1, w2, w3}
MCTwoWorkers == {w1, w2}
MCOneWorker == {w1}
MCTwoProducers == {p1, p2}
MCOneProducer == {p1}
MCFourJobs == {j1, j2, j3, j4}
MCThreeJobs == {j1, j2, j3}
MCTwoJobs == {j1, j2}

\* j1 and j2 tie, as two calls of compile do, and j3 comes before both.
MCPriority == j1 :> 0 @@ j2 :> 0 @@ j3 :> 1
MCFourPriority == MCPriority @@ j4 :> 1
MCTwoPriority == j1 :> 0 @@ j2 :> 1

MCSymmetry == Permutations(MCThreeWorkers) \cup Permutations(MCTwoProducers)
===========================================================================
