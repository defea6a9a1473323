------------------------------ MODULE MCCNode ------------------------------
(***************************************************************************)
(* Instances of CNode for TLC.                                             *)
(***************************************************************************)
EXTENDS CNode, TLC

CONSTANTS r1, r2, r3, t1, t2

MCThreeRequests == {r1, r2, r3}
MCTwoRequests == {r1, r2}
MCThreads == {t1, t2}

\* All of them, with one for the handlers that touch nothing of the node.
MCCommands == JobCommands \cup {"unknown", "get_statistics", "set_max_diff_time", "set_priority",
                                "remove_priority", "get_priorities"}
MCSomeCommands == {"compile", "remove", "run", "check_code", "set_max_diff_time"}

MCSymmetry == Permutations(MCThreeRequests) \cup Permutations(MCThreads)
============================================================================
