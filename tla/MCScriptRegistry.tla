-------------------------- MODULE MCScriptRegistry --------------------------
(***************************************************************************)
(* Instances of ScriptRegistry for TLC.                                    *)
(***************************************************************************)
EXTENDS ScriptRegistry, TLC

CONSTANTS t1, t2, t3, c1, c2, n1, n2, s1, s2

MCThreads == {t1, t2, t3}
MCOneConv == {c1}
MCConvs == {c1, c2}
MCNodes == {n1, n2}
MCOneNode == {n1}
MCScripts == {s1, s2}
MCOneScript == {s1}

MCSymmetry == Permutations(MCThreads) \cup Permutations(MCConvs)
                \cup Permutations(MCNodes) \cup Permutations(MCScripts)
=============================================================================
