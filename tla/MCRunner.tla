------------------------------ MODULE MCRunner ------------------------------
(***************************************************************************)
(* Instances of Runner for TLC.                                            *)
(***************************************************************************)
EXTENDS Runner

CONSTANTS t1, t2, c1, n1, s1

MCThreads == {t1, t2}
MCConvs == {c1}
MCNodes == {n1}
MCScripts == {s1}

MCOneFile == {<<"libs", "moment">>}
=============================================================================
