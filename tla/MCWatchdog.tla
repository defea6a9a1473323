---------------------------- MODULE MCWatchdog ----------------------------
(***************************************************************************)
(* Instances of Watchdog for TLC.                                          *)
(***************************************************************************)
EXTENDS Watchdog, TLC

CONSTANTS t1, t2, i1, i2

MCTwoThreads == {t1, t2}
MCOneThread == {t1}
MCTwoIsolates == {i1, i2}
MCOneIsolate == {i1}

MCSymmetry == Permutations(MCTwoThreads) \cup Permutations(MCTwoIsolates)
===========================================================================
