---------------------------- MODULE MCFastQCalls ----------------------------
(* A small instance of FastQCalls: two modules and slot 0, two threads.    *)
EXTENDS FastQCalls, TLC

CONSTANTS t1, t2, none

MCSets == {{}, {0, 1, 2}}
MCNoTxSets == {{}}
MCTxSets == {{}, {1}, {2}}

ThreadSymmetry == Permutations(Thread)
=============================================================================
