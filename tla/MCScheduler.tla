---------------------------- MODULE MCScheduler ----------------------------
(***************************************************************************)
(* Instances of Scheduler for TLC.                                         *)
(***************************************************************************)
EXTENDS Scheduler, TLC

\* Two priorities order entries as any number of them does.
TwoPriorities == {1, 2}

Symmetry == Permutations(Workers) \cup Permutations(RunIDs)
=============================================================================
