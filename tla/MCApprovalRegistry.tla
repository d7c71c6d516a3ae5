------------------------- MODULE MCApprovalRegistry -------------------------
(***************************************************************************)
(* An instance of ApprovalRegistry: two calls that share a run id, which   *)
(* the package allows, and one alone with its run, as the orchestrator     *)
(* makes them.                                                             *)
(***************************************************************************)
EXTENDS ApprovalRegistry, TLC

CONSTANTS c1, c2, c3, r1, r2

CallIDs == {c1, c2, c3}
Runs    == {r1, r2}
Shared  == c1 :> r1 @@ c2 :> r1 @@ c3 :> r2
=============================================================================
