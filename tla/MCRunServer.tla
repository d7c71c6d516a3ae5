---------------------------- MODULE MCRunServer ----------------------------
(***************************************************************************)
(* Instances of RunServer for model checking.                              *)
(***************************************************************************)
EXTENDS RunServer

OnePriority == {1}
=============================================================================
