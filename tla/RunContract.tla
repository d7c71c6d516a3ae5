---------------------------- MODULE RunContract ----------------------------
(***************************************************************************)
(* What orchestrator.Run promises to whoever reads a run from outside: the *)
(* runs row (internal/store) and the terminal lifecycle event.  A run has  *)
(* at most one outcome, the row settles on it before it is announced, and  *)
(* nothing changes after the announcement.  Store errors are logged and    *)
(* never fail the run: after one (`lost') the row may lag behind.          *)
(***************************************************************************)
EXTENDS Sequences

VARIABLES row, lost, terminal

contractVars == <<row, lost, terminal>>

\* The runs.status values of internal/store with the event that announces each.
Announcement == [success |-> "run.completed", failure |-> "run.failed",
                 cancelled |-> "run.cancelled"]

Outcomes == DOMAIN Announcement

ContractInit == row = "none" /\ lost = FALSE /\ terminal = <<>>

\* CreateRun(status=running): once, before any outcome.
Begin ==
    /\ row = "none" /\ terminal = <<>>
    /\ \/ row' = "running" /\ lost' = lost
       \/ row' = row /\ lost' = TRUE
    /\ UNCHANGED terminal

\* CreateRun(status=failure) of a run that never started, or UpdateRun.
Settle ==
    /\ row \notin Outcomes /\ terminal = <<>>
    /\ \/ row' \in Outcomes /\ lost' = lost
       \/ row' = row /\ lost' = TRUE
    /\ UNCHANGED terminal

Announce ==
    /\ terminal = <<>>
    /\ \E o \in Outcomes : /\ row = o \/ lost
                           /\ terminal' = <<Announcement[o]>>
    /\ UNCHANGED <<row, lost>>

ContractNext == Begin \/ Settle \/ Announce

Contract == ContractInit /\ [][ContractNext]_contractVars
=============================================================================
