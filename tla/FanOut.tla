------------------------------- MODULE FanOut -------------------------------
(***************************************************************************)
(* What the fan-outs of internal/orchestrator promise whoever called them: *)
(* a set of members is started together, every member settles on its own   *)
(* outcome exactly once and keeps it, and the verdict of the whole is      *)
(* given once, after every member has settled, from the members' outcomes  *)
(* alone.  ParallelRun asks for all of them to succeed, DAGRun for one.    *)
(***************************************************************************)
CONSTANTS Members, NeedsAll

VARIABLES active, outcome, verdict

fanVars == <<active, outcome, verdict>>

Succeeded == {m \in active : outcome[m] = "succeeded"}

Judgement ==
    IF (NeedsAll /\ Succeeded = active) \/ (~NeedsAll /\ Succeeded # {})
    THEN "success" ELSE "failure"

FanInit ==
    /\ active = {}
    /\ outcome = [m \in Members |-> "pending"]
    /\ verdict = "idle"

\* Every member is known from the start: nothing joins a fan-out later.
Begin ==
    /\ verdict = "idle"
    /\ \E A \in SUBSET Members : A # {} /\ active' = A
    /\ verdict' = "open"
    /\ UNCHANGED outcome

Refuse ==
    /\ verdict = "idle"
    /\ verdict' = "refused"
    /\ UNCHANGED <<active, outcome>>

SettleMember ==
    /\ verdict = "open"
    /\ \E m \in active, o \in {"succeeded", "failed"} :
          /\ outcome[m] = "pending"
          /\ outcome' = [outcome EXCEPT ![m] = o]
    /\ UNCHANGED <<active, verdict>>

Decide ==
    /\ verdict = "open"
    /\ \A m \in active : outcome[m] # "pending"
    /\ verdict' = Judgement
    /\ UNCHANGED <<active, outcome>>

FanNext == Begin \/ Refuse \/ SettleMember \/ Decide

FanOutSpec == FanInit /\ [][FanNext]_fanVars
=============================================================================
