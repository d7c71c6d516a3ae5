------------------------------- MODULE Kernel -------------------------------
(***************************************************************************)
(* internal/kernel: Process, the cognitive pipeline that runs before a     *)
(* run, and the strategy selector it calls.  One stage at a time:          *)
(*                                                                         *)
(*   classify > architect > stepback > plan > strategy > route             *)
(*            > recall > enrich > done                                     *)
(*                                                                         *)
(* Every stage but classify may be unwired; architect and stepback are     *)
(* gated on divergent or high-complexity prompts and plan on high ones.    *)
(* A wired stage publishes its result, or nothing when its work fails.  In *)
(* reactive mode it first publishes its command.  Recall and enrich are    *)
(* the two halves of the code's enrich stage.                              *)
(***************************************************************************)
EXTENDS EventSink

VARIABLES
    stage,      \* the next stage of Process; "off" when Execute has no kernel
    commanded,  \* the stage's command has been published (reactive mode)
    class,      \* what the classifier said of the prompt
    roots,      \* number of roots of the plan; 0 without a plan
    strategy,   \* the selected strategy; "" without a selector
    enriched    \* run.enriched was published

kernelVars == <<stage, commanded, class, roots, strategy, enriched>>

Stages == {"classify", "architect", "stepback", "plan", "strategy", "route",
           "recall", "enrich"}

\* A plan has one root or several: more than two behave like two.
MaxRoots == 2

KernelTypeOK ==
    /\ stage \in Stages \cup {"off", "done"}
    /\ commanded \in BOOLEAN
    /\ class \in {"plain", "divergent", "high"}
    /\ roots \in 0 .. MaxRoots
    /\ strategy \in {"", "single", "refine", "parallel"}
    /\ enriched \in BOOLEAN

KernelInit(wired) ==
    /\ stage = IF wired THEN "classify" ELSE "off"
    /\ commanded = FALSE
    /\ class = "plain"
    /\ roots = 0
    /\ strategy = ""
    /\ enriched = FALSE

After == [classify |-> "architect", architect |-> "stepback",
          stepback |-> "plan", plan |-> "strategy", strategy |-> "route",
          route |-> "recall", recall |-> "enrich", enrich |-> "done"]

Command == [classify |-> "classify.requested", architect |-> "architect.requested",
            stepback |-> "stepback.requested", plan |-> "plan.requested",
            strategy |-> "strategy.requested", route |-> "modelroute.requested",
            recall |-> "enrich.requested"]

ResultEvent == [classify |-> "run.classified", architect |-> "run.architected",
                stepback |-> "run.stepped_back", plan |-> "run.planned",
                strategy |-> "run.strategy_selected", route |-> "run.model_routed",
                recall |-> "brain.lesson_recalled", enrich |-> "run.enriched"]

\* The complexity gates of Process.
GateOpen ==
    CASE stage \in {"architect", "stepback"} -> class \in {"divergent", "high"}
      [] stage = "plan"                      -> class = "high"
      [] OTHER                               -> TRUE

\* RuleSelector.Select.
Select == IF roots > 1 THEN "parallel"
          ELSE IF class = "high" THEN "refine" ELSE "single"

-----------------------------------------------------------------------------

\* The stage is not wired, or its gate is closed: no command, no event.
SkipStage ==
    /\ stage \in Stages \ {"classify", "enrich"}
    /\ ~commanded
    /\ stage' = IF stage = "recall" THEN "done" ELSE After[stage]
    /\ UNCHANGED <<commanded, class, roots, strategy, enriched>>
    /\ UNCHANGED sinkVars

\* Kernel.stage in reactive mode: Dispatch publishes the seed command.
CommandStage(reactive) ==
    /\ reactive
    /\ stage \in DOMAIN Command
    /\ GateOpen
    /\ ~commanded
    /\ commanded' = TRUE
    /\ Publish(Command[stage])
    /\ UNCHANGED <<stage, class, roots, strategy, enriched>>

\* The stage's work may begin: in reactive mode only after its command.
WorkReady(reactive) ==
    /\ stage \in Stages
    /\ GateOpen
    /\ commanded = (reactive /\ stage \in DOMAIN Command) \/ stage = "enrich"

\* The stage's work succeeds and its result is published.
StageDone(reactive) ==
    /\ WorkReady(reactive)
    /\ Publish(ResultEvent[stage])
    /\ stage' = After[stage]
    /\ commanded' = FALSE
    /\ IF stage = "classify" THEN class' \in {"plain", "divergent", "high"}
                             ELSE class' = class
    /\ IF stage = "plan" THEN roots' \in 1 .. MaxRoots ELSE roots' = roots
    /\ strategy' = IF stage = "strategy" THEN Select ELSE strategy
    /\ enriched' = (stage = "enrich" \/ enriched)

\* Mutant: a failing stage is dispatched again instead of skipped.
StageDegrades_Retries(reactive) ==
    /\ WorkReady(reactive)
    /\ stage \in {"architect", "stepback", "plan", "recall", "enrich"}
    /\ commanded' = FALSE
    /\ UNCHANGED <<stage, class, roots, strategy, enriched>>
    /\ UNCHANGED sinkVars

\* The work fails (or recalls nothing, or finds no principle): a warning, no
\* event, and the next stage.
StageDegrades(reactive) ==
    /\ WorkReady(reactive)
    /\ stage \in {"architect", "stepback", "plan", "recall", "enrich"}
    /\ stage' = After[stage]
    /\ commanded' = FALSE
    /\ UNCHANGED <<class, roots, strategy, enriched>>
    /\ UNCHANGED sinkVars

Process(reactive) ==
    \/ SkipStage
    \/ CommandStage(reactive)
    \/ StageDone(reactive)
    \/ StageDegrades(reactive)
=============================================================================
