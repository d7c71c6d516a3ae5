---------------------------- MODULE ParallelRun ----------------------------
(***************************************************************************)
(* internal/orchestrator/parallel.go: ParallelRun and the await closure it *)
(* returns, together with the caller that reads its channel to the end     *)
(* (runParallel of cmd/sandcode/run.go, or the relay of forwardToParallel).*)
(*                                                                         *)
(* Each agent is one slot: a goroutine of an errgroup that calls Run in a  *)
(* worktree of its own and relays the events of that run into `out'.  The  *)
(* first Run that returns an error cancels the context of its siblings.    *)
(* The caller gets `out' only when ParallelRun returns, which is after the *)
(* last g.Go: with SetLimit, g.Go waits for a free place.                  *)
(*                                                                         *)
(* Run itself is RunPipeline; a slot keeps of it what ParallelRun reads.   *)
(***************************************************************************)
EXTENDS Integers, FiniteSets, Functions

CONSTANTS MaxAgents,      \* slots of the largest instance
          OutPerAgent,    \* buffer of `out' per agent: 64 in the code
          POptionSet      \* the ParallelOptions under consideration

Slots == 1..MaxAgents

POptions == [agents : 0..MaxAgents,     \* len(Agents)
             image : BOOLEAN,           \* SandboxImage # ""
             store : BOOLEAN,           \* Store # nil
             judge : BOOLEAN,           \* Judge # nil
             merge : BOOLEAN,           \* Strategy = merge-to-head
             mergeWinner : BOOLEAN,     \* MergeWinner
             keep : BOOLEAN,            \* KeepWorktrees
             limit : 0..MaxAgents,      \* MaxConcurrency
             burst : Nat]               \* bound: events one agent prints

NoPOptions == [agents |-> 0, image |-> FALSE, store |-> FALSE, judge |-> FALSE,
               merge |-> FALSE, mergeWinner |-> FALSE, keep |-> FALSE, limit |-> 0,
               burst |-> 0]

ASSUME ParallelAssumption ==
    /\ MaxAgents \in Nat
    /\ OutPerAgent \in Nat \ {0}
    /\ POptionSet \subseteq POptions

VARIABLES
    popts,
    ppc,        \* where ParallelRun, then its caller, then await stands
    slot,       \* each slot's goroutine
    prints,     \* events the agent of each slot is going to print
    collected,  \* events of each slot, in its SubResult
    out,        \* events of each slot waiting in the channel
    rendered,   \* events of each slot the caller has read
    closed,     \* g.Wait returned: `out' and doneCh are closed
    gctxDone,   \* the errgroup's context, or the caller's, is done
    result,     \* each slot's SubResult.Status; "zero" for no status
    ptree,      \* each slot's worktree ("given_up": Run has called Remove, in
                \* vain or not)
    headed,     \* slots whose branch was merged into the source repository
    winner,     \* Ranking.Winner: a slot, or 0 for an id that is no slot's
    judged,     \* what the judge gave: "none", "ranking" or "error"
    prow,       \* the parent's runs row
    pexit       \* what the caller reports: "open", "success" or "failure"

slotVars   == <<slot, prints, collected, out, rendered, result, ptree>>
verdictVars == <<headed, winner, judged, prow, pexit>>
pvars == <<popts, ppc, slotVars, closed, gctxDone, verdictVars>>

ParallelTypeOK ==
    /\ popts \in POptions
    /\ ppc \in {"call", "spawn", "read", "judge", "merge", "settle",
                "done", "refused"}
    /\ slot \in [Slots -> {"none", "calling", "relaying", "stored", "errored"}]
    /\ prints \in [Slots -> Nat]
    /\ collected \in [Slots -> Nat]
    /\ out \in [Slots -> Nat]
    /\ rendered \in [Slots -> Nat]
    /\ closed \in BOOLEAN /\ gctxDone \in BOOLEAN
    /\ result \in [Slots -> {"zero", "success", "failure"}]
    /\ ptree \in [Slots -> {"none", "present", "given_up"}]
    /\ headed \subseteq Slots
    /\ winner \in 0..MaxAgents
    /\ judged \in {"none", "ranking", "error"}
    /\ prow \in {"none", "running", "success", "failure"}
    /\ pexit \in {"open", "success", "failure"}

ParallelInit(options) ==
    /\ popts \in options
    /\ ppc = "call"
    /\ slot = [i \in Slots |-> "none"]
    /\ prints = [i \in Slots |-> 0]
    /\ collected = [i \in Slots |-> 0]
    /\ out = [i \in Slots |-> 0]
    /\ rendered = [i \in Slots |-> 0]
    /\ closed = FALSE /\ gctxDone = FALSE
    /\ result = [i \in Slots |-> "zero"]
    /\ ptree = [i \in Slots |-> "none"]
    /\ headed = {} /\ winner = 0 /\ judged = "none"
    /\ prow = "none" /\ pexit = "open"

-----------------------------------------------------------------------------
(* Options *)

Agents == 1..popts.agents
OutCap == OutPerAgent * popts.agents

WillMergeWinner == popts.judge /\ (popts.merge \/ popts.mergeWinner)

\* Mutant: the children keep their worktrees only when the caller asks.
KeepWorktrees_AsAsked == popts.keep

KeepWorktrees == popts.keep \/ WillMergeWinner

\* subStrategy: with several agents no child merges on its own.
ChildMerges == popts.merge /\ popts.agents <= 1

Running == {i \in Slots : slot[i] \in {"calling", "relaying"}}
HasPlace == popts.limit = 0 \/ Cardinality(Running) < popts.limit

InOut == SumFunction(out)

-----------------------------------------------------------------------------
(* ParallelRun up to its return *)

\* The parent's row is written best-effort.
EnterParallel ==
    /\ ppc = "call"
    /\ popts.agents > 0 /\ popts.image
    /\ ppc' = "spawn"
    /\ prow' \in {"none"} \cup (IF popts.store THEN {"running"} ELSE {})
    /\ UNCHANGED <<popts, slotVars, closed, gctxDone, headed, winner, judged, pexit>>

RefuseParallel ==
    /\ ppc = "call"
    /\ popts.agents = 0 \/ ~popts.image
    /\ ppc' = "refused"
    /\ UNCHANGED <<popts, slotVars, closed, gctxDone, verdictVars>>

\* g.Go, in the order of Agents; it blocks the loop until there is a place.
Spawn(i) ==
    /\ ppc = "spawn"
    /\ i \in Agents /\ slot[i] = "none"
    /\ \A j \in 1..(i - 1) : slot[j] # "none"
    /\ HasPlace
    /\ slot' = [slot EXCEPT ![i] = "calling"]
    /\ UNCHANGED <<popts, ppc, prints, collected, out, rendered, result, ptree, closed,
                   gctxDone, verdictVars>>

ReturnChannel ==
    /\ ppc = "spawn"
    /\ \A i \in Agents : slot[i] # "none"
    /\ ppc' = "read"
    /\ UNCHANGED <<popts, slotVars, closed, gctxDone, verdictVars>>

-----------------------------------------------------------------------------
(* A slot's goroutine *)

\* Run cannot start anything under a context that is already done.
RunStarts(i) ==
    /\ slot[i] = "calling"
    /\ ~gctxDone
    /\ slot' = [slot EXCEPT ![i] = "relaying"]
    /\ \E n \in 0..popts.burst : prints' = [prints EXCEPT ![i] = n]
    /\ ptree' = [ptree EXCEPT ![i] = "present"]
    /\ UNCHANGED <<popts, ppc, collected, out, rendered, result, closed, gctxDone,
                   verdictVars>>

\* Mutant: a Run that cannot start is called again.
RunErrs_Retries(i) ==
    /\ slot[i] = "calling"
    /\ gctxDone' = TRUE
    /\ UNCHANGED <<popts, ppc, slotVars, closed, verdictVars>>

\* A Run that fails before its agent starts returns an error and has removed
\* its worktree; the slot keeps the zero SubResult and the group is cancelled.
RunErrs(i) ==
    /\ slot[i] = "calling"
    /\ slot' = [slot EXCEPT ![i] = "errored"]
    /\ gctxDone' = TRUE
    /\ UNCHANGED <<popts, ppc, prints, collected, out, rendered, result, ptree, closed,
                   verdictVars>>

\* Mutant: events are dropped once the group is cancelled.
Relay_DropsWhenCancelled(i) ==
    /\ slot[i] = "relaying"
    /\ collected[i] < prints[i]
    /\ gctxDone \/ InOut < OutCap
    /\ collected' = [collected EXCEPT ![i] = @ + 1]
    /\ out' = IF gctxDone THEN out ELSE [out EXCEPT ![i] = @ + 1]
    /\ UNCHANGED <<popts, ppc, slot, prints, rendered, result, ptree, closed, gctxDone,
                   verdictVars>>

\* The send blocks while the channel is full, cancelled or not.
Relay(i) ==
    /\ slot[i] = "relaying"
    /\ collected[i] < prints[i]
    /\ InOut < OutCap
    /\ collected' = [collected EXCEPT ![i] = @ + 1]
    /\ out' = [out EXCEPT ![i] = @ + 1]
    /\ UNCHANGED <<popts, ppc, slot, prints, rendered, result, ptree, closed, gctxDone,
                   verdictVars>>

\* The agent is killed with its context; an event that is already waiting to
\* be sent stays there.
Killed(i) ==
    /\ slot[i] = "relaying" /\ gctxDone
    /\ collected[i] < prints[i] /\ InOut < OutCap
    /\ prints' = [prints EXCEPT ![i] = collected[i]]
    /\ UNCHANGED <<popts, ppc, slot, collected, out, rendered, result, ptree, closed,
                   gctxDone, verdictVars>>

\* The run's channel ends and await returns.  "failure" stands for cancelled
\* as well.  A child that merges on its own fails when the merge does.
Finish(i) ==
    /\ slot[i] = "relaying" /\ collected[i] = prints[i]
    /\ slot' = [slot EXCEPT ![i] = "stored"]
    /\ \E r \in {"success", "failure"} :
          /\ result' = [result EXCEPT ![i] = r]
          /\ headed' = headed \cup {j \in {i} : r = "success" /\ ChildMerges}
    /\ ptree' = [ptree EXCEPT ![i] = IF KeepWorktrees THEN "present" ELSE "given_up"]
    /\ UNCHANGED <<popts, ppc, prints, collected, out, rendered, closed, gctxDone, winner,
                   judged, prow, pexit>>

\* Mutant: the channels are closed by the first slot that ends.
GroupDone_First ==
    /\ ppc = "read" /\ ~closed
    /\ \E i \in Agents : slot[i] \in {"stored", "errored"}
    /\ closed' = TRUE
    /\ UNCHANGED <<popts, ppc, slotVars, gctxDone, verdictVars>>

\* g.Wait returns and `out' and doneCh are closed; the error is only logged.
GroupDone ==
    /\ ppc = "read" /\ ~closed
    /\ \A i \in Agents : slot[i] \in {"stored", "errored"}
    /\ closed' = TRUE
    /\ UNCHANGED <<popts, ppc, slotVars, gctxDone, verdictVars>>

\* The caller's context ends: a signal, or the serve context.
CancelParallel ==
    /\ ppc \in {"spawn", "read"} /\ ~gctxDone
    /\ gctxDone' = TRUE
    /\ UNCHANGED <<popts, ppc, slotVars, closed, verdictVars>>

-----------------------------------------------------------------------------
(* The caller: range over the channel, then await *)

Render(i) ==
    /\ ppc = "read" /\ out[i] > 0
    /\ out' = [out EXCEPT ![i] = @ - 1]
    /\ rendered' = [rendered EXCEPT ![i] = @ + 1]
    /\ UNCHANGED <<popts, ppc, slot, prints, collected, result, ptree, closed, gctxDone,
                   verdictVars>>

AwaitParallel ==
    /\ ppc = "read" /\ closed /\ \A i \in Slots : out[i] = 0
    /\ ppc' = IF popts.judge THEN "judge" ELSE "settle"
    /\ UNCHANGED <<popts, slotVars, closed, gctxDone, verdictVars>>

\* Judges refuse fewer than two candidates and may fail on any number.
JudgeFails ==
    /\ ppc = "judge"
    /\ judged' = "error"
    /\ ppc' = "settle"
    /\ UNCHANGED <<popts, slotVars, closed, gctxDone, headed, winner, prow, pexit>>

\* Every slot is a candidate, the failed and errored ones included, and the
\* winner a judge names is not compared with the candidates' ids.
JudgeRanks ==
    /\ ppc = "judge" /\ popts.agents >= 2
    /\ winner' \in 0..popts.agents
    /\ judged' = "ranking"
    /\ ppc' = IF popts.merge \/ popts.mergeWinner THEN "merge" ELSE "settle"
    /\ UNCHANGED <<popts, slotVars, closed, gctxDone, headed, prow, pexit>>

\* mergeWinner: an unknown id, or a slot whose Run returned an error (no id
\* and no worktree), is WinnerErr, as is a merge that conflicts.
MergeWinner ==
    /\ ppc = "merge"
    /\ headed' \in {headed} \cup
                   {headed \cup {i} : i \in {j \in Agents : j = winner /\ slot[j] = "stored"}}
    /\ ppc' = "settle"
    /\ UNCHANGED <<popts, slotVars, closed, gctxDone, winner, judged, prow, pexit>>

\* The zero Status of an errored slot is not success either.
ParallelStatus ==
    IF \A i \in Agents : result[i] = "success" THEN "success" ELSE "failure"

\* UpdateRun is best-effort and changes nothing when the row was never written.
SettleParent ==
    /\ ppc = "settle"
    /\ prow' \in {prow} \cup (IF prow = "running" THEN {ParallelStatus} ELSE {})
    /\ pexit' = ParallelStatus
    /\ ppc' = "done"
    /\ UNCHANGED <<popts, slotVars, closed, gctxDone, headed, winner, judged>>

ParallelStep ==
    \/ EnterParallel \/ RefuseParallel \/ ReturnChannel
    \/ \E i \in Slots : \/ Spawn(i) \/ RunStarts(i) \/ RunErrs(i)
                        \/ Relay(i) \/ Killed(i) \/ Finish(i) \/ Render(i)
    \/ GroupDone \/ AwaitParallel \/ JudgeFails \/ JudgeRanks \/ MergeWinner
    \/ SettleParent

\* ParallelRun by itself.
ParallelSpec == ParallelInit(POptionSet) /\ [][ParallelStep \/ CancelParallel]_pvars

ParallelOver == ppc \in {"done", "refused"}

-----------------------------------------------------------------------------
(* Properties *)

\* With several agents the source repository's HEAD receives at most the one
\* branch the judge named, after every slot has ended.  As the comment on
\* willMergeWinner demands, the winner's worktree has not been given up when
\* its branch is merged (the merge itself needs no more than the branch, which
\* Remove leaves alone).
HeadGetsTheWinner ==
    /\ Cardinality(headed) <= 1
    /\ (popts.agents > 1 /\ headed # {}) =>
          /\ judged = "ranking" /\ headed = {winner}
          /\ \A i \in Agents : slot[i] \in {"stored", "errored"}
    /\ (ppc = "merge" /\ winner # 0 /\ slot[winner] = "stored") =>
          ptree[winner] = "present"

\* "Always relay events": when the caller leaves its loop it has rendered
\* every event a slot collected, also those printed after a sibling's failure
\* cancelled the group.
RelayLosesNothing ==
    ppc \in {"judge", "merge", "settle", "done"} =>
        \A i \in Agents : rendered[i] = (IF slot[i] = "stored" THEN collected[i] ELSE 0)

\* ParallelRun as a fan-out whose members must all succeed.
ParallelFan == INSTANCE FanOut WITH
    Members  <- Slots,
    NeedsAll <- TRUE,
    active   <- IF ppc \in {"call", "refused"} THEN {} ELSE Agents,
    outcome  <- [i \in Slots |-> IF result[i] = "success" THEN "succeeded"
                                 ELSE IF slot[i] \in {"stored", "errored"} THEN "failed"
                                 ELSE "pending"],
    verdict  <- CASE ppc = "call" -> "idle"
                  [] ppc = "refused" -> "refused"
                  [] ppc = "done" -> pexit
                  [] OTHER -> "open"

\* The parallel run implements a fan-out that needs all its members: all are
\* known when it starts, each settles once, and the verdict follows from theirs.
ParallelIsFanOut == ParallelFan!FanOutSpec
=============================================================================
