------------------------------- MODULE DAGRun -------------------------------
(***************************************************************************)
(* internal/orchestrator: DAGRun and what it drives.  A plan is cut into   *)
(* one chain per root; the chains run concurrently, each in a worktree and *)
(* a sandbox of its own, its nodes one after the other (runChain, runNode).*)
(* A chain that fails stops alone.  When the last one has returned the     *)
(* coordinator picks a winner among those that succeeded and, if there     *)
(* were several, a synthesizer runs once more in the winner's worktree.    *)
(* A plan of a single node is handed to Run (RunPipeline).                 *)
(*                                                                         *)
(* Every program the chains start gets the caller's context: none starts   *)
(* once it is done.                                                        *)
(***************************************************************************)
EXTENDS Planner, FiniteSets

CONSTANTS MaxChains,    \* roots of the largest plan
          DOptionSet    \* the DAGOptions under consideration

Chains == 1..MaxChains

DOptions == [plan : Seq(Nodes),
             judge : BOOLEAN,       \* Judge # nil
             keep : BOOLEAN,        \* KeepWorktree
             synthesize : BOOLEAN,  \* ~Synthesizer.Disabled
             refine : BOOLEAN,      \* Refine.active()
             max : Nat]             \* Refine.MaxAttempts, as given

NoDOptions == [plan |-> <<>>, judge |-> FALSE, keep |-> FALSE, synthesize |-> FALSE,
               refine |-> FALSE, max |-> 0]

ASSUME DAGAssumption ==
    /\ MaxChains \in Nat
    /\ DOptionSet \subseteq DOptions
    /\ \A o \in DOptionSet : DOMAIN Roots(o.plan) \subseteq Chains

VARIABLES
    dopts,
    dpc,        \* where DAGRun, then its coordinator, then the caller stands
    specs,      \* the chains decomposeChains made of the plan
    dctxDone,   \* the caller's context is done
    cpc,        \* where each runChain stands
    cnode,      \* the node of each chain being run
    ctry,       \* its attempt
    csuccess,   \* ChainResult.Success
    ctree,      \* each chain's worktree, one of Holding
    cbox,       \* each chain's sandbox, one of Holding
    cevents,    \* dag.chain_* events of each chain
    devents,    \* dag.started, dag.completed
    dwinner,    \* DAGResult.Winner: a chain, 0 for none or an id of no chain
    syn,        \* the synthesizer
    stry,       \* its attempt
    dexit       \* DAGResult.Error, as the caller sees it

chainVars == <<cpc, cnode, ctry, csuccess, ctree, cbox, cevents>>
synVars   == <<syn, stry>>
dvars == <<dopts, dpc, specs, dctxDone, chainVars, devents, dwinner, synVars, dexit>>

\* What a chain knows of its worktree or its sandbox.  "stuck": its removal was
\* tried and failed; "orphan": its creation failed halfway and left something
\* that the chain has no handle to remove.
Holding == {"none", "present", "gone", "stuck", "orphan"}

DAGTypeOK ==
    /\ dopts \in DOptions
    /\ dpc \in {"call", "single", "single_err", "chains", "judge", "synthesis", "emit",
                "done", "refused"}
    /\ specs \in Seq(Seq(NodeIDs))
    /\ dctxDone \in BOOLEAN
    /\ cpc \in [Chains -> {"none", "worktree", "equip", "sandbox", "agent", "verify",
                           "return", "done"}]
    /\ cnode \in [Chains -> Nat] /\ ctry \in [Chains -> Nat]
    /\ csuccess \in [Chains -> BOOLEAN]
    /\ ctree \in [Chains -> Holding]
    /\ cbox \in [Chains -> Holding]
    /\ cevents \in [Chains -> {"none", "started", "completed"}]
    /\ devents \in {"none", "started", "completed"}
    /\ dwinner \in 0..MaxChains
    /\ syn \in {"none", "equip", "agent", "verify", "succeeded", "failed"}
    /\ stry \in Nat
    /\ dexit \in {"open", "success", "failure"}

DAGInit(options) ==
    /\ dopts \in options
    /\ dpc = "call" /\ specs = <<>> /\ dctxDone = FALSE
    /\ cpc = [c \in Chains |-> "none"]
    /\ cnode = [c \in Chains |-> 1] /\ ctry = [c \in Chains |-> 1]
    /\ csuccess = [c \in Chains |-> FALSE]
    /\ ctree = [c \in Chains |-> "none"]
    /\ cbox = [c \in Chains |-> "none"]
    /\ cevents = [c \in Chains |-> "none"]
    /\ devents = "none" /\ dwinner = 0
    /\ syn = "none" /\ stry = 1
    /\ dexit = "open"

Spawned == DOMAIN specs
Survivors == {c \in Spawned : csuccess[c]}

-----------------------------------------------------------------------------
(* DAGRun up to its return *)

RefuseDAG ==
    /\ dpc = "call"
    /\ validateDAG(dopts.plan, dopts.judge) # "nil"
    /\ dpc' = "refused"
    /\ UNCHANGED <<dopts, specs, dctxDone, chainVars, devents, dwinner, synVars, dexit>>

\* One goroutine per chain, all started at once; a plan of one node is Run's.
EnterDAG ==
    /\ dpc = "call"
    /\ validateDAG(dopts.plan, dopts.judge) = "nil"
    /\ specs' = decomposeChains(dopts.plan)
    /\ devents' = "started"
    /\ IF Len(dopts.plan) = 1
       THEN dpc' = "single" /\ UNCHANGED cpc
       ELSE /\ dpc' = "chains"
            /\ cpc' = [c \in Chains |-> IF c \in DOMAIN specs' THEN "worktree" ELSE "none"]
    /\ UNCHANGED <<dopts, dctxDone, cnode, ctry, csuccess, ctree, cbox, cevents, dwinner,
                   synVars, dexit>>

\* runSingleNodeDAG when Run returns an error: the result is ready at once and
\* dag.completed is not published.
SingleErrs ==
    /\ dpc = "single"
    /\ dpc' = "single_err"
    /\ cpc' = [cpc EXCEPT ![1] = "done"]
    /\ UNCHANGED <<dopts, specs, dctxDone, cnode, ctry, csuccess, ctree, cbox, cevents,
                   devents, dwinner, synVars, dexit>>

SingleReturns ==
    /\ dpc = "single_err"
    /\ dpc' = "done" /\ dexit' = "failure"
    /\ UNCHANGED <<dopts, specs, dctxDone, chainVars, devents, dwinner, synVars>>

\* Run ends, and has tried to remove its worktree unless it was to be kept.
SingleRuns ==
    /\ dpc = "single"
    /\ dpc' = "emit"
    /\ cpc' = [cpc EXCEPT ![1] = "done"]
    /\ \E ok \in BOOLEAN : /\ csuccess' = [csuccess EXCEPT ![1] = ok]
                           /\ dwinner' = IF ok THEN 1 ELSE 0
    /\ \E t \in IF dopts.keep THEN {"present"} ELSE {"gone", "stuck"} :
          ctree' = [ctree EXCEPT ![1] = t]
    /\ UNCHANGED <<dopts, specs, dctxDone, cnode, ctry, cbox, cevents, devents, synVars,
                   dexit>>

CancelDAG ==
    /\ dpc \in {"single", "chains", "judge", "synthesis"} /\ ~dctxDone
    /\ dctxDone' = TRUE
    /\ UNCHANGED <<dopts, dpc, specs, chainVars, devents, dwinner, synVars, dexit>>

-----------------------------------------------------------------------------
(* runChain *)

otherVars == <<dopts, dpc, specs, dctxDone, devents, dwinner, synVars, dexit>>

ChainWorktree(c) ==
    /\ cpc[c] = "worktree" /\ ~dctxDone
    /\ cpc' = [cpc EXCEPT ![c] = "equip"]
    /\ ctree' = [ctree EXCEPT ![c] = "present"]
    /\ cevents' = [cevents EXCEPT ![c] = "started"]
    /\ UNCHANGED <<cnode, ctry, csuccess, cbox, otherVars>>

\* The injection of the MCP servers, then the auth provider.
ChainEquip(c) ==
    /\ cpc[c] = "equip"
    /\ cpc' = [cpc EXCEPT ![c] = "sandbox"]
    /\ UNCHANGED <<cnode, ctry, csuccess, ctree, cbox, cevents, otherVars>>

ChainSandbox(c) ==
    /\ cpc[c] = "sandbox" /\ ~dctxDone
    /\ cpc' = [cpc EXCEPT ![c] = "agent"]
    /\ cbox' = [cbox EXCEPT ![c] = "present"]
    /\ UNCHANGED <<cnode, ctry, csuccess, ctree, cevents, otherVars>>

\* Any of the three steps fails: started (if not yet) and completed are
\* published, success stays false.  A git or docker command that failed may
\* have done its work, and nobody undoes it.
ChainFails(c) ==
    /\ \/ /\ cpc[c] = "worktree"
          /\ \E t \in {"none", "orphan"} : ctree' = [ctree EXCEPT ![c] = t]
          /\ UNCHANGED cbox
       \/ cpc[c] = "equip" /\ UNCHANGED <<ctree, cbox>>
       \/ /\ cpc[c] = "sandbox"
          /\ \E b \in {"none", "orphan"} : cbox' = [cbox EXCEPT ![c] = b]
          /\ UNCHANGED ctree
    /\ cpc' = [cpc EXCEPT ![c] = "return"]
    /\ cevents' = [cevents EXCEPT ![c] = "completed"]
    /\ UNCHANGED <<cnode, ctry, csuccess, otherVars>>

\* What runChain does with runNode's result: the next node, or its end.
NodeEnds(c, ok) ==
    /\ IF ok /\ cnode[c] < Len(specs[c])
       THEN /\ cpc' = [cpc EXCEPT ![c] = "agent"]
            /\ cnode' = [cnode EXCEPT ![c] = @ + 1]
            /\ ctry' = [ctry EXCEPT ![c] = 1]
            /\ UNCHANGED <<csuccess, cevents>>
       ELSE /\ cpc' = [cpc EXCEPT ![c] = "return"]
            /\ csuccess' = [csuccess EXCEPT ![c] = ok]
            /\ cevents' = [cevents EXCEPT ![c] = "completed"]
            /\ UNCHANGED <<cnode, ctry>>
    /\ UNCHANGED <<ctree, cbox, otherVars>>

\* runNode's agent: an agent that fails is not refined, one that succeeds is
\* verified when refining is active.
NodeAgent(c) ==
    /\ cpc[c] = "agent"
    /\ \/ NodeEnds(c, FALSE)
       \/ ~dctxDone /\ ~dopts.refine /\ NodeEnds(c, TRUE)
       \/ /\ ~dctxDone /\ dopts.refine
          /\ cpc' = [cpc EXCEPT ![c] = "verify"]
          /\ UNCHANGED <<cnode, ctry, csuccess, ctree, cbox, cevents, otherVars>>

\* runNode's verification: it cannot be run or fails at the cap, it passes, or
\* it fails with an attempt left.  The cap is MaxAttempts as given: 0 allows
\* no second attempt, where Run reads it as 3.
NodeVerify(c) ==
    /\ cpc[c] = "verify"
    /\ \/ NodeEnds(c, FALSE)
       \/ ~dctxDone /\ NodeEnds(c, TRUE)
       \/ /\ ~dctxDone /\ ctry[c] < dopts.max
          /\ cpc' = [cpc EXCEPT ![c] = "agent"]
          /\ ctry' = [ctry EXCEPT ![c] = @ + 1]
          /\ UNCHANGED <<cnode, csuccess, ctree, cbox, cevents, otherVars>>

\* A deferred call that removes what the chain has a handle on; its error is
\* discarded.  With called = FALSE it is not made.
TornDown(h, called) == IF called /\ h = "present" THEN {"gone", "stuck"} ELSE {h}

\* Mutant: the worktree goes whenever it is not to be kept, as in Run.
ChainReturns_RemovesAlways(c) ==
    /\ cpc[c] = "return"
    /\ cpc' = [cpc EXCEPT ![c] = "done"]
    /\ \E b \in TornDown(cbox[c], TRUE), t \in TornDown(ctree[c], ~dopts.keep) :
          /\ cbox' = [cbox EXCEPT ![c] = b]
          /\ ctree' = [ctree EXCEPT ![c] = t]
    /\ UNCHANGED <<cnode, ctry, csuccess, cevents, otherVars>>

\* The deferred calls, last one first: Close of the sandbox; Remove of the
\* worktree after a success, while it stays after a failure.
ChainReturns(c) ==
    /\ cpc[c] = "return"
    /\ cpc' = [cpc EXCEPT ![c] = "done"]
    /\ \E b \in TornDown(cbox[c], TRUE), t \in TornDown(ctree[c], ~dopts.keep /\ csuccess[c]) :
          /\ cbox' = [cbox EXCEPT ![c] = b]
          /\ ctree' = [ctree EXCEPT ![c] = t]
    /\ UNCHANGED <<cnode, ctry, csuccess, cevents, otherVars>>

ChainStep(c) ==
    \/ ChainWorktree(c) \/ ChainEquip(c) \/ ChainSandbox(c) \/ ChainFails(c)
    \/ NodeAgent(c) \/ NodeVerify(c) \/ ChainReturns(c)

-----------------------------------------------------------------------------
(* The coordinator *)

\* wg.Wait.
AllReturned == \A c \in Spawned : cpc[c] = "done"

\* Mutant: a single survivor is put before the judge, too.
CountSurvivors_One ==
    /\ dpc = "chains" /\ AllReturned
    /\ dpc' = IF Survivors # {} THEN "judge" ELSE "emit"
    /\ UNCHANGED <<dopts, specs, dctxDone, chainVars, devents, dwinner, synVars, dexit>>

CountSurvivors ==
    /\ dpc = "chains" /\ AllReturned
    /\ dpc' = IF Cardinality(Survivors) > 1 THEN "judge" ELSE "emit"
    /\ dwinner' = IF Cardinality(Survivors) = 1 THEN CHOOSE c \in Survivors : TRUE ELSE 0
    /\ UNCHANGED <<dopts, specs, dctxDone, chainVars, devents, synVars, dexit>>

\* runJudgeOverChains: a judge that fails or names nobody leaves the first
\* survivor; what it names is not checked against the candidates.
Winners == {Min(Survivors)} \cup 0..MaxChains

JudgeChains ==
    /\ dpc = "judge"
    /\ dwinner' \in Winners
    /\ IF dopts.synthesize THEN dpc' = "synthesis" /\ syn' = "equip"
                           ELSE dpc' = "emit" /\ UNCHANGED syn
    /\ UNCHANGED <<dopts, specs, dctxDone, chainVars, devents, stry, dexit>>

\* findChain: the worktree the synthesizer is given, none when the winner is
\* not a survivor.
Mounted == {c \in Survivors : c = dwinner}

coordVars == <<dopts, specs, dctxDone, chainVars, devents, dwinner, dexit>>

SynEnds(ok) ==
    /\ syn' = IF ok THEN "succeeded" ELSE "failed"
    /\ dpc' = "emit"
    /\ UNCHANGED <<stry, coordVars>>

\* runSynthesizer: auth and sandbox, then the same attempt loop as a node.
SynEquip ==
    /\ dpc = "synthesis" /\ syn = "equip"
    /\ \/ SynEnds(FALSE)
       \/ ~dctxDone /\ syn' = "agent" /\ UNCHANGED <<dpc, stry, coordVars>>

SynAgent ==
    /\ dpc = "synthesis" /\ syn = "agent"
    /\ \/ SynEnds(FALSE)
       \/ ~dctxDone /\ ~dopts.refine /\ SynEnds(TRUE)
       \/ ~dctxDone /\ dopts.refine /\ syn' = "verify" /\ UNCHANGED <<dpc, stry, coordVars>>

SynVerify ==
    /\ dpc = "synthesis" /\ syn = "verify"
    /\ \/ SynEnds(FALSE)
       \/ ~dctxDone /\ SynEnds(TRUE)
       \/ /\ ~dctxDone /\ stry < dopts.max
          /\ syn' = "agent" /\ stry' = stry + 1
          /\ UNCHANGED <<dpc, coordVars>>

\* Mutant: the chains are not isolated, one failure fails the DAG.
CompleteDAG_NeedsAll ==
    /\ dpc = "emit"
    /\ devents' = "completed"
    /\ dexit' = IF Survivors # Spawned THEN "failure" ELSE "success"
    /\ dpc' = "done"
    /\ UNCHANGED <<dopts, specs, dctxDone, chainVars, dwinner, synVars>>

\* dag.completed, then the result: the synthesizer's outcome has no part in it.
CompleteDAG ==
    /\ dpc = "emit"
    /\ devents' = "completed"
    /\ dexit' = IF Survivors = {} THEN "failure" ELSE "success"
    /\ dpc' = "done"
    /\ UNCHANGED <<dopts, specs, dctxDone, chainVars, dwinner, synVars>>

DAGStep ==
    \/ RefuseDAG \/ EnterDAG \/ SingleErrs \/ SingleReturns \/ SingleRuns
    \/ \E c \in Chains : ChainStep(c)
    \/ CountSurvivors \/ JudgeChains \/ SynEquip \/ SynAgent \/ SynVerify \/ CompleteDAG

\* DAGRun by itself.
DAGSpec == DAGInit(DOptionSet) /\ [][DAGStep \/ CancelDAG]_dvars

DAGOver == dpc \in {"done", "refused"}

-----------------------------------------------------------------------------
(* Properties *)

\* Validate accepts exactly the well-formed plans, TopoSort orders them, and
\* DAGRun runs exactly those without a node of two dependencies (and with a
\* judge for several roots): its chains then hold every node of the plan once,
\* each after the node it depends on, so that no node is ever run before the
\* work it builds on is in the worktree.
ChainsCoverPlan ==
    /\ (Validate(dopts.plan) = "nil") <=> WellFormed(dopts.plan)
    /\ Validate(dopts.plan) = "nil" =>
          /\ OrderedOnce(dopts.plan, TopoSort(dopts.plan))
          /\ Len(TopoSort(dopts.plan)) = Len(dopts.plan)
    /\ Rooted(dopts.plan, dopts.judge)
    /\ specs # <<>> =>
          /\ WellFormed(dopts.plan)
          /\ HoldOnce(dopts.plan, specs)
          /\ \A c \in Spawned : OrderedOnce(dopts.plan, specs[c])

\* The judge and the synthesizer only ever see finished work: every chain has
\* returned and its sandbox is closed, or could not be, at least two succeeded,
\* and with KeepWorktree the worktree the synthesizer mounts is still there.
SynthesisAfterBarrier ==
    dpc \in {"judge", "synthesis"} =>
        /\ \A c \in Spawned : cpc[c] = "done" /\ cbox[c] # "present"
        /\ Cardinality(Survivors) > 1
        /\ dopts.keep => \A c \in Mounted : ctree[c] = "present"

\* When the caller has its result, dag.completed and the completion of every
\* chain have been published, every sandbox a chain opened has been closed or
\* resisted it, and the worktrees that are left untouched are exactly those
\* of chains that failed later than at the worktree and, with KeepWorktree, of
\* chains that succeeded (a single node is Run's).  Only a chain whose sandbox
\* could not be created leaves one that nobody tried to close.
DAGSettled ==
    (dpc = "done" /\ Len(dopts.plan) > 1) =>
        /\ devents = "completed"
        /\ \A c \in Spawned :
              /\ cevents[c] = "completed"
              /\ cbox[c] # "present"
              /\ cbox[c] = "orphan" => ~csuccess[c] /\ ctree[c] = "present"
              /\ ctree[c] \in {"gone", "stuck"} <=> (csuccess[c] /\ ~dopts.keep)
              /\ cbox[c] # "none" /\ ~csuccess[c] => ctree[c] = "present"

\* DAGRun as a fan-out of which one member has to succeed.  The verdict of a
\* run whose synthesizer failed is left open here: the code reports a success,
\* the comment on DAGRun an error.
DAGFan == INSTANCE FanOut WITH
    Members  <- Chains,
    NeedsAll <- FALSE,
    active   <- Spawned,
    outcome  <- [c \in Chains |-> IF cpc[c] # "done" THEN "pending"
                                  ELSE IF csuccess[c] THEN "succeeded" ELSE "failed"],
    verdict  <- CASE dpc = "call" -> "idle"
                  [] dpc = "refused" -> "refused"
                  [] dpc = "done" /\ syn # "failed" -> dexit
                  [] OTHER -> "open"

\* The DAG run implements a fan-out that needs a single member: chains fail in
\* isolation, each settles once, and the caller gets its one result after all
\* of them, with an error exactly when none succeeded (or the synthesizer
\* failed, on which nothing is said here).
DAGIsFanOut == DAGFan!FanOutSpec

\* "The agent runs in the winner's worktree": while the synthesizer works, the
\* worktree of the chain the judge chose exists.
SynthesizerHasWorktree ==
    syn \in {"agent", "verify"} => \A c \in Mounted : ctree[c] = "present"
=============================================================================
