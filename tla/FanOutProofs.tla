---------------------------- MODULE FanOutProofs ----------------------------
(***************************************************************************)
(* Proofs about the two fan-outs, for every number of agents, every buffer *)
(* and all options.  The parallel run implements FanOut, the branch that   *)
(* reaches HEAD is the judge's, and the relay loses nothing that an agent  *)
(* printed.  The DAG run, for any number of chains: it implements FanOut,  *)
(* judge and synthesizer see finished work only, what has returned has     *)
(* announced and cleaned up everything, and its chains are the plan.  And  *)
(* about the `run' command that drives them: its exit code and its report  *)
(* tell what happened, and the fan-outs keep their promises under it.      *)
(***************************************************************************)
EXTENDS RunCommand, PlannerProofs

-----------------------------------------------------------------------------
(* The inductive invariant *)

Waiting == {"judge", "merge", "settle"}

\* A slot has a result when its Run was awaited, and only slots of agents start.
ResultsStored ==
    \A i \in Slots : /\ result[i] # "zero" <=> slot[i] = "stored"
                     /\ slot[i] # "none" => i \in Agents

\* How far the slots are, wherever ParallelRun and its caller stand.
SlotsFollow ==
    /\ ppc \in {"call", "refused"} => \A i \in Slots : slot[i] = "none"
    /\ ppc \notin {"call", "refused"} => popts.agents > 0
    /\ ppc \in {"read"} \cup Waiting \cup {"done"} => \A i \in Agents : slot[i] # "none"
    /\ ppc \in Waiting \cup {"done"} => closed
    /\ closed => /\ ppc \in {"read"} \cup Waiting \cup {"done"}
                 /\ \A i \in Agents : slot[i] \in {"stored", "errored"}

\* The verdict is given once, from the slots' results.
VerdictFollows ==
    /\ ppc # "done" => pexit = "open"
    /\ ppc = "done" => pexit = ParallelStatus

FanOutInvariant == ParallelTypeOK /\ ResultsStored /\ SlotsFollow /\ VerdictFollows

LEMMA SlotsOfAgents ==
    ASSUME ParallelTypeOK
    PROVE  popts.agents \in 0..MaxAgents /\ Agents \subseteq Slots
<1>1. popts \in POptions
  BY DEF ParallelTypeOK
<1>2. popts.agents \in 0..MaxAgents
  BY <1>1 DEF POptions
<1> QED
  BY <1>2, ParallelAssumption DEF Agents, Slots

LEMMA FanOutInitially ==
    ASSUME NEW options \in SUBSET POptions, ParallelInit(options)
    PROVE  FanOutInvariant
<1>1. ParallelTypeOK
  <2>1. popts \in POptions
    BY ParallelAssumption DEF ParallelInit
  <2>2. closed \in BOOLEAN /\ gctxDone \in BOOLEAN
    BY DEF ParallelInit
  <2>3. MaxAgents \in Nat
    BY ParallelAssumption
  <2> QED
    BY <2>1, <2>2, <2>3 DEF ParallelInit, ParallelTypeOK
<1>2. ResultsStored /\ SlotsFollow /\ VerdictFollows
  BY DEF ParallelInit, ResultsStored, SlotsFollow, VerdictFollows, Waiting
<1> QED
  BY <1>1, <1>2 DEF FanOutInvariant

LEMMA FanOutStarted == ParallelInit(POptionSet) => FanOutInvariant
  BY FanOutInitially, ParallelAssumption

LEMMA TypeStep ==
    ASSUME ParallelTypeOK, [ParallelStep \/ CancelParallel]_pvars
    PROVE  ParallelTypeOK'
<1> USE ParallelAssumption DEF ParallelTypeOK, slotVars, verdictVars
<1>1. CASE EnterParallel
  BY <1>1 DEF EnterParallel
<1>2. CASE RefuseParallel \/ ReturnChannel \/ GroupDone \/ AwaitParallel \/ CancelParallel
  BY <1>2 DEF RefuseParallel, ReturnChannel, GroupDone, AwaitParallel, CancelParallel
<1>3. ASSUME NEW i \in Slots, Spawn(i) \/ RunErrs(i) PROVE ParallelTypeOK'
  BY <1>3 DEF Spawn, RunErrs
<1>4. ASSUME NEW i \in Slots, RunStarts(i) PROVE ParallelTypeOK'
  <2>1. PICK n \in 0..popts.burst : prints' = [prints EXCEPT ![i] = n]
    BY <1>4 DEF RunStarts
  <2>2. n \in Nat
    BY <2>1 DEF POptions
  <2> QED
    BY <1>4, <2>1, <2>2 DEF RunStarts
<1>5. ASSUME NEW i \in Slots, Relay(i) \/ Killed(i) \/ Render(i) PROVE ParallelTypeOK'
  BY <1>5 DEF Relay, Killed, Render
<1>6. ASSUME NEW i \in Slots, Finish(i) PROVE ParallelTypeOK'
  BY <1>6 DEF Finish
<1>7. CASE JudgeFails
  BY <1>7 DEF JudgeFails
<1>8. CASE JudgeRanks
  BY <1>8 DEF JudgeRanks, POptions
<1>9. CASE MergeWinner
  BY <1>9, SlotsOfAgents DEF MergeWinner, Slots, Agents
<1>10. CASE SettleParent
  BY <1>10 DEF SettleParent, ParallelStatus
<1>11. CASE UNCHANGED pvars
  BY <1>11 DEF pvars
<1> QED
  BY <1>1, <1>2, <1>3, <1>4, <1>5, <1>6, <1>7, <1>8, <1>9, <1>10, <1>11 DEF ParallelStep

\* Every step preserves the invariant behind the refinement.
LEMMA FanOutStep ==
    ASSUME FanOutInvariant, [ParallelStep \/ CancelParallel]_pvars
    PROVE  FanOutInvariant'
<1>0. ParallelTypeOK'
  BY TypeStep DEF FanOutInvariant
<1>a. Agents \subseteq Slots
  BY SlotsOfAgents DEF FanOutInvariant
<1> SUFFICES ResultsStored' /\ SlotsFollow' /\ VerdictFollows'
  BY <1>0 DEF FanOutInvariant
<1> USE DEF FanOutInvariant, ResultsStored, SlotsFollow, VerdictFollows, Waiting, Agents,
            slotVars, verdictVars
<1>1. CASE EnterParallel
  BY <1>1 DEF EnterParallel
<1>2. CASE RefuseParallel \/ ReturnChannel
  BY <1>2, <1>a DEF RefuseParallel, ReturnChannel
<1>3. CASE GroupDone \/ AwaitParallel \/ CancelParallel
  BY <1>3 DEF GroupDone, AwaitParallel, CancelParallel
<1>4. ASSUME NEW i \in Slots, Spawn(i)
      PROVE  ResultsStored' /\ SlotsFollow' /\ VerdictFollows'
  BY <1>4, <1>a DEF Spawn, ParallelTypeOK
<1>5. ASSUME NEW i \in Slots, RunStarts(i) \/ RunErrs(i)
      PROVE  ResultsStored' /\ SlotsFollow' /\ VerdictFollows'
  BY <1>5, <1>a DEF RunStarts, RunErrs, ParallelTypeOK
<1>6. ASSUME NEW i \in Slots, Relay(i) \/ Killed(i) \/ Render(i)
      PROVE  ResultsStored' /\ SlotsFollow' /\ VerdictFollows'
  BY <1>6 DEF Relay, Killed, Render, ParallelStatus
<1>7. ASSUME NEW i \in Slots, Finish(i)
      PROVE  ResultsStored' /\ SlotsFollow' /\ VerdictFollows'
  BY <1>7, <1>a DEF Finish, ParallelTypeOK
<1>8. CASE JudgeFails \/ JudgeRanks \/ MergeWinner
  BY <1>8 DEF JudgeFails, JudgeRanks, MergeWinner
<1>9. CASE SettleParent
  BY <1>9 DEF SettleParent, ParallelStatus
<1>10. CASE UNCHANGED pvars
  BY <1>10 DEF pvars, ParallelStatus
<1> QED
  BY <1>1, <1>2, <1>3, <1>4, <1>5, <1>6, <1>7, <1>8, <1>9, <1>10 DEF ParallelStep

-----------------------------------------------------------------------------
(* The refinement *)

\* The state of the fan-out, as ParallelFan maps it.
FanActive  == IF ppc \in {"call", "refused"} THEN {} ELSE Agents
Outcome(res, st) == IF res = "success" THEN "succeeded"
                    ELSE IF st \in {"stored", "errored"} THEN "failed" ELSE "pending"
FanOutcome == [i \in Slots |-> Outcome(result[i], slot[i])]
FanVerdict == CASE ppc = "call" -> "idle"
                [] ppc = "refused" -> "refused"
                [] ppc = "done" -> pexit
                [] OTHER -> "open"

LEMMA OutcomeValues ==
    \A res, st :
       /\ Outcome(res, st) = "succeeded" <=> res = "success"
       /\ Outcome(res, st) = "pending" <=> (res # "success" /\ st \notin {"stored", "errored"})
       /\ Outcome(res, st) \in {"succeeded", "failed", "pending"}
BY DEF Outcome

\* A step that changes none of the three is a stuttering step of the fan-out.
LEMMA FanStutters ==
    ASSUME FanActive' = FanActive, FanOutcome' = FanOutcome, FanVerdict' = FanVerdict
    PROVE  UNCHANGED ParallelFan!fanVars
BY DEF FanActive, FanOutcome, Outcome, FanVerdict, ParallelFan!fanVars

LEMMA FanOutRefines ==
    ASSUME FanOutInvariant, FanOutInvariant', [ParallelStep \/ CancelParallel]_pvars
    PROVE  [ParallelFan!FanNext]_ParallelFan!fanVars
<1> USE DEF slotVars, verdictVars
<1>1. CASE EnterParallel
  <2>1. FanVerdict = "idle" /\ FanVerdict' = "open" /\ FanOutcome' = FanOutcome
    BY <1>1 DEF EnterParallel, FanVerdict, FanOutcome
  <2>2. FanActive' \in SUBSET Slots /\ FanActive' # {}
    <3>1. 1 \in Agents'
      BY <1>1, SlotsOfAgents DEF EnterParallel, Agents, FanOutInvariant
    <3>2. Agents' \subseteq Slots
      BY <1>1, SlotsOfAgents DEF EnterParallel, Agents, FanOutInvariant
    <3> QED
      BY <1>1, <3>1, <3>2 DEF EnterParallel, FanActive
  <2>3. ParallelFan!Begin
    BY <2>1, <2>2 DEF ParallelFan!Begin, FanVerdict, FanOutcome, Outcome, FanActive
  <2> QED
    BY <2>3 DEF ParallelFan!FanNext
<1>2. CASE RefuseParallel
  <2>1. ParallelFan!Refuse
    BY <1>2 DEF RefuseParallel, ParallelFan!Refuse
  <2> QED
    BY <2>1 DEF ParallelFan!FanNext
<1>3. CASE ReturnChannel \/ GroupDone \/ AwaitParallel \/ CancelParallel
  <2>1. FanActive' = FanActive /\ FanOutcome' = FanOutcome /\ FanVerdict' = FanVerdict
    BY <1>3 DEF ReturnChannel, GroupDone, AwaitParallel, CancelParallel,
       FanActive, FanOutcome, FanVerdict, Agents, FanOutInvariant, SlotsFollow
  <2> QED
    BY <2>1, FanStutters
<1>4. ASSUME NEW i \in Slots, Spawn(i) \/ RunStarts(i) \/ Relay(i) \/ Killed(i) \/ Render(i)
      PROVE  [ParallelFan!FanNext]_ParallelFan!fanVars
  <2>1. FanActive' = FanActive /\ FanVerdict' = FanVerdict
    BY <1>4 DEF Spawn, RunStarts, Relay, Killed, Render, FanActive, FanVerdict, Agents
  <2>2. \A j \in Slots : /\ result'[j] = result[j]
                         /\ slot'[j] \in {"stored", "errored"} <=> slot[j] \in {"stored", "errored"}
    BY <1>4 DEF Spawn, RunStarts, Relay, Killed, Render, FanOutInvariant, ParallelTypeOK
  <2>3. FanOutcome' = FanOutcome
    BY <2>2 DEF FanOutcome, Outcome
  <2> QED
    BY <2>1, <2>3, FanStutters
<1>5. ASSUME NEW i \in Slots, NEW o \in {"succeeded", "failed"},
             i \in Agents, ppc \in {"spawn", "read"}, FanOutcome[i] = "pending",
             FanOutcome' = [FanOutcome EXCEPT ![i] = o], UNCHANGED <<ppc, popts>>
      PROVE  ParallelFan!FanNext
  <2>1. FanVerdict = "open" /\ FanVerdict' = FanVerdict /\ FanActive' = FanActive /\ i \in FanActive
    BY <1>5 DEF FanVerdict, FanActive, Agents
  <2>2. ParallelFan!SettleMember
    BY <1>5, <2>1 DEF ParallelFan!SettleMember, FanVerdict, FanActive, FanOutcome, Outcome
  <2> QED
    BY <2>2 DEF ParallelFan!FanNext
<1>6. ASSUME NEW i \in Slots, slot[i] \in {"calling", "relaying"}
      PROVE  i \in Agents /\ ppc \in {"spawn", "read"} /\ FanOutcome[i] = "pending"
  <2>1. result[i] # "success" /\ i \in Agents
    BY <1>6 DEF FanOutInvariant, ResultsStored
  <2>2. FanOutcome[i] = "pending"
    BY <1>6, <2>1 DEF FanOutcome, Outcome
  <2>3. ~closed /\ ppc \notin {"call", "refused"}
    BY <1>6, <2>1 DEF FanOutInvariant, SlotsFollow
  <2>4. ppc \in {"spawn", "read"}
    BY <2>3 DEF FanOutInvariant, SlotsFollow, ParallelTypeOK, Waiting
  <2> QED
    BY <2>1, <2>2, <2>4
<1>7. ASSUME NEW i \in Slots, RunErrs(i)
      PROVE  [ParallelFan!FanNext]_ParallelFan!fanVars
  <2>1. result[i] # "success"
    BY <1>7 DEF RunErrs, FanOutInvariant, ResultsStored
  <2>3. Outcome(result[i], "errored") = "failed"
    BY <2>1 DEF Outcome
  <2>2. FanOutcome' = [FanOutcome EXCEPT ![i] = "failed"]
    BY <1>7, <2>3 DEF RunErrs, FanOutcome, FanOutInvariant, ParallelTypeOK
  <2> QED
    BY <1>5, <1>6, <1>7, <2>2 DEF RunErrs
<1>8. ASSUME NEW i \in Slots, Finish(i)
      PROVE  [ParallelFan!FanNext]_ParallelFan!fanVars
  <2>1. PICK r \in {"success", "failure"} : result' = [result EXCEPT ![i] = r]
    BY <1>8 DEF Finish
  <2>3. Outcome(r, "stored") = IF r = "success" THEN "succeeded" ELSE "failed"
    BY <2>1 DEF Outcome
  <2>2. FanOutcome' = [FanOutcome EXCEPT ![i] = IF r = "success" THEN "succeeded" ELSE "failed"]
    BY <1>8, <2>1, <2>3 DEF Finish, FanOutcome, FanOutInvariant, ParallelTypeOK
  <2> QED
    BY <1>5, <1>6, <1>8, <2>2 DEF Finish
<1>9. CASE JudgeFails \/ JudgeRanks \/ MergeWinner
  <2>1. FanActive' = FanActive /\ FanOutcome' = FanOutcome /\ FanVerdict' = FanVerdict
    BY <1>9 DEF JudgeFails, JudgeRanks, MergeWinner, FanActive, FanOutcome, FanVerdict, Agents
  <2> QED
    BY <2>1, FanStutters
<1>10. CASE SettleParent
  <2>1. /\ FanActive = Agents /\ FanActive' = FanActive /\ FanOutcome' = FanOutcome
        /\ FanVerdict = "open" /\ FanVerdict' = ParallelStatus
    BY <1>10 DEF SettleParent, FanActive, FanOutcome, FanVerdict, Agents
  <2>2. \A i \in Agents : i \in Slots /\ FanOutcome[i] # "pending"
    BY <1>10, SlotsOfAgents, OutcomeValues DEF SettleParent, FanOutcome, FanOutInvariant, SlotsFollow, Waiting
  <2>3. \A i \in Agents : FanOutcome[i] = "succeeded" <=> result[i] = "success"
    BY <2>2, OutcomeValues DEF FanOutcome
  <2>4. ParallelStatus = IF {i \in FanActive : FanOutcome[i] = "succeeded"} = FanActive
                         THEN "success" ELSE "failure"
    BY <2>1, <2>3 DEF ParallelStatus
  <2>5. ParallelFan!Decide
    BY <2>1, <2>2, <2>4 DEF ParallelFan!Decide, ParallelFan!Judgement, ParallelFan!Succeeded,
       FanActive, FanOutcome, Outcome, FanVerdict
  <2> QED
    BY <2>5 DEF ParallelFan!FanNext
<1>11. CASE UNCHANGED pvars
  <2>1. FanActive' = FanActive /\ FanOutcome' = FanOutcome /\ FanVerdict' = FanVerdict
    BY <1>11 DEF pvars, FanActive, FanOutcome, FanVerdict, Agents
  <2> QED
    BY <2>1, FanStutters
<1> QED
  BY <1>1, <1>2, <1>3, <1>4, <1>7, <1>8, <1>9, <1>10, <1>11 DEF ParallelStep

\* The parallel run implements the fan-out that needs all its members, for every
\* number of agents and all options: whatever fails or is cancelled, each member
\* settles once and the verdict waits for them all.
THEOREM ParallelImplementsFanOut == ParallelSpec => ParallelIsFanOut
<1>1. ParallelInit(POptionSet) => ParallelFan!FanInit
  BY DEF ParallelInit, ParallelFan!FanInit
<1> QED
  BY <1>1, FanOutStarted, FanOutStep, FanOutRefines, PTL
     DEF ParallelSpec, ParallelIsFanOut, ParallelFan!FanOutSpec

-----------------------------------------------------------------------------
(* What reaches HEAD *)

\* Who may have merged, and when; what the merge needs is still there.
HeadInvariant ==
    /\ popts.agents <= 1 => headed \subseteq {1}
    /\ (popts.agents > 1 /\ headed # {}) =>
          ppc \in {"settle", "done"} /\ judged = "ranking" /\ headed = {winner}
    /\ ppc = "judge" => popts.judge
    /\ ppc = "merge" => popts.agents >= 2 /\ judged = "ranking" /\ WillMergeWinner
    /\ KeepWorktrees => \A i \in Slots : slot[i] = "stored" => ptree[i] = "present"

LEMMA HeadStep ==
    ASSUME FanOutInvariant, HeadInvariant, [ParallelStep \/ CancelParallel]_pvars
    PROVE  HeadInvariant'
<1>0. ParallelTypeOK /\ popts.agents \in Nat
  BY SlotsOfAgents, ParallelAssumption DEF FanOutInvariant
<1> USE <1>0 DEF HeadInvariant, slotVars, verdictVars, KeepWorktrees, WillMergeWinner
<1>1. CASE EnterParallel \/ RefuseParallel \/ ReturnChannel \/ GroupDone \/ CancelParallel
  BY <1>1 DEF EnterParallel, RefuseParallel, ReturnChannel, GroupDone, CancelParallel
<1>2. CASE AwaitParallel
  BY <1>2 DEF AwaitParallel
<1>3. ASSUME NEW i \in Slots, Spawn(i) \/ RunStarts(i) \/ RunErrs(i) PROVE HeadInvariant'
  BY <1>3 DEF Spawn, RunStarts, RunErrs, ParallelTypeOK
<1>4. ASSUME NEW i \in Slots, Relay(i) \/ Killed(i) \/ Render(i) PROVE HeadInvariant'
  BY <1>4 DEF Relay, Killed, Render
<1>5. ASSUME NEW i \in Slots, Finish(i) PROVE HeadInvariant'
  <2>1. i \in Agents
    BY <1>5 DEF Finish, FanOutInvariant, ResultsStored
  <2>2. popts.agents <= 1 => i = 1
    BY <2>1 DEF Agents, Slots
  <2>3. headed' = headed \/ (popts.agents <= 1 /\ headed' \subseteq headed \cup {i})
    BY <1>5 DEF Finish, ChildMerges
  <2>4. KeepWorktrees' => \A j \in Slots : slot'[j] = "stored" => ptree'[j] = "present"
    BY <1>5 DEF Finish, ParallelTypeOK
  <2>5. UNCHANGED <<popts, ppc, winner, judged>>
    BY <1>5 DEF Finish
  <2> QED
    BY <2>2, <2>3, <2>4, <2>5
<1>6. CASE JudgeFails
  BY <1>6 DEF JudgeFails
<1>7. CASE JudgeRanks
  BY <1>7 DEF JudgeRanks
<1>8. CASE MergeWinner
  <2>1. headed = {} /\ popts.agents > 1
    BY <1>8 DEF MergeWinner
  <2>2. headed' \subseteq {winner}
    BY <1>8, <2>1 DEF MergeWinner
  <2> QED
    BY <1>8, <2>1, <2>2 DEF MergeWinner
<1>9. CASE SettleParent
  BY <1>9 DEF SettleParent
<1>10. CASE UNCHANGED pvars
  BY <1>10 DEF pvars
<1> QED
  BY <1>1, <1>2, <1>3, <1>4, <1>5, <1>6, <1>7, <1>8, <1>9, <1>10 DEF ParallelStep

LEMMA HeadSafe == FanOutInvariant /\ HeadInvariant => HeadGetsTheWinner
<1> SUFFICES ASSUME FanOutInvariant, HeadInvariant PROVE HeadGetsTheWinner
  OBVIOUS
<1>0. ParallelTypeOK /\ popts.agents \in Nat
  BY SlotsOfAgents, ParallelAssumption DEF FanOutInvariant
<1>1. Cardinality(headed) <= 1
  <2>1. headed = {} \/ headed = {1} \/ headed = {winner}
    BY <1>0 DEF HeadInvariant
  <2>2. Cardinality({}) = 0 /\ Cardinality({1}) = 1 /\ Cardinality({winner}) = 1
    BY FS_EmptySet, FS_Singleton
  <2> QED
    BY <2>1, <2>2
<1>2. (popts.agents > 1 /\ headed # {}) =>
         /\ judged = "ranking" /\ headed = {winner}
         /\ \A i \in Agents : slot[i] \in {"stored", "errored"}
  BY DEF HeadInvariant, FanOutInvariant, SlotsFollow, Waiting
<1>3. (ppc = "merge" /\ winner # 0 /\ slot[winner] = "stored") => ptree[winner] = "present"
  <2> SUFFICES ASSUME ppc = "merge", winner # 0, slot[winner] = "stored"
               PROVE  ptree[winner] = "present"
    OBVIOUS
  <2>1. winner \in Slots
    BY <1>0, ParallelAssumption DEF ParallelTypeOK, Slots
  <2>2. KeepWorktrees
    BY DEF HeadInvariant, KeepWorktrees
  <2> QED
    BY <2>1, <2>2 DEF HeadInvariant
<1> QED
  BY <1>1, <1>2, <1>3 DEF HeadGetsTheWinner

\* With several agents at most the branch the judge named reaches HEAD, once all
\* of them have ended and while its worktree is there; for every number of agents
\* and all options.
THEOREM OnlyTheWinnerIsMerged == ParallelSpec => []HeadGetsTheWinner
<1>1. ParallelInit(POptionSet) => HeadInvariant
  BY DEF ParallelInit, HeadInvariant
<1> QED
  BY <1>1, FanOutStarted, FanOutStep, HeadStep, HeadSafe, PTL DEF ParallelSpec

-----------------------------------------------------------------------------
(* The relay *)

\* What a slot collected is in the channel or was read; a slot whose Run did not
\* start collected nothing; and the caller leaves its loop on an empty channel.
RelayInvariant ==
    /\ \A i \in Slots : collected[i] = out[i] + rendered[i]
    /\ \A i \in Slots : slot[i] \in {"none", "calling", "errored"} => collected[i] = 0
    /\ ppc \in Waiting \cup {"done"} => \A i \in Slots : out[i] = 0

LEMMA RelayStep ==
    ASSUME FanOutInvariant, RelayInvariant, [ParallelStep \/ CancelParallel]_pvars
    PROVE  RelayInvariant'
<1>0. ParallelTypeOK
  BY DEF FanOutInvariant
<1> USE <1>0 DEF RelayInvariant, slotVars, verdictVars, Waiting
<1>1. CASE EnterParallel \/ RefuseParallel \/ ReturnChannel \/ GroupDone \/ CancelParallel
  BY <1>1 DEF EnterParallel, RefuseParallel, ReturnChannel, GroupDone, CancelParallel
<1>2. CASE AwaitParallel
  BY <1>2 DEF AwaitParallel
<1>3. ASSUME NEW i \in Slots, Spawn(i) \/ RunStarts(i) \/ RunErrs(i) PROVE RelayInvariant'
  BY <1>3 DEF Spawn, RunStarts, RunErrs, ParallelTypeOK
<1>4. ASSUME NEW i \in Slots, Relay(i) PROVE RelayInvariant'
  <2>1. /\ slot[i] = "relaying" /\ slot' = slot /\ ppc' = ppc /\ rendered' = rendered
        /\ collected' = [collected EXCEPT ![i] = @ + 1] /\ out' = [out EXCEPT ![i] = @ + 1]
    BY <1>4 DEF Relay
  <2>2. ppc \notin Waiting \cup {"done"}
    BY <2>1 DEF FanOutInvariant, ResultsStored, SlotsFollow
  <2>3. out[i] \in Nat /\ rendered[i] \in Nat /\ collected[i] \in Nat
    BY DEF ParallelTypeOK
  <2>4. ASSUME NEW j \in Slots PROVE collected'[j] = out'[j] + rendered'[j]
    <3>1. CASE j = i
      <4>1. collected'[i] = collected[i] + 1 /\ out'[i] = out[i] + 1
        BY <2>1 DEF ParallelTypeOK
      <4> QED
        BY <2>1, <2>3, <3>1, <4>1
    <3>2. CASE j # i
      BY <2>1, <3>2 DEF ParallelTypeOK
    <3> QED
      BY <3>1, <3>2
  <2>5. \A j \in Slots : slot[j] \in {"none", "calling", "errored"} => collected'[j] = collected[j]
    BY <2>1 DEF ParallelTypeOK
  <2> QED
    BY <2>1, <2>2, <2>4, <2>5
<1>5. ASSUME NEW i \in Slots, Render(i) PROVE RelayInvariant'
  <2>1. /\ out[i] > 0 /\ ppc = "read" /\ slot' = slot /\ ppc' = ppc /\ collected' = collected
        /\ out' = [out EXCEPT ![i] = @ - 1] /\ rendered' = [rendered EXCEPT ![i] = @ + 1]
    BY <1>5 DEF Render
  <2>2. out[i] \in Nat /\ rendered[i] \in Nat
    BY DEF ParallelTypeOK
  <2>3. ASSUME NEW j \in Slots PROVE collected'[j] = out'[j] + rendered'[j]
    <3>1. CASE j = i
      <4>1. rendered'[i] = rendered[i] + 1 /\ out'[i] = out[i] - 1
        BY <2>1 DEF ParallelTypeOK
      <4> QED
        BY <2>1, <2>2, <3>1, <4>1
    <3>2. CASE j # i
      BY <2>1, <3>2 DEF ParallelTypeOK
    <3> QED
      BY <3>1, <3>2
  <2> QED
    BY <2>1, <2>3
<1>6. ASSUME NEW i \in Slots, Killed(i) PROVE RelayInvariant'
  BY <1>6 DEF Killed
<1>7. ASSUME NEW i \in Slots, Finish(i) PROVE RelayInvariant'
  BY <1>7 DEF Finish, ParallelTypeOK
<1>8. CASE JudgeFails \/ JudgeRanks \/ MergeWinner \/ SettleParent
  BY <1>8 DEF JudgeFails, JudgeRanks, MergeWinner, SettleParent
<1>9. CASE UNCHANGED pvars
  BY <1>9 DEF pvars
<1> QED
  BY <1>1, <1>2, <1>3, <1>4, <1>5, <1>6, <1>7, <1>8, <1>9 DEF ParallelStep

LEMMA RelaySafe == FanOutInvariant /\ RelayInvariant => RelayLosesNothing
<1> SUFFICES ASSUME FanOutInvariant, RelayInvariant, ppc \in Waiting \cup {"done"},
                    NEW i \in Agents
             PROVE  rendered[i] = (IF slot[i] = "stored" THEN collected[i] ELSE 0)
  BY DEF RelayLosesNothing, Waiting
<1>1. i \in Slots /\ rendered[i] \in Nat
  BY SlotsOfAgents DEF FanOutInvariant, ParallelTypeOK
<1>2. out[i] = 0 /\ collected[i] = out[i] + rendered[i]
  BY <1>1 DEF RelayInvariant
<1>3. rendered[i] = collected[i]
  BY <1>1, <1>2
<1>4. slot[i] \in {"stored", "errored"}
  BY DEF FanOutInvariant, SlotsFollow
<1> QED
  BY <1>1, <1>3, <1>4 DEF RelayInvariant

\* When the caller leaves its loop it has rendered every event of every slot,
\* also those printed after a sibling's failure cancelled the group.
THEOREM EveryEventIsRelayed == ParallelSpec => []RelayLosesNothing
<1>1. ParallelInit(POptionSet) => RelayInvariant
  BY DEF ParallelInit, RelayInvariant, Waiting
<1> QED
  BY <1>1, FanOutStarted, FanOutStep, RelayStep, RelaySafe, PTL DEF ParallelSpec

-----------------------------------------------------------------------------
(* The DAG run, for any number of chains and any plans *)

Single == Len(dopts.plan) = 1

\* Options whose chains have a place.
DAGReady(o) == o \in DOptions /\ DOMAIN Roots(o.plan) \subseteq Chains

DAGTypes ==
    /\ DAGReady(dopts)
    /\ Spawned \subseteq Chains
    /\ dpc \in {"call", "single", "single_err", "chains", "judge", "synthesis", "emit",
                "done", "refused"}
    /\ cpc \in [Chains -> {"none", "worktree", "equip", "sandbox", "agent", "verify",
                           "return", "done"}]
    /\ csuccess \in [Chains -> BOOLEAN]
    /\ ctree \in [Chains -> Holding]
    /\ cbox \in [Chains -> Holding]
    /\ cevents \in [Chains -> {"none", "started", "completed"}]
    /\ dexit \in {"open", "success", "failure"}

\* Chains move only between the start and the barrier, and a plan of a single
\* node never gets there.
ChainsFollow ==
    /\ dpc \in {"call", "single", "refused"} => \A c \in Chains : cpc[c] = "none"
    /\ dpc \in {"single", "single_err"} => Single
    /\ dpc \in {"chains", "judge", "synthesis"} => ~Single
    /\ dpc # "chains" => \A c \in Chains : cpc[c] \in {"none", "done"}
    /\ (~Single /\ dpc \notin {"call", "refused"}) => \A c \in Chains : cpc[c] # "none" <=> c \in Spawned

\* What a chain of several nodes or among several has, holds and has announced,
\* wherever it stands.
ChainSound(c) ==
    /\ cbox[c] = "present" => cpc[c] \in {"agent", "verify", "return"}
    /\ cpc[c] \in {"none", "worktree", "equip", "sandbox"} => cbox[c] = "none"
    /\ cpc[c] \in {"return", "done"} => cevents[c] = "completed"
    /\ cpc[c] \in {"equip", "sandbox", "agent", "verify"} => ctree[c] = "present"
    /\ cpc[c] \in {"agent", "verify"} => cbox[c] = "present"
    /\ cbox[c] # "none" /\ (~csuccess[c] \/ dopts.keep) => ctree[c] = "present"
    /\ csuccess[c] => /\ cpc[c] \in {"return", "done"}
                      /\ cbox[c] \in {"present", "gone", "stuck"}
    /\ csuccess[c] /\ (dopts.keep \/ cpc[c] = "return") => ctree[c] = "present"
    /\ ctree[c] \in {"gone", "stuck"} <=> (cpc[c] = "done" /\ csuccess[c] /\ ~dopts.keep)

DAGInvariant ==
    /\ DAGTypes
    /\ ChainsFollow
    /\ ~Single => \A c \in Chains : ChainSound(c)
    /\ dpc \in {"judge", "synthesis"} => Cardinality(Survivors) > 1
    /\ (dpc = "done" /\ ~Single) => devents = "completed"

LEMMA DAGInitially ==
    ASSUME NEW options, \A o \in options : DAGReady(o), DAGInit(options)
    PROVE  DAGInvariant
<1>1. DAGTypes
  BY DEF DAGInit, DAGTypes, Spawned, Holding
<1>2. ChainsFollow /\ \A c \in Chains : ChainSound(c)
  BY DEF DAGInit, ChainsFollow, ChainSound
<1> QED
  BY <1>1, <1>2 DEF DAGInvariant, DAGInit

LEMMA DAGStarted == DAGInit(DOptionSet) => DAGInvariant
<1>1. \A o \in DOptionSet : DAGReady(o)
  BY DAGAssumption DEF DAGReady
<1> QED
  BY <1>1, DAGInitially

LEMMA DAGStarts ==
    ASSUME DAGInvariant, RefuseDAG \/ EnterDAG
    PROVE  DAGInvariant'
<1> USE DEF DAGInvariant
<1>1. CASE RefuseDAG
  <2>1. DAGTypes' /\ ChainsFollow'
    BY <1>1 DEF RefuseDAG, DAGTypes, ChainsFollow, Single, Spawned, chainVars
  <2>2. ~Single' => \A c \in Chains : ChainSound(c)'
    BY <1>1 DEF RefuseDAG, Single, ChainSound, chainVars
  <2> QED
    BY <1>1, <2>1, <2>2 DEF RefuseDAG
<1>2. CASE EnterDAG
  <2>1. Spawned' = DOMAIN Roots(dopts.plan) /\ Spawned' \subseteq Chains
    BY <1>2 DEF EnterDAG, Spawned, decomposeChains, DAGTypes, DAGReady
  <2>2. DAGTypes'
    BY <1>2, <2>1 DEF EnterDAG, DAGTypes, Spawned
  <2>3. ChainsFollow'
    BY <1>2, <2>1 DEF EnterDAG, DAGTypes, ChainsFollow, Single, Spawned
  <2>4. ASSUME ~Single', NEW c \in Chains PROVE ChainSound(c)'
    <3>1. ChainSound(c) /\ cpc[c] = "none" /\ cpc'[c] \in {"worktree", "none"}
      BY <1>2, <2>4 DEF EnterDAG, ChainsFollow, Single
    <3> QED
      BY <1>2, <3>1 DEF EnterDAG, ChainSound, DAGTypes
  <2> QED
    BY <1>2, <2>2, <2>3, <2>4 DEF EnterDAG
<1> QED
  BY <1>1, <1>2

LEMMA DAGSingle ==
    ASSUME DAGInvariant, SingleErrs \/ SingleReturns \/ SingleRuns
    PROVE  DAGInvariant'
<1> USE DEF DAGInvariant
<1>1. Single /\ Single'
  BY DEF SingleErrs, SingleReturns, SingleRuns, ChainsFollow, Single
<1>2. DAGTypes'
  BY DEF SingleErrs, SingleReturns, SingleRuns, DAGTypes, Spawned, chainVars, Holding
<1>3. ChainsFollow'
  BY <1>1 DEF SingleErrs, SingleReturns, SingleRuns, DAGTypes, ChainsFollow, chainVars
<1>4. dpc' \notin {"judge", "synthesis"}
  BY DEF SingleErrs, SingleReturns, SingleRuns
<1> QED
  BY <1>1, <1>2, <1>3, <1>4

\* A chain's step leaves the other chains and the coordinator alone.
LEMMA DAGChain ==
    ASSUME DAGInvariant, NEW c \in Chains, ChainStep(c)
    PROVE  DAGInvariant'
<1> USE DEF DAGInvariant, otherVars
<1>1. cpc[c] \notin {"none", "done"} /\ UNCHANGED <<dopts, dpc, specs, devents, dexit>>
  BY DEF ChainStep, ChainWorktree, ChainEquip, ChainSandbox, ChainFails, NodeAgent, NodeVerify,
     NodeEnds, ChainReturns
<1>2. dpc = "chains" /\ ~Single /\ ~Single'
  BY <1>1 DEF ChainsFollow, Single
<1>3. DAGTypes'
  <2>1. CASE NodeAgent(c) \/ NodeVerify(c)
    BY <2>1, <1>1 DEF NodeAgent, NodeVerify, NodeEnds, DAGTypes, Spawned
  <2>2. CASE ~(NodeAgent(c) \/ NodeVerify(c))
    BY <2>2, <1>1 DEF ChainStep, ChainWorktree, ChainEquip, ChainSandbox, ChainFails,
       ChainReturns, TornDown, Holding, DAGTypes, Spawned
  <2> QED
    BY <2>1, <2>2
<1>4. cpc'[c] # "none" /\ \A o \in Chains \ {c} : cpc'[o] = cpc[o]
  BY DEF ChainStep, ChainWorktree, ChainEquip, ChainSandbox, ChainFails, NodeAgent, NodeVerify,
     NodeEnds, ChainReturns, DAGTypes
<1>5. ChainsFollow'
  BY <1>1, <1>2, <1>4 DEF ChainsFollow, DAGTypes, Spawned
<1>6. ASSUME NEW o \in Chains \ {c} PROVE ChainSound(o)'
  <2>1. /\ csuccess'[o] = csuccess[o] /\ ctree'[o] = ctree[o]
        /\ cbox'[o] = cbox[o] /\ cevents'[o] = cevents[o]
    BY DEF ChainStep, ChainWorktree, ChainEquip, ChainSandbox, ChainFails, NodeAgent,
       NodeVerify, NodeEnds, ChainReturns, DAGTypes
  <2> QED
    BY <1>1, <1>2, <1>4, <2>1 DEF ChainSound
<1>7. ChainSound(c)'
  <2>1. ChainSound(c)
    BY <1>2
  <2>2. CASE NodeAgent(c) \/ NodeVerify(c)
    BY <2>1, <2>2, <1>1 DEF NodeAgent, NodeVerify, NodeEnds, DAGTypes, ChainSound
  <2>3. CASE ~(NodeAgent(c) \/ NodeVerify(c))
    BY <2>1, <2>3, <1>1 DEF ChainStep, ChainWorktree, ChainEquip, ChainSandbox, ChainFails,
       ChainReturns, TornDown, DAGTypes, ChainSound
  <2> QED
    BY <2>2, <2>3
<1> QED
  BY <1>1, <1>2, <1>3, <1>5, <1>6, <1>7

LEMMA DAGCoordinates ==
    ASSUME DAGInvariant,
           CountSurvivors \/ JudgeChains \/ SynEquip \/ SynAgent \/ SynVerify \/ CompleteDAG
             \/ CancelDAG \/ UNCHANGED dvars
    PROVE  DAGInvariant'
<1> USE DEF DAGInvariant, coordVars, chainVars
<1>1. UNCHANGED <<dopts, specs, cpc, csuccess, ctree, cbox, cevents>>
  BY DEF CountSurvivors, JudgeChains, SynEquip, SynAgent, SynVerify, SynEnds, CompleteDAG,
     CancelDAG, dvars
<1>2. DAGTypes'
  BY <1>1 DEF CountSurvivors, JudgeChains, SynEquip, SynAgent, SynVerify, SynEnds, CompleteDAG,
     CancelDAG, dvars, DAGTypes, Spawned
<1>3. ChainsFollow'
  <2>1. CASE CountSurvivors
    <3>1. \A o \in Chains : cpc[o] \in {"none", "done"}
      BY <2>1 DEF CountSurvivors, AllReturned, ChainsFollow, DAGTypes
    <3> QED
      BY <1>1, <2>1, <3>1 DEF CountSurvivors, ChainsFollow, Single, Spawned
  <2>2. CASE ~CountSurvivors
    BY <1>1, <2>2 DEF JudgeChains, SynEquip, SynAgent, SynVerify, SynEnds, CompleteDAG,
       CancelDAG, dvars, ChainsFollow, Single, Spawned
  <2> QED
    BY <2>1, <2>2
<1>4. ~Single' => \A c \in Chains : ChainSound(c)'
  BY <1>1 DEF Single, ChainSound
<1>5. Survivors' = Survivors
  BY <1>1 DEF Survivors, Spawned
<1>6. dpc' \in {"judge", "synthesis"} => Cardinality(Survivors) > 1
  BY DEF CountSurvivors, JudgeChains, SynEquip, SynAgent, SynVerify, SynEnds, CompleteDAG,
     CancelDAG, dvars
<1>7. (dpc' = "done" /\ ~Single') => devents' = "completed"
  BY <1>1 DEF CountSurvivors, JudgeChains, SynEquip, SynAgent, SynVerify, SynEnds, CompleteDAG,
     CancelDAG, dvars, Single
<1> QED
  BY <1>2, <1>3, <1>4, <1>5, <1>6, <1>7

LEMMA DAGInductive == DAGInvariant /\ [DAGStep \/ CancelDAG]_dvars => DAGInvariant'
  BY DAGStarts, DAGSingle, DAGChain, DAGCoordinates DEF DAGStep

LEMMA DAGSafe == DAGInvariant => SynthesisAfterBarrier /\ DAGSettled
<1> SUFFICES ASSUME DAGInvariant PROVE SynthesisAfterBarrier /\ DAGSettled
  OBVIOUS
<1> USE DEF DAGInvariant
<1>1. SynthesisAfterBarrier
  <2> SUFFICES ASSUME dpc \in {"judge", "synthesis"} PROVE SynthesisAfterBarrier
    BY DEF SynthesisAfterBarrier
  <2>1. ~Single /\ \A c \in Spawned : c \in Chains /\ cpc[c] = "done" /\ ChainSound(c)
    BY DEF ChainsFollow, DAGTypes
  <2>2. \A c \in Spawned : cbox[c] # "present"
    BY <2>1 DEF ChainSound
  <2>3. ASSUME dopts.keep, NEW c \in Mounted PROVE ctree[c] = "present"
    <3>1. c \in Spawned /\ csuccess[c]
      BY DEF Mounted, Survivors
    <3> QED
      BY <2>1, <2>3, <3>1 DEF ChainSound, DAGTypes
  <2> QED
    BY <2>1, <2>2, <2>3 DEF SynthesisAfterBarrier
<1>2. DAGSettled
  <2> SUFFICES ASSUME dpc = "done", Len(dopts.plan) > 1 PROVE DAGSettled
    BY DEF DAGSettled
  <2>1. ~Single
    <3>1. \A n : n > 1 => n # 1
      OBVIOUS
    <3> QED
      BY <3>1 DEF Single
  <2>2. \A c \in Spawned : c \in Chains /\ cpc[c] = "done" /\ ChainSound(c)
    BY <2>1 DEF ChainsFollow, DAGTypes
  <2>3. \A c \in Spawned : /\ cevents[c] = "completed" /\ cbox[c] # "present"
                           /\ cbox[c] = "orphan" => ~csuccess[c] /\ ctree[c] = "present"
                           /\ ctree[c] \in {"gone", "stuck"} <=> (csuccess[c] /\ ~dopts.keep)
                           /\ cbox[c] # "none" /\ ~csuccess[c] => ctree[c] = "present"
    BY <2>2 DEF ChainSound
  <2> QED
    BY <2>1, <2>3 DEF DAGSettled
<1> QED
  BY <1>1, <1>2

\* The judge and the synthesizer of a DAG run see only finished work, however
\* many chains the plan has and wherever they fail or are cancelled.
THEOREM BarrierBeforeSynthesis == DAGSpec => []SynthesisAfterBarrier
  BY DAGStarted, DAGInductive, DAGSafe, PTL DEF DAGSpec

\* A DAG run that has returned has announced the completion of all its chains
\* and its own, closed every sandbox that lets itself be closed, and kept the
\* worktrees of the chains that failed.
THEOREM DAGRunSettles == DAGSpec => []DAGSettled
  BY DAGStarted, DAGInductive, DAGSafe, PTL DEF DAGSpec

-----------------------------------------------------------------------------
(* The DAG run as a fan-out *)

\* Which chains there are, which have an outcome, and when the caller has one.
DAGFanInvariant ==
    /\ dpc \in {"call", "refused"} => Spawned = {}
    /\ dpc \in {"call", "refused", "single", "single_err"} => \A c \in Chains : ~csuccess[c]
    /\ (Single /\ dpc \notin {"call", "refused"}) => Spawned = {1}
    /\ (Single /\ dpc \in {"single_err", "emit"}) => cpc[1] = "done"
    /\ dpc # "done" => dexit = "open"
    /\ dpc \in {"call", "single", "single_err"} => syn = "none"

DAGOutcome(c) == IF cpc[c] # "done" THEN "pending"
                 ELSE IF csuccess[c] THEN "succeeded" ELSE "failed"
DAGOutcomes == [c \in Chains |-> DAGOutcome(c)]
DAGVerdict == CASE dpc = "call" -> "idle"
                [] dpc = "refused" -> "refused"
                [] dpc = "done" /\ syn # "failed" -> dexit
                [] OTHER -> "open"

\* A plan that is run has its first chain, and a single node no other.
LEMMA EnteredIsRooted ==
    ASSUME DAGInvariant, EnterDAG
    PROVE  /\ 1 \in DOMAIN Roots(dopts.plan)
           /\ Single => DOMAIN Roots(dopts.plan) = {1}
<1>1. dopts.plan \in Seq(Nodes)
  BY DEF DAGInvariant, DAGTypes, DAGReady, DOptions
<1>2. Rooted(dopts.plan, dopts.judge)
  BY <1>1, AcceptedPlanIsRooted
<1> QED
  BY <1>2 DEF EnterDAG, Rooted, Single

LEMMA DAGFanInductive ==
    ASSUME DAGInvariant, DAGFanInvariant, [DAGStep \/ CancelDAG]_dvars
    PROVE  DAGFanInvariant'
<1> USE DEF DAGFanInvariant, chainVars, synVars
<1>1. CASE RefuseDAG
  BY <1>1 DEF RefuseDAG, Single, Spawned
<1>2. CASE EnterDAG
  <2>1. Spawned' = DOMAIN Roots(dopts.plan)
    BY <1>2 DEF EnterDAG, Spawned, decomposeChains
  <2>2. Single => Spawned' = {1}
    BY <1>2, <2>1, EnteredIsRooted DEF Single
  <2> QED
    BY <1>2, <2>2 DEF EnterDAG, Single, DAGInvariant, ChainsFollow
<1>3. CASE SingleErrs \/ SingleReturns \/ SingleRuns
  <2>1. Single /\ 1 \in Chains
    BY <1>3 DEF SingleErrs, SingleReturns, SingleRuns, DAGInvariant, ChainsFollow, DAGTypes
  <2> QED
    BY <1>3, <2>1 DEF SingleErrs, SingleReturns, SingleRuns, DAGInvariant, DAGTypes, Single, Spawned
<1>4. ASSUME NEW c \in Chains, ChainStep(c) PROVE DAGFanInvariant'
  <2>1. dpc = "chains" /\ ~Single
    BY <1>4 DEF DAGInvariant, ChainsFollow, ChainStep, ChainWorktree, ChainEquip, ChainSandbox,
       ChainFails, NodeAgent, NodeVerify, NodeEnds, ChainReturns
  <2>2. UNCHANGED <<dopts, dpc, specs, dexit>>
    BY <1>4 DEF ChainStep, ChainWorktree, ChainEquip, ChainSandbox, ChainFails, NodeAgent,
       NodeVerify, NodeEnds, ChainReturns, otherVars
  <2> QED
    BY <2>1, <2>2 DEF Single
<1>5. CASE CountSurvivors \/ JudgeChains \/ SynEquip \/ SynAgent \/ SynVerify
  <2>1. ~Single
    BY <1>5 DEF CountSurvivors, JudgeChains, SynEquip, SynAgent, SynVerify, DAGInvariant,
       ChainsFollow
  <2>2. UNCHANGED <<dopts, specs, dexit>> /\ dpc' \in {"judge", "synthesis", "emit"} /\ dpc # "done"
    BY <1>5 DEF CountSurvivors, JudgeChains, SynEquip, SynAgent, SynVerify, SynEnds, coordVars
  <2> QED
    BY <2>1, <2>2 DEF Single
<1>6. CASE CompleteDAG \/ CancelDAG \/ UNCHANGED dvars
  BY <1>6 DEF CompleteDAG, CancelDAG, dvars, Single, Spawned
<1> QED
  BY <1>1, <1>2, <1>3, <1>4, <1>5, <1>6 DEF DAGStep

\* A step that changes none of the three is a stuttering step of the fan-out.
LEMMA DAGFanStutters ==
    ASSUME Spawned' = Spawned, DAGOutcomes' = DAGOutcomes, DAGVerdict' = DAGVerdict
    PROVE  UNCHANGED DAGFan!fanVars
BY DEF DAGOutcomes, DAGOutcome, DAGVerdict, DAGFan!fanVars

LEMMA DAGSettles ==
    ASSUME NEW c \in Chains, c \in Spawned, NEW o \in {"succeeded", "failed"},
           dpc \notin {"call", "refused", "done"}, dpc' \notin {"call", "refused", "done"},
           DAGOutcomes[c] = "pending", DAGOutcomes' = [DAGOutcomes EXCEPT ![c] = o],
           Spawned' = Spawned
    PROVE  DAGFan!FanNext
<1>1. DAGVerdict = "open" /\ DAGVerdict' = "open"
  BY DEF DAGVerdict
<1>2. DAGFan!SettleMember
  BY <1>1 DEF DAGFan!SettleMember, DAGVerdict, DAGOutcomes, DAGOutcome
<1> QED
  BY <1>2 DEF DAGFan!FanNext

LEMMA DAGDecides ==
    ASSUME DAGInvariant, dpc \in {"single_err", "emit"}, \A c \in Spawned : cpc[c] = "done",
           dpc' = "done", syn' # "failed", UNCHANGED <<specs, cpc, csuccess>>,
           dexit' = IF Survivors = {} THEN "failure" ELSE "success"
    PROVE  DAGFan!FanNext
<1>1. DAGVerdict = "open" /\ DAGVerdict' = dexit'
  BY DEF DAGVerdict
<1>2. Spawned' = Spawned /\ DAGOutcomes' = DAGOutcomes
  BY DEF Spawned, DAGOutcomes, DAGOutcome
<1>3. \A c \in Spawned : c \in Chains /\ csuccess[c] \in BOOLEAN
  BY DEF DAGInvariant, DAGTypes
<1>4. \A c \in Spawned : DAGOutcomes[c] = IF csuccess[c] THEN "succeeded" ELSE "failed"
  BY <1>3 DEF DAGOutcomes, DAGOutcome
<1>5. {c \in Spawned : DAGOutcomes[c] = "succeeded"} = Survivors
  BY <1>4 DEF Survivors
<1>6. DAGFan!Succeeded = Survivors
  BY <1>5 DEF DAGFan!Succeeded, DAGOutcomes, DAGOutcome
<1>7. DAGFan!Judgement = dexit'
  BY <1>6 DEF DAGFan!Judgement
<1>8. \A c \in Spawned : DAGOutcomes[c] # "pending"
  BY <1>4
<1>9. DAGFan!Decide
  BY <1>1, <1>2, <1>7, <1>8 DEF DAGFan!Decide, DAGVerdict, DAGOutcomes, DAGOutcome
<1> QED
  BY <1>9 DEF DAGFan!FanNext

LEMMA DAGRefines ==
    ASSUME DAGInvariant, DAGFanInvariant, DAGInvariant',
           [DAGStep \/ CancelDAG]_dvars
    PROVE  [DAGFan!FanNext]_DAGFan!fanVars
<1> USE DEF chainVars
<1>1. CASE RefuseDAG
  <2>1. DAGFan!Refuse
    BY <1>1 DEF RefuseDAG, DAGFan!Refuse, Spawned
  <2> QED
    BY <2>1 DEF DAGFan!FanNext
<1>2. CASE EnterDAG
  <2>1. DAGVerdict = "idle" /\ DAGVerdict' = "open"
    BY <1>2 DEF EnterDAG, DAGVerdict
  <2>2. \A c \in Chains : cpc[c] # "done" /\ cpc'[c] # "done"
    BY <1>2 DEF EnterDAG, DAGInvariant, ChainsFollow
  <2>3. DAGOutcomes' = DAGOutcomes
    BY <2>2 DEF DAGOutcomes, DAGOutcome
  <2>4. Spawned' \subseteq Chains /\ 1 \in Spawned'
    BY <1>2, EnteredIsRooted DEF EnterDAG, Spawned, decomposeChains, DAGInvariant, DAGTypes, DAGReady
  <2>5. DAGFan!Begin
    BY <2>1, <2>3, <2>4 DEF DAGFan!Begin, DAGVerdict, DAGOutcomes, DAGOutcome
  <2> QED
    BY <2>5 DEF DAGFan!FanNext
<1>3. CASE SingleErrs \/ SingleRuns
  <2>1. 1 \in Spawned /\ 1 \in Chains /\ Spawned' = Spawned /\ cpc[1] = "none"
    BY <1>3 DEF SingleErrs, SingleRuns, DAGInvariant, DAGTypes, ChainsFollow, DAGFanInvariant,
       Spawned
  <2>2. PICK o \in {"succeeded", "failed"} : o = DAGOutcome(1)'
    BY <1>3, <2>1 DEF SingleErrs, SingleRuns, DAGOutcome, DAGInvariant, DAGTypes
  <2>3. \A c \in Chains \ {1} : cpc'[c] = cpc[c] /\ csuccess'[c] = csuccess[c]
    BY <1>3 DEF SingleErrs, SingleRuns, DAGInvariant, DAGTypes
  <2>4. DAGOutcomes[1] = "pending" /\ DAGOutcomes' = [DAGOutcomes EXCEPT ![1] = o]
    BY <2>1, <2>2, <2>3 DEF DAGOutcomes, DAGOutcome
  <2>5. dpc \notin {"call", "refused", "done"} /\ dpc' \notin {"call", "refused", "done"}
    BY <1>3 DEF SingleErrs, SingleRuns
  <2> QED
    BY <2>1, <2>4, <2>5, DAGSettles
<1>4. CASE SingleReturns
  <2>1. \A c \in Spawned : cpc[c] = "done" /\ ~csuccess[c]
    BY <1>4 DEF SingleReturns, DAGFanInvariant, DAGInvariant, ChainsFollow, DAGTypes
  <2>2. Survivors = {}
    BY <2>1 DEF Survivors
  <2> QED
    BY <1>4, <2>1, <2>2, DAGDecides DEF SingleReturns, DAGFanInvariant, synVars
<1>5. ASSUME NEW c \in Chains, ChainStep(c), ~ChainReturns(c)
      PROVE  [DAGFan!FanNext]_DAGFan!fanVars
  <2>1. cpc[c] # "done" /\ cpc'[c] # "done"
    BY <1>5 DEF ChainStep, ChainWorktree, ChainEquip, ChainSandbox, ChainFails, NodeAgent,
       NodeVerify, NodeEnds, DAGInvariant, DAGTypes
  <2>2. \A d \in Chains \ {c} : cpc'[d] = cpc[d] /\ csuccess'[d] = csuccess[d]
    BY <1>5 DEF ChainStep, ChainWorktree, ChainEquip, ChainSandbox, ChainFails, NodeAgent,
       NodeVerify, NodeEnds, DAGInvariant, DAGTypes
  <2>3. UNCHANGED <<dpc, specs, dexit>>
    BY <1>5 DEF ChainStep, ChainWorktree, ChainEquip, ChainSandbox, ChainFails, NodeAgent,
       NodeVerify, NodeEnds, otherVars
  <2>4. DAGOutcomes' = DAGOutcomes
    BY <2>1, <2>2 DEF DAGOutcomes, DAGOutcome
  <2> QED
    BY <2>3, <2>4, DAGFanStutters DEF Spawned, DAGVerdict
<1>6. ASSUME NEW c \in Chains, ChainReturns(c)
      PROVE  DAGFan!FanNext
  <2>1. dpc = "chains" /\ ~Single /\ c \in Spawned
    BY <1>6 DEF ChainReturns, DAGInvariant, ChainsFollow
  <2>2. PICK o \in {"succeeded", "failed"} : o = DAGOutcome(c)'
    BY <1>6 DEF ChainReturns, DAGOutcome, DAGInvariant, DAGTypes
  <2>3. \A d \in Chains \ {c} : cpc'[d] = cpc[d] /\ csuccess'[d] = csuccess[d]
    BY <1>6 DEF ChainReturns, DAGInvariant, DAGTypes
  <2>4. DAGOutcomes[c] = "pending" /\ DAGOutcomes' = [DAGOutcomes EXCEPT ![c] = o]
    BY <1>6, <2>2, <2>3 DEF ChainReturns, DAGOutcomes, DAGOutcome
  <2>5. Spawned' = Spawned /\ dpc' = dpc
    BY <1>6 DEF ChainReturns, otherVars, Spawned
  <2> QED
    BY <2>1, <2>4, <2>5, DAGSettles
<1>7. CASE CountSurvivors \/ JudgeChains \/ SynEquip \/ SynAgent \/ SynVerify \/ CancelDAG
            \/ UNCHANGED dvars
  <2>1. UNCHANGED <<specs, cpc, csuccess, dexit>>
    BY <1>7 DEF CountSurvivors, JudgeChains, SynEquip, SynAgent, SynVerify, SynEnds, coordVars,
       CancelDAG, dvars
  <2>2. Spawned' = Spawned /\ DAGOutcomes' = DAGOutcomes
    BY <2>1 DEF Spawned, DAGOutcomes, DAGOutcome
  <2>3. DAGVerdict' = DAGVerdict
    BY <1>7, <2>1 DEF CountSurvivors, JudgeChains, SynEquip, SynAgent, SynVerify, SynEnds,
       coordVars, synVars, CancelDAG, dvars, DAGVerdict
  <2> QED
    BY <2>2, <2>3, DAGFanStutters
<1>8. CASE CompleteDAG
  <2>1. \A c \in Spawned : cpc[c] = "done"
    BY <1>8 DEF CompleteDAG, DAGInvariant, ChainsFollow, DAGFanInvariant, DAGTypes
  <2>2. CASE syn # "failed"
    BY <1>8, <2>1, <2>2, DAGDecides DEF CompleteDAG, synVars
  <2>3. CASE syn = "failed"
    <3>1. DAGVerdict = "open" /\ DAGVerdict' = "open"
      BY <1>8, <2>3 DEF CompleteDAG, DAGVerdict, synVars
    <3>2. Spawned' = Spawned /\ DAGOutcomes' = DAGOutcomes
      BY <1>8 DEF CompleteDAG, Spawned, DAGOutcomes, DAGOutcome
    <3> QED
      BY <3>1, <3>2, DAGFanStutters
  <2> QED
    BY <2>2, <2>3
<1> QED
  BY <1>1, <1>2, <1>3, <1>4, <1>5, <1>6, <1>7, <1>8 DEF DAGStep

\* The DAG run implements the fan-out that needs one of its members, for any
\* number of chains and whatever happens to chains and judge: a plan that
\* passes the validation has a member to begin with.
THEOREM DAGImplementsFanOut == DAGSpec => DAGIsFanOut
<1>1. DAGInit(DOptionSet) => DAGFan!FanInit /\ DAGFanInvariant
  <2>1. DAGInit(DOptionSet) => DAGFanInvariant
    BY DEF DAGInit, DAGFanInvariant, Spawned
  <2>2. DAGInit(DOptionSet) => DAGFan!FanInit
    BY DEF DAGInit, DAGFan!FanInit, Spawned
  <2> QED
    BY <2>1, <2>2
<1>2. DAGInvariant /\ DAGFanInvariant /\ [DAGStep \/ CancelDAG]_dvars
        => DAGInvariant' /\ DAGFanInvariant' /\ [DAGFan!FanNext]_DAGFan!fanVars
  BY DAGInductive, DAGFanInductive, DAGRefines
<1> QED
  BY <1>1, <1>2, DAGStarted, PTL DEF DAGSpec, DAGIsFanOut, DAGFan!FanOutSpec

-----------------------------------------------------------------------------
(* The chains of a DAG run and its plan *)

\* The chains are the ones decomposeChains makes of an accepted plan.
SpecsFollow ==
    specs # <<>> => /\ validateDAG(dopts.plan, dopts.judge) = "nil"
                    /\ specs = decomposeChains(dopts.plan)

LEMMA AcceptedMeans ==
    ASSUME NEW plan \in Seq(Nodes), NEW judge, validateDAG(plan, judge) = "nil"
    PROVE  WellFormed(plan) /\ Slim(plan)
<1>1. Validate(plan) = "nil" /\ ~ \E k \in DOMAIN plan : Len(plan[k].deps) > 1
  BY DEF validateDAG
<1>2. \A k \in DOMAIN plan : Len(plan[k].deps) \in Nat
  BY PlanNodes
<1> QED
  BY <1>1, <1>2, ValidateIsExact DEF Slim

LEMMA PlanCovered ==
    ASSUME DAGReady(dopts), SpecsFollow
    PROVE  ChainsCoverPlan /\ specs \in Seq(Seq(NodeIDs))
<1> DEFINE plan == dopts.plan
<1>0. plan \in Seq(Nodes)
  BY DEF DAGReady, DOptions
<1>1. Validate(plan) = "nil" <=> WellFormed(plan)
  BY <1>0, ValidateIsExact
<1>2. Validate(plan) = "nil" => /\ OrderedOnce(plan, TopoSort(plan))
                                /\ Len(TopoSort(plan)) = Len(plan)
  BY <1>0, <1>1, TopoSortOrders
<1>3. Rooted(plan, dopts.judge)
  BY <1>0, AcceptedPlanIsRooted
<1>4. specs # <<>> => /\ WellFormed(plan) /\ specs \in Seq(Seq(NodeIDs))
                      /\ HoldOnce(plan, specs)
                      /\ \A c \in DOMAIN specs : OrderedOnce(plan, specs[c])
  <2> SUFFICES ASSUME specs # <<>>
               PROVE  /\ WellFormed(plan) /\ specs \in Seq(Seq(NodeIDs))
                      /\ HoldOnce(plan, specs)
                      /\ \A c \in DOMAIN specs : OrderedOnce(plan, specs[c])
    OBVIOUS
  <2>1. WellFormed(plan) /\ Slim(plan) /\ specs = decomposeChains(plan)
    BY <1>0, AcceptedMeans DEF SpecsFollow
  <2> HIDE DEF plan
  <2> QED
    BY <1>0, <2>1, ChainsAreExact
<1>5. specs = <<>> => specs \in Seq(Seq(NodeIDs))
  OBVIOUS
<1> QED
  BY <1>1, <1>2, <1>3, <1>4, <1>5 DEF ChainsCoverPlan, Spawned

LEMMA SpecsStep ==
    ASSUME SpecsFollow, [DAGStep \/ CancelDAG]_dvars
    PROVE  SpecsFollow'
<1>1. CASE EnterDAG
  BY <1>1 DEF EnterDAG, SpecsFollow
<1>2. CASE ~EnterDAG
  <2>1. UNCHANGED <<dopts, specs>>
    BY <1>2 DEF DAGStep, RefuseDAG, SingleErrs, SingleReturns, SingleRuns, ChainStep,
       ChainWorktree, ChainEquip, ChainSandbox, ChainFails, NodeAgent, NodeVerify, NodeEnds,
       ChainReturns, CountSurvivors, JudgeChains, SynEquip, SynAgent, SynVerify, SynEnds,
       CompleteDAG, CancelDAG, otherVars, coordVars, chainVars, dvars
  <2> QED
    BY <2>1 DEF SpecsFollow
<1> QED
  BY <1>1, <1>2

\* Validate accepts exactly the well-formed plans and DAGRun runs exactly the
\* executable ones; its chains hold every node of the plan once, each after
\* the node it builds on: for plans of every size and shape.
THEOREM ChainsHoldThePlan == DAGSpec => []ChainsCoverPlan
<1>1. DAGInit(DOptionSet) => SpecsFollow
  BY DEF DAGInit, SpecsFollow
<1>2. DAGInvariant /\ SpecsFollow => ChainsCoverPlan
  BY PlanCovered DEF DAGInvariant, DAGTypes
<1> QED
  BY <1>1, <1>2, DAGStarted, DAGInductive, SpecsStep, PTL DEF DAGSpec
-----------------------------------------------------------------------------
(* The rest of the DAG run's state, and what its success means *)

DAGCounts ==
    /\ dctxDone \in BOOLEAN
    /\ cnode \in [Chains -> Nat] /\ ctry \in [Chains -> Nat]
    /\ devents \in {"none", "started", "completed"}
    /\ dwinner \in 0..MaxChains
    /\ syn \in {"none", "equip", "agent", "verify", "succeeded", "failed"}
    /\ stry \in Nat
    /\ (dpc = "done" /\ dexit = "success") =>
          Survivors # {} /\ \A c \in Spawned : cpc[c] = "done"

LEMMA WinnersAreChains ==
    ASSUME DAGInvariant
    PROVE  /\ Cardinality(Survivors) = 1 => (CHOOSE c \in Survivors : TRUE) \in 0..MaxChains
           /\ dpc = "judge" => Winners \subseteq 0..MaxChains
<1>1. Survivors \subseteq 1..MaxChains /\ MaxChains \in Nat
  BY DAGAssumption DEF DAGInvariant, DAGTypes, Survivors, Chains
<1>2. Survivors = {} => Cardinality(Survivors) = 0
  BY FS_EmptySet
<1>3. ASSUME Survivors # {} PROVE Min(Survivors) \in Survivors
  <2>1. Survivors \in SUBSET Nat
    BY <1>1
  <2>2. \E n \in Survivors : \A m \in Survivors : n <= m
    BY <1>3, <2>1, Smallest
  <2> QED
    BY <2>2 DEF Min
<1>4. dpc = "judge" => Survivors # {}
  BY <1>2 DEF DAGInvariant
<1>5. Survivors # {} => (CHOOSE c \in Survivors : TRUE) \in Survivors
  OBVIOUS
<1>6. Survivors \subseteq 0..MaxChains
  BY <1>1
<1>7. Cardinality(Survivors) = 1 => Survivors # {}
  BY <1>2
<1>8. Cardinality(Survivors) = 1 => (CHOOSE c \in Survivors : TRUE) \in 0..MaxChains
  BY <1>5, <1>6, <1>7, Zenon
<1>9. dpc = "judge" => Winners \subseteq 0..MaxChains
  BY <1>3, <1>4, <1>6, Zenon DEF Winners
<1> QED
  BY <1>8, <1>9

LEMMA CountsInitially ==
    ASSUME NEW options, DAGInit(options)
    PROVE  DAGCounts
<1>1. MaxChains \in Nat
  BY DAGAssumption
<1>2. dctxDone \in BOOLEAN
  BY DEF DAGInit
<1> QED
  BY <1>1, <1>2 DEF DAGInit, DAGCounts

LEMMA CountsStep ==
    ASSUME DAGInvariant, DAGFanInvariant, DAGCounts, [DAGStep \/ CancelDAG]_dvars
    PROVE  DAGCounts'
<1> USE DEF DAGCounts
<1>0. /\ dpc # "done" => dexit = "open"
      /\ dpc \in {"single_err", "emit"} => \A c \in Spawned : cpc[c] = "done"
  BY DEF DAGInvariant, DAGFanInvariant, ChainsFollow, DAGTypes
<1>1. CASE RefuseDAG \/ EnterDAG \/ SingleErrs \/ SingleReturns \/ CancelDAG
  BY <1>0, <1>1 DEF RefuseDAG, EnterDAG, SingleErrs, SingleReturns, CancelDAG, chainVars, synVars
<1>2. CASE SingleRuns
  <2>1. 1 \in Chains
    BY <1>2 DEF SingleRuns, DAGInvariant, DAGFanInvariant, ChainsFollow, DAGTypes
  <2>2. dwinner' \in 0..MaxChains
    BY <1>2, <2>1, DAGAssumption DEF SingleRuns, Chains
  <2> QED
    BY <1>2, <2>2 DEF SingleRuns, synVars
<1>3. ASSUME NEW c \in Chains, ChainStep(c) PROVE DAGCounts'
  <2>1. dpc = "chains"
    BY <1>3 DEF DAGInvariant, ChainsFollow, ChainStep, ChainWorktree, ChainEquip, ChainSandbox,
       ChainFails, NodeAgent, NodeVerify, NodeEnds, ChainReturns
  <2>2. UNCHANGED <<dpc, dctxDone, devents, dwinner, syn, stry>>
    BY <1>3 DEF ChainStep, ChainWorktree, ChainEquip, ChainSandbox, ChainFails, NodeAgent,
       NodeVerify, NodeEnds, ChainReturns, otherVars, synVars
  <2>3. cnode' \in [Chains -> Nat] /\ ctry' \in [Chains -> Nat]
    <3>1. CASE NodeAgent(c) \/ NodeVerify(c)
      <4>1. /\ cnode' = cnode \/ cnode' = [cnode EXCEPT ![c] = cnode[c] + 1]
            /\ \/ ctry' = ctry \/ ctry' = [ctry EXCEPT ![c] = 1]
               \/ ctry' = [ctry EXCEPT ![c] = ctry[c] + 1]
        BY <3>1 DEF NodeAgent, NodeVerify, NodeEnds
      <4>2. cnode[c] + 1 \in Nat /\ ctry[c] + 1 \in Nat
        OBVIOUS
      <4> QED
        BY <4>1, <4>2
    <3>2. CASE ~(NodeAgent(c) \/ NodeVerify(c))
      BY <1>3, <3>2 DEF ChainStep, ChainWorktree, ChainEquip, ChainSandbox, ChainFails,
         ChainReturns
    <3> QED
      BY <3>1, <3>2
  <2> QED
    BY <2>1, <2>2, <2>3
<1>4. CASE CountSurvivors \/ JudgeChains
  <2>1. dwinner' \in 0..MaxChains
    <3>1. 0 \in 0..MaxChains
      BY DAGAssumption
    <3>2. CASE CountSurvivors
      BY <3>1, <3>2, WinnersAreChains DEF CountSurvivors
    <3>3. CASE JudgeChains
      BY <3>3, WinnersAreChains DEF JudgeChains
    <3> QED
      BY <1>4, <3>2, <3>3
  <2> QED
    BY <1>4, <2>1 DEF CountSurvivors, JudgeChains, chainVars, synVars
<1>5. CASE SynEquip \/ SynAgent \/ SynVerify
  BY <1>5 DEF SynEquip, SynAgent, SynVerify, SynEnds, coordVars, chainVars
<1>6. CASE CompleteDAG
  <2>1. Survivors' = Survivors /\ Spawned' = Spawned
    BY <1>6 DEF CompleteDAG, Survivors, Spawned, chainVars
  <2> QED
    BY <1>0, <1>6, <2>1 DEF CompleteDAG, chainVars, synVars
<1>7. CASE UNCHANGED dvars
  BY <1>7 DEF dvars, chainVars, synVars, Survivors, Spawned
<1> QED
  BY <1>1, <1>2, <1>3, <1>4, <1>5, <1>6, <1>7 DEF DAGStep

\* All that holds of a DAG run, from whatever options it started.
DAGHolds == DAGInvariant /\ DAGFanInvariant /\ SpecsFollow /\ DAGCounts

LEMMA DAGHoldsInitially ==
    ASSUME NEW options, \A o \in options : DAGReady(o), DAGInit(options)
    PROVE  DAGHolds
<1>1. DAGFanInvariant /\ SpecsFollow
  BY DEF DAGInit, DAGFanInvariant, SpecsFollow, Spawned
<1> QED
  BY <1>1, DAGInitially, CountsInitially DEF DAGHolds

LEMMA DAGHoldsStep ==
    ASSUME DAGHolds, [DAGStep \/ CancelDAG]_dvars
    PROVE  DAGHolds'
BY DAGInductive, DAGFanInductive, SpecsStep, CountsStep DEF DAGHolds

LEMMA DAGHoldsTypes == DAGHolds => DAGTypeOK
<1> SUFFICES ASSUME DAGHolds PROVE DAGTypeOK
  OBVIOUS
<1>1. specs \in Seq(Seq(NodeIDs))
  BY PlanCovered DEF DAGHolds, DAGInvariant, DAGTypes
<1> QED
  BY <1>1 DEF DAGHolds, DAGInvariant, DAGTypes, DAGReady, DAGCounts, DAGTypeOK
-----------------------------------------------------------------------------
(* The coordinated run *)

\* The passes that come before a place in the order of the await closure.
Passed(l) ==
    CASE l = "security" -> {"review"}
      [] l = "performance" -> {"review", "security"}
      [] l = "refactoring" -> {"review", "security", "performance"}
      [] l \in {"report", "over"} -> Range(Lenses)
      [] OTHER -> {}

Precedes(p, q) == \E a, b \in DOMAIN Lenses : a < b /\ p = Lenses[a] /\ q = Lenses[b]

\* The announcements so far are of passed lenses, in their order, and with a bus
\* they are the reviews that were given; the report is written last.
CoordinateInvariant ==
    /\ CoordinateTypeOK
    /\ ReportTellsTheReviews
    /\ lens # "over" =>
          /\ report = {}
          /\ Range(announced) \subseteq Passed(lens)
          /\ copts.bus => Range(announced) = given

LEMMA LensNames ==
    /\ DOMAIN Lenses = 1..4
    /\ Lenses[1] = "review" /\ Lenses[2] = "security"
    /\ Lenses[3] = "performance" /\ Lenses[4] = "refactoring"
    /\ Range(Lenses) = {"review", "security", "performance", "refactoring"}
<1>1. /\ DOMAIN Lenses = 1..4
      /\ Lenses[1] = "review" /\ Lenses[2] = "security"
      /\ Lenses[3] = "performance" /\ Lenses[4] = "refactoring"
  BY DEF Lenses
<1>2. \A k : k \in 1..4 <=> k = 1 \/ k = 2 \/ k = 3 \/ k = 4
  OBVIOUS
<1> QED
  BY <1>1, <1>2 DEF Range

LEMMA LensOrder ==
    ASSUME lens \in Range(Lenses)
    PROVE  /\ NextLens \in Range(Lenses) \cup {"report"}
           /\ Passed(NextLens) = Passed(lens) \cup {lens}
           /\ "report" \notin Passed(lens)
           /\ \A p \in Passed(lens) : Precedes(p, lens)
<1> DEFINE place == CHOOSE k \in DOMAIN Lenses : Lenses[k] = lens
           passes == Append(Lenses, "report")
<1>1. /\ \A k : k \in 1..4 <=> k = 1 \/ k = 2 \/ k = 3 \/ k = 4
      /\ 1 < 2 /\ 1 < 3 /\ 1 < 4 /\ 2 < 3 /\ 2 < 4 /\ 3 < 4
  OBVIOUS
<1>2. place \in DOMAIN Lenses /\ Lenses[place] = lens
  BY DEF Range
<1>3. NextLens = passes[1 + place]
  BY DEF NextLens
<1>4. /\ passes[2] = "security" /\ passes[3] = "performance" /\ passes[4] = "refactoring"
      /\ passes[5] = "report"
  BY DEF Lenses
<1> HIDE DEF place, passes
<1>5. \/ place = 1 /\ lens = "review" /\ NextLens = "security"
      \/ place = 2 /\ lens = "security" /\ NextLens = "performance"
      \/ place = 3 /\ lens = "performance" /\ NextLens = "refactoring"
      \/ place = 4 /\ lens = "refactoring" /\ NextLens = "report"
  BY <1>1, <1>2, <1>3, <1>4, LensNames
<1>6. NextLens \in Range(Lenses) \cup {"report"}
  BY <1>5, LensNames
<1>7. Passed(NextLens) = Passed(lens) \cup {lens} /\ "report" \notin Passed(lens)
  BY <1>5, LensNames DEF Passed
<1>8. ASSUME NEW p \in Passed(lens) PROVE Precedes(p, lens)
  BY <1>1, <1>5, LensNames DEF Passed, Precedes
<1> QED
  BY <1>6, <1>7, <1>8

LEMMA CoordinateInitially ==
    ASSUME NEW options \in SUBSET COptions, CoordinateInit(options)
    PROVE  CoordinateInvariant
<1>1. CoordinateTypeOK
  BY DEF CoordinateInit, CoordinateTypeOK
<1>2. DOMAIN announced = {} /\ Range(announced) = {}
  BY DEF CoordinateInit, Range
<1> QED
  BY <1>1, <1>2 DEF CoordinateInit, CoordinateInvariant, ReportTellsTheReviews

LEMMA Announcing ==
    ASSUME NEW S, NEW s \in Seq(S), NEW e \in S
    PROVE  /\ Append(s, e) \in Seq(S) /\ DOMAIN Append(s, e) = 1..(Len(s) + 1)
           /\ DOMAIN s = 1..Len(s) /\ Len(s) \in Nat
           /\ \A k \in 1..Len(s) : Append(s, e)[k] = s[k]
           /\ Append(s, e)[Len(s) + 1] = e
           /\ Range(Append(s, e)) = Range(s) \cup {e}
           /\ Append(s, e) # <<>> /\ Last(Append(s, e)) = e
<1>1. /\ Append(s, e) \in Seq(S) /\ DOMAIN Append(s, e) = 1..(Len(s) + 1)
      /\ DOMAIN s = 1..Len(s) /\ Len(s) \in Nat /\ Len(Append(s, e)) = Len(s) + 1
      /\ \A k \in 1..Len(s) : Append(s, e)[k] = s[k]
      /\ Append(s, e)[Len(s) + 1] = e
  OBVIOUS
<1>2. \A k : k \in 1..(Len(s) + 1) <=> k \in 1..Len(s) \/ k = Len(s) + 1
  BY <1>1
<1>3. Range(Append(s, e)) = Range(s) \cup {e}
  BY <1>1, <1>2 DEF Range
<1>4. Append(s, e) # <<>>
  BY <1>1
<1> QED
  BY <1>1, <1>3, <1>4 DEF Last

LEMMA CoordinateHolds ==
    ASSUME CoordinateInvariant, [CoordinateStep]_cvars
    PROVE  CoordinateInvariant'
<1>0. CoordinateTypeOK /\ ReportTellsTheReviews /\ copts \in COptions
  BY DEF CoordinateInvariant, CoordinateTypeOK
<1>1. CASE RefuseCoordinate \/ StartCoordinate
  <2>1. /\ lens = "call" /\ lens' \in {"run", "refused"}
        /\ UNCHANGED <<copts, runStatus, given, announced, report>>
    BY <1>1 DEF RefuseCoordinate, StartCoordinate
  <2>2. Passed("call") = {} /\ Passed(lens') = {}
    BY <2>1 DEF Passed
  <2> QED
    BY <2>1, <2>2 DEF CoordinateInvariant, CoordinateTypeOK, ReportTellsTheReviews
<1>2. CASE RunEnds
  <2>1. Passed("run") = {} /\ Passed("review") = {}
    BY DEF Passed
  <2> QED
    BY <1>2, <2>1, LensNames DEF RunEnds, CoordinateInvariant, CoordinateTypeOK,
       ReportTellsTheReviews
<1>3. CASE NotReviewed
  <2>1. /\ lens' \in Range(Lenses) \cup {"report"} /\ Passed(lens) \subseteq Passed(lens')
    BY <1>3, LensOrder DEF NotReviewed
  <2>2. lens # "over" /\ lens' # "over"
    BY <1>3, <2>1, LensNames DEF NotReviewed
  <2> QED
    BY <1>3, <2>1, <2>2 DEF NotReviewed, CoordinateInvariant, CoordinateTypeOK,
       ReportTellsTheReviews
<1>4. CASE Reviewed
  <2>1. /\ lens \in Range(Lenses) /\ given' = given \cup {lens} /\ lens' = NextLens
        /\ announced' = IF copts.bus THEN Append(announced, lens) ELSE announced
        /\ UNCHANGED <<copts, runStatus, report>>
    BY <1>0, <1>4 DEF Reviewed, COptions, Published
  <2>2. /\ lens' \in Range(Lenses) \cup {"report"} /\ Passed(lens') = Passed(lens) \cup {lens}
        /\ \A p \in Passed(lens) : Precedes(p, lens)
        /\ lens # "over" /\ lens' # "over"
    BY <2>1, LensOrder, LensNames
  <2>3. /\ Range(announced) \subseteq Passed(lens) /\ report = {}
        /\ copts.bus => Range(announced) = given
    BY <2>2 DEF CoordinateInvariant
  <2>4. CASE ~copts.bus
    BY <1>0, <2>1, <2>2, <2>3, <2>4 DEF CoordinateInvariant, CoordinateTypeOK,
       ReportTellsTheReviews
  <2>5. CASE copts.bus
    <3> DEFINE n == Len(announced)
    <3>0. announced \in Seq(Range(Lenses) \cup {"report"})
      BY <1>0 DEF CoordinateTypeOK
    <3>1. /\ announced' \in Seq(Range(Lenses) \cup {"report"}) /\ n \in Nat
          /\ DOMAIN announced = 1..n /\ DOMAIN announced' = 1..(n + 1)
          /\ \A k \in 1..n : announced'[k] = announced[k]
          /\ announced'[n + 1] = lens
          /\ Range(announced') = Range(announced) \cup {lens}
      BY <2>1, <2>5, <3>0, Announcing
    <3> HIDE DEF n
    <3>2. CoordinateTypeOK'
      BY <1>0, <2>1, <2>2, <3>1 DEF CoordinateTypeOK
    <3>3. ASSUME NEW j \in 1..(n + 1), NEW k \in 1..(n + 1), j < k, announced'[k] # "report"
          PROVE  Precedes(announced'[j], announced'[k])
      <4>1. j \in 1..n /\ announced'[j] = announced[j] /\ announced[j] \in Passed(lens)
        BY <2>3, <3>1, <3>3 DEF Range
      <4>2. CASE k = n + 1
        BY <2>2, <3>1, <4>1, <4>2
      <4>3. CASE k # n + 1
        <5>1. k \in 1..n /\ announced'[k] = announced[k]
          BY <3>1, <4>3
        <5> QED
          BY <1>0, <3>1, <3>3, <4>1, <5>1 DEF ReportTellsTheReviews, Precedes
      <4> QED
        BY <4>2, <4>3
    <3>4. ReportTellsTheReviews'
      BY <2>2, <3>1, <3>3 DEF ReportTellsTheReviews, Precedes
    <3> QED
      BY <2>1, <2>2, <2>3, <2>5, <3>1, <3>2, <3>4 DEF CoordinateInvariant
  <2> QED
    BY <2>4, <2>5
<1>5. CASE Report
  <2>1. /\ lens = "report" /\ report' = {given} /\ lens' = "over"
        /\ announced' = IF copts.bus THEN Append(announced, "report") ELSE announced
        /\ UNCHANGED <<copts, runStatus, given>>
    BY <1>5 DEF Report, Published
  <2>2. /\ copts.bus => Range(announced) = given
        /\ given \subseteq Range(Lenses) /\ "report" \notin given
    BY <1>0, <2>1, LensNames DEF CoordinateInvariant, CoordinateTypeOK
  <2>4. CASE ~copts.bus
    BY <1>0, <2>1, <2>2, <2>4 DEF CoordinateInvariant, CoordinateTypeOK, ReportTellsTheReviews
  <2>5. CASE copts.bus
    <3> DEFINE n == Len(announced)
    <3>0. announced \in Seq(Range(Lenses) \cup {"report"})
      BY <1>0 DEF CoordinateTypeOK
    <3>1. /\ announced' \in Seq(Range(Lenses) \cup {"report"}) /\ n \in Nat
          /\ DOMAIN announced = 1..n /\ DOMAIN announced' = 1..(n + 1)
          /\ \A k \in 1..n : announced'[k] = announced[k]
          /\ announced'[n + 1] = "report"
          /\ Range(announced') = Range(announced) \cup {"report"}
          /\ announced' # <<>> /\ Last(announced') = "report"
      BY <2>1, <2>5, <3>0, Announcing
    <3> HIDE DEF n
    <3>2. CoordinateTypeOK'
      BY <1>0, <2>1, <2>2, <3>1 DEF CoordinateTypeOK
    <3>3. ASSUME NEW j \in 1..(n + 1), NEW k \in 1..(n + 1), j < k, announced'[k] # "report"
          PROVE  Precedes(announced'[j], announced'[k])
      <4>1. j \in 1..n /\ k \in 1..n
        BY <3>1, <3>3
      <4> QED
        BY <1>0, <3>1, <3>3, <4>1 DEF ReportTellsTheReviews, Precedes
    <3>4. report' = {Range(announced') \ {"report"}}
      BY <2>1, <2>2, <2>5, <3>1
    <3>5. ReportTellsTheReviews'
      BY <3>1, <3>3, <3>4 DEF ReportTellsTheReviews, Precedes
    <3> QED
      BY <2>1, <3>2, <3>5 DEF CoordinateInvariant
  <2> QED
    BY <2>4, <2>5
<1>6. CASE NoReport
  BY <1>0, <1>6 DEF NoReport, CoordinateInvariant, CoordinateTypeOK, ReportTellsTheReviews
<1>7. CASE UNCHANGED cvars
  BY <1>7 DEF cvars, CoordinateInvariant, CoordinateTypeOK, ReportTellsTheReviews
<1> QED
  BY <1>1, <1>2, <1>3, <1>4, <1>5, <1>6, <1>7 DEF CoordinateStep
-----------------------------------------------------------------------------
(* The command over its machines *)

\* Where the command can stand, by how it was entered and what its flags ask for.
CommandWhere ==
    /\ entry \in {"cli", "api"} /\ flags \in Flags
    /\ exit \in {"none", "ok", "error"}
    /\ cmd # "exited" => exit = "none"
    /\ entry = "api" => cmd \in {"parallel", "dag", "coordinate"}
    /\ entry = "cli" => cmd \in {"flags", "resolve", "exited", Mode(flags)}
    /\ (entry = "cli" /\ FlagError(flags)) => cmd \in {"flags", "exited"} /\ exit # "ok"

Untouched == ppc = "call" /\ dpc = "call" /\ lens = "call"

\* The machines that are not reached have not moved, and none has before the
\* dispatch.
OthersRest ==
    /\ Reached # "parallel" => ppc = "call"
    /\ Reached # "dag" => dpc = "call"
    /\ Reached # "coordinate" => lens = "call"
    /\ cmd \in {"flags", "resolve"} => Untouched
    /\ (entry = "cli" /\ FlagError(flags)) => Untouched

\* A successful exit has its reason in the state of the machine that ran.
OutcomeTold ==
    /\ (entry = "cli" /\ Mode(flags) = "parallel") => popts.agents = ResolvedAgents(flags)
    /\ exit = "ok" =>
          /\ Mode(flags) = "parallel" => \A i \in Agents : result[i] = "success"
          /\ (Mode(flags) = "dag" /\ flags.parallel <= 1) =>
                Survivors # {} /\ \A c \in Spawned : cpc[c] = "done"
          /\ Mode(flags) = "coordinate" => runStatus = "success"

MachinesHold ==
    FanOutInvariant /\ HeadInvariant /\ RelayInvariant /\ DAGHolds /\ CoordinateInvariant

CommandInvariant == MachinesHold /\ CommandWhere /\ OthersRest /\ OutcomeTold

LEMMA ModeValues ==
    /\ Mode(flags) \in {"dag", "parallel", "execute", "coordinate", "run"}
    /\ flags.dag => Mode(flags) = "dag"
BY DEF Mode

LEMMA ZeroOptions == NoPOptions \in POptions /\ DAGReady(NoDOptions) /\ NoCOptions \in COptions
<1>1. NoPOptions \in POptions
  BY ParallelAssumption DEF NoPOptions, POptions
<1>2. NoCOptions \in COptions
  BY DEF NoCOptions, COptions
<1>3. NoDOptions \in DOptions /\ NoDOptions.plan = <<>>
  BY DEF NoDOptions, DOptions
<1>4. Formed(<<>>) /\ IDs(<<>>) = {}
  BY DEF Formed, IDs
<1>5. Roots(<<>>) \in Seq({})
  BY <1>4, RootsOf
<1>6. DOMAIN Roots(<<>>) = {}
  BY <1>5
<1> QED
  BY <1>1, <1>2, <1>3, <1>6 DEF DAGReady

LEMMA CommandInitially == Init => CommandInvariant
<1> SUFFICES ASSUME Init PROVE CommandInvariant
  OBVIOUS
<1> DEFINE P == OptionsOf("parallel", NoPOptions, POptionSet, BuildsP(flags))
           D == OptionsOf("dag", NoDOptions, DOptionSet, BuildsD(flags))
           C == OptionsOf("coordinate", NoCOptions, COptionSet, BuildsC(flags))
<1>1. ParallelInit(P) /\ DAGInit(D) /\ CoordinateInit(C)
  BY DEF Init
<1>2. P \in SUBSET POptions
  BY ZeroOptions, ParallelAssumption DEF OptionsOf, BuildsP
<1>3. \A o \in D : DAGReady(o)
  BY ZeroOptions, DAGAssumption DEF OptionsOf, BuildsD, DAGReady
<1>4. C \in SUBSET COptions
  BY ZeroOptions, CoordinateAssumption DEF OptionsOf, BuildsC
<1>5. FanOutInvariant /\ HeadInvariant /\ RelayInvariant
  <2> HIDE DEF P
  <2>1. FanOutInvariant
    BY <1>1, <1>2, FanOutInitially
  <2> QED
    BY <1>1, <2>1 DEF ParallelInit, HeadInvariant, RelayInvariant, Waiting
<1>6. DAGHolds
  <2> HIDE DEF D
  <2> QED
    BY <1>1, <1>3, DAGHoldsInitially
<1>7. CoordinateInvariant
  <2> HIDE DEF C
  <2> QED
    BY <1>1, <1>4, CoordinateInitially
<1>8. CommandWhere
  <2>1. flags \in Flags
    BY CommandAssumption DEF Init
  <2> QED
    BY <2>1 DEF Init, CommandWhere
<1>9. Untouched
  BY <1>1 DEF ParallelInit, DAGInit, CoordinateInit, Untouched
<1>10. OutcomeTold
  <2>1. exit = "none" /\ popts \in P
    BY <1>1 DEF Init, ParallelInit
  <2>2. (entry = "cli" /\ Mode(flags) = "parallel") => popts \in BuildsP(flags)
    BY <2>1 DEF OptionsOf, Reached
  <2> QED
    BY <2>1, <2>2 DEF OutcomeTold, BuildsP
<1> QED
  BY <1>5, <1>6, <1>7, <1>8, <1>9, <1>10 DEF CommandInvariant, MachinesHold, OthersRest, Untouched

\* One machine moves, or none does.
LEMMA MachinesStep ==
    ASSUME MachinesHold, [ParallelStep \/ CancelParallel]_pvars,
           [DAGStep \/ CancelDAG]_dvars, [CoordinateStep]_cvars
    PROVE  MachinesHold'
BY FanOutStep, HeadStep, RelayStep, DAGHoldsStep, CoordinateHolds DEF MachinesHold

\* The command ends, its machines stay as they are.
LEMMA CommandExits ==
    ASSUME CommandInvariant, NEW e \in {"ok", "error"}, Exit(e), entry = "cli",
           e = "ok" => /\ ~FlagError(flags)
                       /\ Mode(flags) = "parallel" => \A i \in Agents : result[i] = "success"
                       /\ (Mode(flags) = "dag" /\ flags.parallel <= 1) =>
                             Survivors # {} /\ \A c \in Spawned : cpc[c] = "done"
                       /\ Mode(flags) = "coordinate" => runStatus = "success"
    PROVE  CommandInvariant'
<1>1. /\ cmd' = "exited" /\ exit' = e /\ UNCHANGED <<entry, flags>>
      /\ UNCHANGED pvars /\ UNCHANGED dvars /\ UNCHANGED cvars
  BY DEF Exit
<1>2. MachinesHold'
  BY <1>1, MachinesStep DEF CommandInvariant
<1>3. UNCHANGED <<popts, ppc, result, dpc, specs, cpc, csuccess, lens, runStatus>>
  BY <1>1 DEF pvars, slotVars, dvars, chainVars, cvars
<1>4. CommandWhere'
  BY <1>1 DEF CommandInvariant, CommandWhere
<1>5. OthersRest'
  BY <1>1, <1>3 DEF CommandInvariant, OthersRest, Reached, Untouched
<1>6. Agents' = Agents /\ Survivors' = Survivors /\ Spawned' = Spawned
  BY <1>3 DEF Agents, Survivors, Spawned
<1>7. OutcomeTold'
  BY <1>1, <1>3, <1>6 DEF CommandInvariant, OutcomeTold
<1> QED
  BY <1>2, <1>4, <1>5, <1>7 DEF CommandInvariant

\* The command goes on to the next of its stages.
LEMMA CommandProceeds ==
    ASSUME CommandInvariant, entry = "cli", ~FlagError(flags), cmd \in {"flags", "resolve"},
           cmd' \in {"resolve", Mode(flags)},
           UNCHANGED <<entry, flags, exit, pvars, dvars, cvars>>
    PROVE  CommandInvariant'
<1>1. UNCHANGED <<entry, flags, exit>> /\ UNCHANGED pvars /\ UNCHANGED dvars /\ UNCHANGED cvars
  OBVIOUS
<1>2. MachinesHold'
  BY <1>1, MachinesStep DEF CommandInvariant
<1>3. UNCHANGED <<popts, ppc, result, dpc, specs, cpc, csuccess, lens, runStatus>>
  BY <1>1 DEF pvars, slotVars, dvars, chainVars, cvars
<1>4. CommandWhere'
  BY <1>1, ModeValues DEF CommandInvariant, CommandWhere
<1>5. OthersRest'
  BY <1>1, <1>3 DEF CommandInvariant, OthersRest, Reached, Untouched
<1>6. exit = "none"
  BY DEF CommandInvariant, CommandWhere
<1>7. OutcomeTold'
  BY <1>1, <1>3, <1>6 DEF CommandInvariant, OutcomeTold
<1> QED
  BY <1>2, <1>4, <1>5, <1>7 DEF CommandInvariant

\* A machine moves: it is the one the command reached.
LEMMA MachineMoves ==
    ASSUME CommandInvariant, Machines \/ Interrupt
    PROVE  CommandInvariant'
<1>1. UNCHANGED <<entry, flags, cmd, exit>>
  BY DEF Machines, Interrupt, cmdVars
<1>2. cmd \in {"parallel", "dag", "coordinate"}
  BY DEF Machines, Interrupt
<1>3. exit = "none" /\ Reached = cmd /\ ~(entry = "cli" /\ FlagError(flags))
  BY <1>2 DEF CommandInvariant, CommandWhere, Reached
<1>4. /\ [ParallelStep \/ CancelParallel]_pvars /\ [DAGStep \/ CancelDAG]_dvars
      /\ [CoordinateStep]_cvars
  BY DEF Machines, Interrupt
<1>5. MachinesHold'
  BY <1>4, MachinesStep DEF CommandInvariant
<1>6. /\ cmd # "parallel" => UNCHANGED pvars
      /\ cmd # "dag" => UNCHANGED dvars
      /\ cmd # "coordinate" => UNCHANGED cvars
  BY DEF Machines, Interrupt
<1>7. /\ cmd # "parallel" => UNCHANGED ppc
      /\ cmd # "dag" => UNCHANGED dpc
      /\ cmd # "coordinate" => UNCHANGED lens
  BY <1>6 DEF pvars, dvars, cvars
<1>8. UNCHANGED popts
  <2>1. CASE UNCHANGED pvars
    BY <2>1 DEF pvars
  <2>2. CASE ParallelStep \/ CancelParallel
    BY <2>2 DEF ParallelStep, CancelParallel, EnterParallel, RefuseParallel, ReturnChannel, Spawn,
       RunStarts, RunErrs, Relay, Killed, Finish, Render, GroupDone, AwaitParallel, JudgeFails,
       JudgeRanks, MergeWinner, SettleParent
  <2> QED
    BY <1>4, <2>1, <2>2
<1>9. CommandWhere'
  BY <1>1 DEF CommandInvariant, CommandWhere
<1>10. OthersRest'
  BY <1>1, <1>2, <1>3, <1>7 DEF CommandInvariant, OthersRest, Reached
<1>11. OutcomeTold'
  BY <1>1, <1>3, <1>8 DEF CommandInvariant, OutcomeTold
<1> QED
  BY <1>5, <1>9, <1>10, <1>11 DEF CommandInvariant

LEMMA CommandReturning ==
    ASSUME CommandInvariant, CommandReturns
    PROVE  CommandInvariant'
<1>0. /\ entry = "cli" /\ cmd \in {"parallel", "dag", "coordinate"}
      /\ Mode(flags) = cmd /\ ~FlagError(flags)
  BY DEF CommandReturns, CommandInvariant, CommandWhere
<1>1. CASE cmd = "parallel" /\ ParallelOver /\ Exit(ParallelExit)
  <2>1. /\ ParallelExit \in {"ok", "error"}
        /\ ParallelExit = "ok" => \A i \in Agents : result[i] = "success"
    BY DEF ParallelExit
  <2> QED
    BY <1>0, <1>1, <2>1, CommandExits
<1>2. ASSUME cmd = "dag", DAGOver, NEW e \in DAGExits, Exit(e) PROVE CommandInvariant'
  <2>1. PICK r \in [2..flags.parallel -> {"success", "failure"}] :
           e = IF dexit = "success" \/ \E k \in DOMAIN r : r[k] = "success" THEN "ok" ELSE "error"
    BY <1>2 DEF DAGExits
  <2>2. flags.parallel \in Nat
    BY DEF CommandInvariant, CommandWhere, Flags
  <2>3. flags.parallel <= 1 => DOMAIN r = {}
    BY <2>1, <2>2
  <2>4. e \in {"ok", "error"} /\ ((e = "ok" /\ flags.parallel <= 1) => dexit = "success")
    BY <2>1, <2>3
  <2>5. dexit = "success" => Survivors # {} /\ \A c \in Spawned : cpc[c] = "done"
    BY DEF CommandInvariant, MachinesHold, DAGHolds, DAGFanInvariant, DAGCounts
  <2> QED
    BY <1>0, <1>2, <2>4, <2>5, CommandExits
<1>3. CASE cmd = "coordinate" /\ CoordinateOver /\ Exit(CoordinateExit)
  <2>1. /\ CoordinateExit \in {"ok", "error"}
        /\ CoordinateExit = "ok" => runStatus = "success"
    BY DEF CoordinateExit
  <2> QED
    BY <1>0, <1>3, <2>1, CommandExits
<1> QED
  BY <1>1, <1>2, <1>3 DEF CommandReturns

LEMMA CommandStep == CommandInvariant /\ [Next]_vars => CommandInvariant'
<1> SUFFICES ASSUME CommandInvariant, [Next]_vars PROVE CommandInvariant'
  OBVIOUS
<1>0. cmd \in {"flags", "resolve", "run", "execute"} => entry = "cli"
  BY DEF CommandInvariant, CommandWhere
<1>1. CASE RefuseFlags \/ ResolveFails
  <2>1. entry = "cli" /\ Exit("error")
    BY <1>0, <1>1 DEF RefuseFlags, ResolveFails
  <2> QED
    BY <2>1, CommandExits
<1>2. CASE SetUp
  <2>1. CASE Exit("error")
    BY <1>0, <1>2, <2>1, CommandExits DEF SetUp
  <2>2. CASE cmd' = "resolve" /\ UNCHANGED <<entry, flags, exit, pvars, dvars, cvars>>
    BY <1>0, <1>2, <2>2, CommandProceeds DEF SetUp
  <2> QED
    BY <1>2, <2>1, <2>2 DEF SetUp
<1>3. CASE Resolve
  <2>1. ~FlagError(flags)
    BY <1>0, <1>3 DEF Resolve, CommandInvariant, CommandWhere
  <2> QED
    BY <1>0, <1>3, <2>1, CommandProceeds DEF Resolve
<1>4. CASE RunPath
  <2>1. cmd \in {"run", "execute"} /\ entry = "cli" /\ Mode(flags) = cmd /\ ~FlagError(flags)
    BY <1>0, <1>4 DEF RunPath, CommandInvariant, CommandWhere
  <2>2. PICK e \in {"ok", "error"} : Exit(e)
    BY <1>4 DEF RunPath
  <2> QED
    BY <2>1, <2>2, CommandExits
<1>5. CASE CommandReturns
  BY <1>5, CommandReturning
<1>6. CASE Machines \/ Interrupt
  BY <1>6, MachineMoves
<1>7. CASE UNCHANGED vars
  <2>1. UNCHANGED <<entry, flags, cmd, exit>> /\ UNCHANGED pvars /\ UNCHANGED dvars /\ UNCHANGED cvars
    BY <1>7 DEF vars, cmdVars
  <2>2. MachinesHold'
    BY <2>1, MachinesStep DEF CommandInvariant
  <2>3. UNCHANGED <<popts, ppc, result, dpc, specs, cpc, csuccess, lens, runStatus>>
    BY <2>1 DEF pvars, slotVars, dvars, chainVars, cvars
  <2>4. CommandWhere' /\ OthersRest' /\ OutcomeTold'
    BY <2>1, <2>3 DEF CommandInvariant, CommandWhere, OthersRest, OutcomeTold, Reached, Untouched,
       Agents, Survivors, Spawned
  <2> QED
    BY <2>2, <2>4 DEF CommandInvariant
<1> QED
  BY <1>1, <1>2, <1>3, <1>4, <1>5, <1>6, <1>7 DEF Next, Work

LEMMA CommandSafe == CommandInvariant => CommandTruthful
<1> SUFFICES ASSUME CommandInvariant PROVE CommandTruthful
  OBVIOUS
<1> USE DEF CommandInvariant
<1>1. CommandTypeOK
  <2>1. ParallelTypeOK /\ DAGTypeOK /\ CoordinateTypeOK
    BY DAGHoldsTypes DEF MachinesHold, FanOutInvariant, CoordinateInvariant
  <2>2. cmd \in {"flags", "resolve", "parallel", "dag", "coordinate", "execute", "run", "exited"}
    BY ModeValues DEF CommandWhere
  <2> QED
    BY <2>1, <2>2 DEF CommandTypeOK, CommandWhere
<1>2. ExitTellsOutcome
  <2>1. exit # "none" => entry = "cli" /\ Reached = Mode(flags)
    BY DEF CommandWhere, Reached
  <2>2. (exit # "none" /\ flags.dag) => ppc = "call" /\ lens = "call"
    BY <2>1, ModeValues DEF OthersRest
  <2>3. (exit # "none" /\ FlagError(flags)) =>
           exit = "error" /\ ppc = "call" /\ dpc = "call" /\ lens = "call"
    BY <2>1 DEF CommandWhere, OthersRest, Untouched
  <2> QED
    BY <2>1, <2>2, <2>3 DEF OutcomeTold, ExitTellsOutcome
<1>3. ReportTellsTheReviews
  BY DEF MachinesHold, CoordinateInvariant
<1> QED
  BY <1>1, <1>2, <1>3 DEF CommandTruthful

\* The exit code of `sandcode run' tells the outcome of whatever it started, and
\* the report the reviews that were given: for all flags and options, all sizes
\* of the fan-outs and every interleaving with a signal.
THEOREM CommandTellsTheTruth == Spec => []CommandTruthful
  BY CommandInitially, CommandStep, CommandSafe, PTL DEF Spec

-----------------------------------------------------------------------------
(* What the fan-outs promise, kept when the command drives them *)

LEMMA MachinesSafe ==
    CommandInvariant => /\ HeadGetsTheWinner /\ RelayLosesNothing
                        /\ SynthesisAfterBarrier /\ DAGSettled /\ ChainsCoverPlan
<1> SUFFICES ASSUME CommandInvariant
             PROVE  /\ HeadGetsTheWinner /\ RelayLosesNothing
                    /\ SynthesisAfterBarrier /\ DAGSettled /\ ChainsCoverPlan
  OBVIOUS
<1>1. /\ FanOutInvariant /\ HeadInvariant /\ RelayInvariant
      /\ DAGInvariant /\ SpecsFollow /\ DAGReady(dopts)
  BY DEF CommandInvariant, MachinesHold, DAGHolds, DAGInvariant, DAGTypes
<1> QED
  BY <1>1, HeadSafe, RelaySafe, DAGSafe, PlanCovered

LEMMA MachinesAreSteps ==
    [Next]_vars => [ParallelStep \/ CancelParallel]_pvars /\ [DAGStep \/ CancelDAG]_dvars
BY DEF Next, Work, RefuseFlags, SetUp, ResolveFails, Resolve, RunPath, CommandReturns, Exit,
   Machines, Interrupt, vars

\* The guarantees of the parallel run and of the DAG run hold of every command
\* and every call of the API that reaches them, with the options it builds.
THEOREM CommandKeepsTheFanOuts ==
    Spec => [](/\ HeadGetsTheWinner /\ RelayLosesNothing
               /\ SynthesisAfterBarrier /\ DAGSettled /\ ChainsCoverPlan)
  BY CommandInitially, CommandStep, MachinesSafe, PTL DEF Spec

\* Under the command both machines implement their fan-out.
THEOREM CommandImplementsFanOuts == Spec => ParallelIsFanOut /\ DAGIsFanOut
<1>1. Init => ParallelFan!FanInit /\ DAGFan!FanInit
  <2>1. Init => ParallelFan!FanInit
    BY DEF Init, ParallelInit, ParallelFan!FanInit
  <2>2. Init => DAGFan!FanInit
    BY DEF Init, DAGInit, DAGFan!FanInit, Spawned
  <2> QED
    BY <2>1, <2>2
<1>2. CommandInvariant /\ CommandInvariant' /\ [Next]_vars =>
        [ParallelFan!FanNext]_ParallelFan!fanVars /\ [DAGFan!FanNext]_DAGFan!fanVars
  <2> SUFFICES ASSUME CommandInvariant, CommandInvariant', [Next]_vars
               PROVE  [ParallelFan!FanNext]_ParallelFan!fanVars /\ [DAGFan!FanNext]_DAGFan!fanVars
    OBVIOUS
  <2>1. /\ FanOutInvariant /\ FanOutInvariant' /\ DAGInvariant /\ DAGInvariant'
        /\ DAGFanInvariant
    BY DEF CommandInvariant, MachinesHold, DAGHolds
  <2> QED
    BY <2>1, MachinesAreSteps, FanOutRefines, DAGRefines
<1> QED
  BY <1>1, <1>2, CommandInitially, CommandStep, PTL
     DEF Spec, ParallelIsFanOut, DAGIsFanOut, ParallelFan!FanOutSpec, DAGFan!FanOutSpec
=============================================================================
