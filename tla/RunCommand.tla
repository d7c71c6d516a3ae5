----------------------------- MODULE RunCommand -----------------------------
(***************************************************************************)
(* cmd/sandcode/run.go: the `sandcode run' command, from its flags to its  *)
(* exit code, over the machines it hands the work to: ParallelRun, DAGRun  *)
(* (one copy, or several with --parallel), Coordinate, or Run itself.      *)
(* Callers of the orchestrator's API (entry "api": Execute's forwards, the *)
(* tests) reach the same machines with options the command never builds.   *)
(***************************************************************************)
EXTENDS ParallelRun, DAGRun, Coordinate

CONSTANT FlagSet        \* the runFlags under consideration

Flags == [learn : BOOLEAN,
          kernelOnly : BOOLEAN,     \* --architect, --step-back, --plan, ...
          dag : BOOLEAN,
          file : BOOLEAN,           \* --dag-from-file
          names : Nat,              \* names in --agent
          parallel : Nat,           \* --parallel
          known : BOOLEAN,          \* every name given is a known one
          judge : {"none", "llm", "other"},
          llm : BOOLEAN,            \* resolveLLMAuth finds a transport
          lenses : SUBSET Range(Lenses),
          report : BOOLEAN]

ASSUME CommandAssumption == FlagSet \subseteq Flags /\ FlagSet # {}

VARIABLES entry,    \* "cli" or "api"
          flags,
          cmd,      \* "flags", "resolve", a machine running, "exited"
          exit      \* "none", "ok" or "error"

cmdVars == <<entry, flags, cmd, exit>>
vars == <<cmdVars, pvars, dvars, cvars>>

-----------------------------------------------------------------------------
(* Flags *)

\* One agent name is replicated --parallel times.
ResolvedAgents(f) == IF f.parallel > 1 /\ f.names = 1 THEN f.parallel ELSE f.names

\* buildRoleRegistry, buildMCPManager, resolveAgent and the switches over the
\* sandbox, auth and strategy names answer an unknown name with an error.
FlagError(f) ==
    \/ f.kernelOnly /\ ~f.learn
    \/ ~f.known
    \/ f.names = 0
    \/ f.dag /\ f.parallel > 1 /\ f.names > 1

\* The order of the dispatch.  With a kernel the review and report flags are
\* not looked at.
Mode(f) ==
    IF f.dag THEN "dag"
    ELSE IF ResolvedAgents(f) > 1 THEN "parallel"
    ELSE IF f.learn THEN "execute"
    ELSE IF f.report \/ f.lenses # {} THEN "coordinate"
    ELSE "run"

\* The language model features need a transport: the judge, the planner of
\* --dag (made with --learn even if the plan comes from a file), the reviewers
\* (of the security reviews only the LLM one).
NeedsLLM(f) ==
    CASE Mode(f) = "dag" -> ~f.file \/ f.learn \/ dopts.judge
      [] Mode(f) = "parallel" -> f.judge = "llm"
      [] Mode(f) = "coordinate" -> f.lenses \ {"security"} # {}
      [] OTHER -> FALSE

\* The options runParallel, runDAGCommandWithJudge and the Coordinate path
\* build from the flags.
BuildsP(f) == {o \in POptionSet : /\ o.agents = ResolvedAgents(f) /\ o.image
                                  /\ ~o.mergeWinner /\ o.judge = (f.judge = "llm")}

BuildsD(f) == {o \in DOptionSet : /\ o.synthesize /\ Validate(o.plan) = "nil"
                                  /\ o.judge = (Len(Roots(o.plan)) > 1 /\ f.judge = "llm")}

BuildsC(f) == {o \in COptionSet : o.lenses = f.lenses /\ o.report = f.report /\ ~o.bus}

\* The machine a command or a call of the API reaches, and its options; the
\* others keep their zero value.
Reached == IF entry = "api" THEN cmd ELSE Mode(flags)

OptionsOf(machine, zero, all, built) ==
    IF Reached # machine THEN {zero} ELSE IF entry = "api" THEN all ELSE built

Init ==
    /\ \/ entry = "cli" /\ cmd = "flags" /\ flags \in FlagSet
       \/ entry = "api" /\ cmd \in {"parallel", "dag", "coordinate"}
                        /\ flags = CHOOSE f \in FlagSet : TRUE
    /\ exit = "none"
    /\ ParallelInit(OptionsOf("parallel", NoPOptions, POptionSet, BuildsP(flags)))
    /\ DAGInit(OptionsOf("dag", NoDOptions, DOptionSet, BuildsD(flags)))
    /\ CoordinateInit(OptionsOf("coordinate", NoCOptions, COptionSet, BuildsC(flags)))

-----------------------------------------------------------------------------
(* The command *)

Exit(e) == cmd' = "exited" /\ exit' = e /\ UNCHANGED <<entry, flags, pvars, dvars, cvars>>

RefuseFlags == cmd = "flags" /\ FlagError(flags) /\ Exit("error")

\* The store, the brain and the gates are set up; any of them may fail.
SetUp ==
    /\ cmd = "flags" /\ ~FlagError(flags)
    /\ \/ Exit("error")
       \/ cmd' = "resolve" /\ UNCHANGED <<entry, flags, exit, pvars, dvars, cvars>>

\* An unknown judge, no transport for a model, a plan that cannot be read or
\* made, several roots without --judge=llm.
ResolveFails ==
    /\ cmd = "resolve"
    /\ \/ Mode(flags) = "parallel" /\ flags.judge = "other"
       \/ NeedsLLM(flags) /\ ~flags.llm
       \/ Mode(flags) = "dag"
    /\ Exit("error")

Resolve ==
    /\ cmd = "resolve"
    /\ NeedsLLM(flags) => flags.llm
    /\ Mode(flags) = "parallel" => flags.judge # "other"
    /\ Mode(flags) = "dag" => Len(Roots(dopts.plan)) <= 1 \/ dopts.judge
    /\ cmd' = Mode(flags)
    /\ UNCHANGED <<entry, flags, exit, pvars, dvars, cvars>>

\* The Run and Execute paths: one run, which RunPipeline models.  The command
\* reports its Err and Status.
RunPath == cmd \in {"run", "execute"} /\ \E e \in {"ok", "error"} : Exit(e)

\* Mutant: a fan-out that ended is a success, as on Execute's parallel branch.
ParallelExit_Ended == IF ppc = "refused" THEN "error" ELSE "ok"

\* runParallel: the error of ParallelRun, or of the first child that did not
\* succeed.
ParallelExit ==
    IF ppc = "done" /\ \A i \in Agents : result[i] = "success" THEN "ok" ELSE "error"

\* runDAGWithOuter: several copies of the DAG run beside each other and one
\* that succeeds is enough; the others are seen here through their results.
DAGExits ==
    LET others == [2..flags.parallel -> {"success", "failure"}]
    IN {IF dexit = "success" \/ \E k \in DOMAIN r : r[k] = "success" THEN "ok" ELSE "error"
          : r \in others}

CoordinateExit == IF runStatus = "success" THEN "ok" ELSE "error"

CommandReturns ==
    /\ entry = "cli"
    /\ \/ cmd = "parallel" /\ ParallelOver /\ Exit(ParallelExit)
       \/ cmd = "dag" /\ DAGOver /\ \E e \in DAGExits : Exit(e)
       \/ cmd = "coordinate" /\ CoordinateOver /\ Exit(CoordinateExit)

Machines ==
    /\ UNCHANGED cmdVars
    /\ \/ cmd = "parallel" /\ ParallelStep /\ UNCHANGED <<dvars, cvars>>
       \/ cmd = "dag" /\ DAGStep /\ UNCHANGED <<pvars, cvars>>
       \/ cmd = "coordinate" /\ CoordinateStep /\ UNCHANGED <<pvars, dvars>>

\* A signal ends the command's context.
Interrupt ==
    /\ UNCHANGED cmdVars
    /\ \/ cmd = "parallel" /\ CancelParallel /\ UNCHANGED <<dvars, cvars>>
       \/ cmd = "dag" /\ CancelDAG /\ UNCHANGED <<pvars, cvars>>

Over ==
    \/ cmd = "exited"
    \/ entry = "api" /\ \/ cmd = "parallel" /\ ParallelOver
                        \/ cmd = "dag" /\ DAGOver
                        \/ cmd = "coordinate" /\ CoordinateOver

Work == RefuseFlags \/ SetUp \/ ResolveFails \/ Resolve \/ RunPath \/ CommandReturns \/ Machines

Next == Work \/ Interrupt \/ (Over /\ UNCHANGED vars)

\* Every goroutine, the caller and the external programs go on: agents end by
\* themselves, by --timeout or by the signal; nothing makes a signal arrive.
Spec == Init /\ [][Next]_vars /\ WF_vars(Work)

-----------------------------------------------------------------------------
(* Properties *)

CommandTypeOK ==
    /\ ParallelTypeOK /\ DAGTypeOK /\ CoordinateTypeOK
    /\ entry \in {"cli", "api"} /\ flags \in Flags
    /\ cmd \in {"flags", "resolve", "parallel", "dag", "coordinate", "execute", "run",
                "exited"}
    /\ exit \in {"none", "ok", "error"}

\* The exit code tells the outcome: 0 only when every child of a fan-out
\* succeeded, some chain of a DAG did (its only copy's, if there is one), or
\* the coordinated run did; never 0 for a refused command, and a command
\* refused for its flags or its plan has started nothing.
ExitTellsOutcome ==
    /\ (exit = "ok" /\ Mode(flags) = "parallel") =>
          popts.agents = ResolvedAgents(flags) /\ \A i \in Agents : result[i] = "success"
    /\ (exit = "ok" /\ Mode(flags) = "dag" /\ flags.parallel <= 1) =>
          Survivors # {} /\ \A c \in Spawned : cpc[c] = "done"
    /\ (exit = "ok" /\ Mode(flags) = "coordinate") => runStatus = "success"
    /\ (exit # "none" /\ flags.dag) => ppc = "call" /\ lens = "call"
    /\ (exit # "none" /\ FlagError(flags)) =>
          exit = "error" /\ ppc = "call" /\ dpc = "call" /\ lens = "call"

\* What the user is told, by the exit code and by the report.
CommandTruthful == CommandTypeOK /\ ExitTellsOutcome /\ ReportTellsTheReviews

\* Every command, and every call of the API, comes to an end: no slot waits
\* for a reader that waits for the slot, no barrier for a chain that is gone.
CommandEnds == <>Over

\* "MaxConcurrency caps how many sub-runs may execute simultaneously": it
\* delays sub-runs, ParallelRun still gets to return its channel.
LimitOnlyDelays == (ppc = "spawn") ~> (ppc = "read")
=============================================================================
