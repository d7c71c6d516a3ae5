----------------------------- MODULE Coordinate -----------------------------
(***************************************************************************)
(* internal/orchestrator/coordinate.go: one Run, and after it the advisory *)
(* passes over its diff: reviewer, security reviewer, the performance and  *)
(* refactoring lenses, and last the reporter, which puts what they found   *)
(* into REPORT.md.  Each pass is best-effort: its failure leaves no trace  *)
(* but its absence.  The passes call a language model or a scanner         *)
(* (internal/judge, internal/secreview, internal/llmcli): external.        *)
(***************************************************************************)
EXTENDS Integers, Sequences, SequencesExt

CONSTANT COptionSet     \* the CoordinateOptions under consideration

\* The passes before the report, in the order of the await closure.
Lenses == <<"review", "security", "performance", "refactoring">>

COptions == [lenses : SUBSET Range(Lenses),     \* the non-nil reviewers
             report : BOOLEAN,                  \* Reporter # nil
             keep : BOOLEAN,                    \* RunOptions.KeepWorktree
             bus : BOOLEAN]                     \* Bus # nil

NoCOptions == [lenses |-> {}, report |-> FALSE, keep |-> FALSE, bus |-> FALSE]

ASSUME CoordinateAssumption == COptionSet \subseteq COptions

VARIABLES
    copts,
    lens,       \* "call", "run", the pass to come, "report", "over"
    runStatus,  \* Result.Status; "none" before the run has ended
    given,      \* the reviews that were given
    announced,  \* the events published after the run's terminal event
    report      \* {the reviews REPORT.md holds}; {} for no report

cvars == <<copts, lens, runStatus, given, announced, report>>

CoordinateTypeOK ==
    /\ copts \in COptions
    /\ lens \in {"call", "run", "report", "over", "refused"} \cup Range(Lenses)
    /\ runStatus \in {"none", "success", "failure", "cancelled"}
    /\ given \subseteq Range(Lenses)
    /\ announced \in Seq(Range(Lenses) \cup {"report"})
    /\ report \subseteq SUBSET Range(Lenses)

CoordinateInit(options) ==
    /\ copts \in options
    /\ lens = "call" /\ runStatus = "none" /\ given = {} /\ announced = <<>>
    /\ report = {}

Published(e) == IF copts.bus THEN Append(announced, e) ELSE announced

\* Run returns an error: Coordinate does, too.
RefuseCoordinate ==
    /\ lens = "call"
    /\ lens' = "refused"
    /\ UNCHANGED <<copts, runStatus, given, announced, report>>

StartCoordinate ==
    /\ lens = "call"
    /\ lens' = "run"
    /\ UNCHANGED <<copts, runStatus, given, announced, report>>

RunEnds ==
    /\ lens = "run"
    /\ runStatus' \in {"success", "failure", "cancelled"}
    /\ lens' = Lenses[1]
    /\ UNCHANGED <<copts, given, announced, report>>

NextLens == LET passes == Append(Lenses, "report")
            IN passes[1 + CHOOSE k \in DOMAIN Lenses : Lenses[k] = lens]

\* A reviewer answers: LLMReviewer.Review, Scanner.Review, runReviewLens.
Reviewed ==
    /\ lens \in copts.lenses
    /\ given' = given \cup {lens}
    /\ announced' = Published(lens)
    /\ lens' = NextLens
    /\ UNCHANGED <<copts, runStatus, report>>

\* A nil reviewer, or one that returns an error.
NotReviewed ==
    /\ lens \in Range(Lenses)
    /\ lens' = NextLens
    /\ UNCHANGED <<copts, runStatus, given, announced, report>>

\* The template reporter writes into the run's worktree, which Run has removed
\* unless it was to be kept.
Report ==
    /\ lens = "report" /\ copts.report /\ copts.keep
    /\ report' = {given}
    /\ announced' = Published("report")
    /\ lens' = "over"
    /\ UNCHANGED <<copts, runStatus, given>>

\* No reporter, or REPORT.md cannot be written: the markdown is dropped.
NoReport ==
    /\ lens = "report"
    /\ lens' = "over"
    /\ UNCHANGED <<copts, runStatus, given, announced, report>>

CoordinateStep ==
    \/ RefuseCoordinate \/ StartCoordinate \/ RunEnds \/ Reviewed \/ NotReviewed
    \/ Report \/ NoReport

CoordinateOver == lens \in {"over", "refused"}

\* The report is the last event of the run and tells exactly the reviews that
\* were announced before it; none is announced twice or out of order.
ReportTellsTheReviews ==
    /\ \A j, k \in DOMAIN announced : j < k /\ announced[k] # "report" =>
          \E a, b \in DOMAIN Lenses : a < b /\ announced[j] = Lenses[a]
                                            /\ announced[k] = Lenses[b]
    /\ (lens = "over" /\ report # {} /\ copts.bus) =>
          announced # <<>> /\ Last(announced) = "report"
                           /\ report = {Range(announced) \ {"report"}}
=============================================================================
