--------------------------- MODULE GovernedServer ---------------------------
(***************************************************************************)
(* sandcode serve from a request to the attempts of a run: the middlewares *)
(* (CORS, rate limit, authentication, capability), the principal that is   *)
(* staged with a run and becomes its tool filter, the governance gates     *)
(* before the first attempt and before every further one, their audit rows *)
(* (appended one by one, each of which may fail), the approval, and the    *)
(* budget guard that Launch clears.                                        *)
(*                                                                         *)
(* Scheduling, the approval registry, the agent and its checks are in      *)
(* RunServer, ApprovalRegistry and RunPipeline; here they only choose.     *)
(***************************************************************************)
EXTENDS RateLimiter, Access, Governance

CONSTANTS RunIDs,
          Options,  \* how the server was started: see opt
          MaxTime   \* the clock's bound

\* Requests come from the limiter's addresses; keys and policies are lists; a
\* policy has a name and answers in one of the five ways; there is an attempt.
ASSUME GovernedAssumption ==
    /\ MaxTime \in Nat
    /\ \A o \in Options :
          /\ \A req \in o.requests : req.addr \in Keys
          /\ o.srv.config.keys \in Seq({o.srv.config.keys[i] : i \in DOMAIN o.srv.config.keys})
          /\ o.policies \in Seq({o.policies[i] : i \in DOMAIN o.policies})
          /\ \A i \in DOMAIN o.policies :
                /\ o.policies[i].name # ""
                /\ o.policies[i].kind = "custom" =>
                      \A type \in {"execute", "refine"} :
                         o.policies[i].says[type] \in {"allow", "noted", "deny", "review", "error"}
          /\ o.max \in Nat \ {0} /\ o.usage \subseteq Nat

VARIABLES
    opt,      \* [srv, limited, policies, guard, max, tools, usage, requests]:
              \* the access configuration, --rate-limit set, the engine's
              \* policies, a budget guard, the refine bound (1: no refining),
              \* the MCP servers of --mcp, what an attempt may use, and the
              \* requests clients make
    runs,     \* each run's launch
    auditLog, \* the audit rows of each run, as ListByRun returns them
    reports   \* budget.Guard

runVars == <<runs, auditLog, reports>>
gvars == <<lvars, opt, runVars>>

\* token, approval and used are history: who asked, who approved (if anybody did,
\* with which token and name), and what the attempts used, before the last one
\* and in all.
NoApproval == [made |-> FALSE, token |-> "", name |-> ""]
NoRun == [phase |-> "free", principal |-> Nobody, tools |-> {}, gate |-> "execute",
          result |-> "allow", rows |-> <<>>, attempts |-> 0,
          token |-> "", approval |-> NoApproval, used |-> <<0, 0>>]

Phases == {"free", "staged", "logging", "waiting", "approved", "ready", "running", "ended"}

\* buildGates, and the policy runServe adds for a keyring: no name twice, a
\* guard beside a budget and only there, and every keyring's tool policy.
BuildsGates(o) ==
    LET kinds == {o.policies[i].kind : i \in DOMAIN o.policies}
    IN /\ \A i \in DOMAIN o.policies : CanAdd(SubSeq(o.policies, 1, i - 1), o.policies[i])
       /\ o.guard = ("budget" \in kinds)
       /\ o.srv.auth = "keyring" => "tool" \in kinds

\* runServe came as far as serving.
GInit ==
    /\ LimiterInit
    /\ opt \in {o \in Options : Starts(o.srv) /\ BuildsGates(o)}
    /\ runs = [r \in RunIDs |-> NoRun]
    /\ auditLog = [r \in RunIDs |-> <<>>]
    /\ reports = [r \in {} |-> NoReport]

-----------------------------------------------------------------------------
(* Requests *)

\* handleCreateRun: the principal of the context is staged with the run.
HandleCreate(req) ==
    /\ \E r \in RunIDs :
          /\ runs[r].phase = "free"
          /\ runs' = [runs EXCEPT ![r].phase = "staged", ![r].token = req.token,
                                  ![r].principal = Authenticated(opt.srv, req)]
    /\ UNCHANGED <<auditLog, reports>>

\* handleApproveRun for a run that waits.
HandleApprove(req) ==
    /\ \E r \in RunIDs :
          /\ runs[r].phase = "waiting"
          /\ runs' = [runs EXCEPT ![r].phase = "approved",
                        ![r].approval = [made |-> TRUE, token |-> req.token,
                                           name |-> ApproverOf(opt.srv, req)]]
    /\ UNCHANGED <<auditLog, reports>>

\* The chain of middlewares hands the request to its handler.
Reaches(req) ==
    /\ ~req.preflight
    /\ PassesAuth(opt.srv, req) /\ PassesCapability(opt.srv, req)

\* A create that is valid, an approval of a run that waits; every other request
\* that comes through only reads, or is refused by its handler.
Handle(req) ==
    CASE Reaches(req) /\ req.route = "create" /\ req.valid -> HandleCreate(req)
      [] Reaches(req) /\ req.route = "approve" /\ req.valid -> HandleApprove(req)
      [] OTHER -> UNCHANGED runVars

Counted(req) == opt.limited /\ ~Uncounted(req)

\* s.withCORS(s.withRateLimit(s.withAuth(s.mux)))
Request(req) ==
    /\ UNCHANGED opt
    /\ \/ AnswersPreflight(opt.srv, req) /\ UNCHANGED <<lvars, runVars>>
       \/ /\ ~AnswersPreflight(opt.srv, req)
          /\ IF Counted(req) THEN Admits(req.addr) ELSE UNCHANGED lvars
          /\ Handle(req)
       \/ /\ ~AnswersPreflight(opt.srv, req)
          /\ Counted(req) /\ Refuses(req.addr)
          /\ UNCHANGED runVars

-----------------------------------------------------------------------------
(* A run *)

\* Mutant: a gate looks at the attempt that just failed.
ActionOf_LastAttempt(r, type) ==
    [type |-> type, attempt |-> IF type = "execute" THEN 1 ELSE runs[r].attempts,
     tokens |-> ReportOf(reports, r).tokens, diff |-> 0, tool |-> "", permitted |-> FALSE]

\* The action evaluatePolicy builds: no diff and no tool at these gates.
ActionOf(r, type) ==
    [type |-> type, attempt |-> IF type = "execute" THEN 1 ELSE runs[r].attempts + 1,
     tokens |-> ReportOf(reports, r).tokens, diff |-> 0, tool |-> "", permitted |-> FALSE]

\* evaluatePolicy up to LogDecision; without policies there is no engine.
Gate(run, r, type) ==
    LET d == Evaluate(opt.policies, ActionOf(r, type))
    IN [run EXCEPT !.phase = "logging", !.gate = type, !.result = d.result,
                   !.rows = IF opt.policies = <<>> THEN <<>> ELSE Rows(r, type, d)]

\* Launch: the tool filter of the staged principal, then the execute gate.
Launch(r) ==
    /\ runs[r].phase = "staged"
    /\ runs' = [runs EXCEPT ![r] =
          Gate([runs[r] EXCEPT !.tools = GrantedTools(opt.srv, runs[r].principal, opt.tools)],
               r, "execute")]
    /\ UNCHANGED <<auditLog, reports>>

\* Append of the next row.
LogRow(r) ==
    /\ runs[r].phase = "logging" /\ runs[r].rows # <<>>
    /\ auditLog' = [auditLog EXCEPT ![r] = Append(@, Head(runs[r].rows))]
    /\ runs' = [runs EXCEPT ![r].rows = Tail(@)]
    /\ UNCHANGED reports

\* Mutant: the next row is tried.
LogFails_GoesOn(r) ==
    /\ runs[r].phase = "logging" /\ runs[r].rows # <<>>
    /\ runs' = [runs EXCEPT ![r].rows = Tail(@)]
    /\ UNCHANGED <<auditLog, reports>>

\* An Append fails, or the context is cancelled: the other rows are not tried
\* and the run goes on.
LogFails(r) ==
    /\ runs[r].phase = "logging" /\ runs[r].rows # <<>>
    /\ runs' = [runs EXCEPT ![r].rows = <<>>]
    /\ UNCHANGED <<auditLog, reports>>

\* Launch returns, and its deferred Forget runs.
Returns(r) ==
    /\ runs' = [runs EXCEPT ![r].phase = "ended"]
    /\ reports' = IF opt.guard THEN Forget(reports, r) ELSE reports

\* The agent is started and the attempt recorded: the first one just after the
\* start, a further one just before it, with no gate in between.
Attempt(r) ==
    /\ \E u \in opt.usage :
          runs' = [runs EXCEPT ![r].phase = "running", ![r].attempts = @ + 1,
                               ![r].used = <<@[2], @[2] + u>>]
    /\ reports' = IF opt.guard THEN RecordAttempt(reports, r) ELSE reports

Logged(r, gate) == runs[r].phase = "logging" /\ runs[r].rows = <<>> /\ runs[r].gate = gate

\* The branches on the decision before the run.
ExecuteGate(r) ==
    /\ Logged(r, "execute")
    /\ UNCHANGED auditLog
    /\ CASE runs[r].result = "deny"   -> Returns(r)
         [] runs[r].result = "review" -> runs' = [runs EXCEPT ![r].phase = "waiting"] /\ UNCHANGED reports
         [] runs[r].result = "allow"  -> runs' = [runs EXCEPT ![r].phase = "ready"] /\ UNCHANGED reports

\* A rejection, the approval timeout or the end of the server.
WaitFails(r) == runs[r].phase = "waiting" /\ Returns(r) /\ UNCHANGED auditLog

\* LogApproval, which may fail.
LogApproval(r) ==
    /\ runs[r].phase = "approved"
    /\ runs' = [runs EXCEPT ![r].phase = "ready"]
    /\ \/ auditLog' = [auditLog EXCEPT ![r] = Append(@, ApprovalRow(r))]
       \/ UNCHANGED auditLog
    /\ UNCHANGED reports

\* Worktree and sandbox, any of which may fail, then the first attempt.
Start(r) ==
    /\ runs[r].phase = "ready"
    /\ Attempt(r) \/ Returns(r)
    /\ UNCHANGED auditLog

\* The attempt passed, or failed for good.
Finish(r) == runs[r].phase = "running" /\ Returns(r) /\ UNCHANGED auditLog

\* refineOrExhaust after a failed verify or lint, up to its gate.
Refine(r) ==
    /\ runs[r].phase = "running"
    /\ runs[r].attempts < opt.max
    /\ runs' = [runs EXCEPT ![r] = Gate(@, r, "refine")]
    /\ UNCHANGED <<auditLog, reports>>

\* The rest of it: only Deny stops.
RefineGate(r) ==
    /\ Logged(r, "refine")
    /\ UNCHANGED auditLog
    /\ IF runs[r].result = "deny" THEN Returns(r) ELSE Attempt(r)

RunStep(r) ==
    /\ \/ Launch(r) \/ LogRow(r) \/ LogFails(r) \/ ExecuteGate(r) \/ WaitFails(r)
       \/ LogApproval(r) \/ Start(r) \/ Finish(r) \/ Refine(r) \/ RefineGate(r)
    /\ UNCHANGED <<lvars, opt>>

TimePasses ==
    /\ opt.limited
    /\ (Tick /\ clock < MaxTime) \/ Measure
    /\ UNCHANGED <<opt, runVars>>

GNext == (\E req \in opt.requests : Request(req)) \/ (\E r \in RunIDs : RunStep(r)) \/ TimePasses

GSpec == GInit /\ [][GNext]_gvars

-----------------------------------------------------------------------------
(* Properties *)

\* Whoever had a run created or approved was allowed to by the file (or the
\* token, or by being on the loopback); the tools of a run are among those the
\* file grants to who created it; and the name beside an approval is the one of
\* the key it was made with, not the one in the body (handleApproveRun).
ActsWithinGrant ==
    LET srv == opt.srv
        Was(r, ps) == runs[r].phase \in ps
    IN \A r \in RunIDs :
          /\ ~Was(r, {"free"}) => MayDo(srv, runs[r].token, "run:create")
          /\ runs[r].approval.made =>
                /\ MayDo(srv, runs[r].approval.token, "approve")
                /\ srv.auth = "keyring" =>
                      \A i \in DOMAIN srv.config.keys :
                         srv.config.keys[i].token = runs[r].approval.token =>
                            srv.config.keys[i].id = runs[r].approval.name
          /\ srv.auth = "keyring" =>
                \A t \in runs[r].tools : FileGrants(srv.config, runs[r].token, "tools", t)

\* What the policies say of a run's n-th attempt, all of them asked.
Says(n) ==
    Strongest(opt.policies,
              [type |-> IF n = 1 THEN "execute" ELSE "refine", attempt |-> n, tokens |-> 0,
               diff |-> 0, tool |-> "", permitted |-> FALSE])

\* No attempt is made that a policy denies or fails on, none is made before a
\* review of the run was approved by someone who may, and the refine bound holds.
AttemptsAllowed ==
    \A r \in RunIDs :
       /\ runs[r].attempts <= opt.max
       /\ \A n \in 1..runs[r].attempts : Says(n) # "deny"
       /\ (runs[r].attempts > 0 /\ Says(1) = "review") => runs[r].approval.made

\* How a reader of GET /v1/runs/{id}/audit may take the rows, although any of
\* them can be missing: a policy's row, also that of an Allow with a reason,
\* stands under a row for the same gate that tells a verdict at least as strong,
\* and after a denial there are only rows of the policies that took part in it,
\* and no attempt beyond those before it.
AuditTruthful ==
    \A r \in RunIDs : LET log == auditLog[r] IN
       \A i \in DOMAIN log :
          /\ log[i].policy # "" =>
                \E j \in 1..(i - 1) :
                   /\ log[j].policy = "" /\ log[j].action = log[i].action
                   /\ \A k \in (j + 1)..i : log[k].policy # ""
                   /\ log[j].result \in AtLeast(log[i].result)
          /\ (log[i].policy = "" /\ log[i].result = "deny") =>
                /\ \A k \in (i + 1)..Len(log) : log[k].policy # ""
                /\ runs[r].phase \in {"logging", "ended"}

\* The guard, shared by all runs of the server, holds exactly the runs that have
\* begun an attempt and not yet returned, with as many attempts as they made.
GuardCounts ==
    opt.guard =>
       /\ DOMAIN reports = {r \in RunIDs : runs[r].attempts > 0 /\ runs[r].phase # "ended"}
       /\ \A r \in DOMAIN reports : reports[r].attempts = runs[r].attempts

\* The attempts of a run are those its policies let through, and the guard counts
\* each of them once.
GovernedAttempts == AttemptsAllowed /\ GuardCounts

\* "per-run token ceiling enforced by governance Budget policy": no attempt is
\* begun after the earlier ones used more than the ceiling.
TokenCeilingHolds ==
    \A r \in RunIDs : \A i \in DOMAIN opt.policies :
       opt.policies[i].kind = "budget" => runs[r].used[1] <= opt.policies[i].max
=============================================================================
