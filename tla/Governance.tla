----------------------------- MODULE Governance -----------------------------
(***************************************************************************)
(* internal/governance and internal/budget: the policy engine, its built-  *)
(* in policies, the audit log its decisions are written to row by row, and *)
(* the guard that counts what each run consumes.  The engine, the log and  *)
(* the guard are shared by all runs of a server.                           *)
(*                                                                         *)
(* A policy is a record with a kind; "custom" stands for any other         *)
(* implementation of the interface, a function of the action's type.       *)
(***************************************************************************)
EXTENDS Integers, Sequences

Results == {"allow", "deny", "review"}

\* The built-in policies and what they are configured with.  Budget's ceiling on
\* the cost is the same test on a second counter, and is left out.
Budget(tokens)      == [kind |-> "budget", name |-> "budget", max |-> tokens]
RetryLimit(n)       == [kind |-> "retry", name |-> "retry_limit", max |-> n]
DiffSize(bytes)     == [kind |-> "diff", name |-> "diff_size", max |-> bytes]
ToolPermission      == [kind |-> "tool", name |-> "tool_permission", max |-> 0]
Custom(name, says)  == [kind |-> "custom", name |-> name, max |-> 0, says |-> says]

\* Policy.Evaluate, with "error" for a policy that returns one, and "noted" for
\* an Allow that comes with a reason (the built-in ones give none).  An action
\* is [type, attempt, tokens, diff, tool, permitted].
Verdict(p, a) ==
    CASE p.kind = "budget" /\ p.max > 0 /\ a.tokens > p.max -> "deny"
      [] p.kind = "retry" /\ p.max > 0 /\ a.type = "refine" /\ a.attempt > p.max -> "deny"
      [] p.kind = "diff" /\ p.max > 0 /\ a.type \in {"refine", "merge"} /\ a.diff > p.max -> "review"
      [] p.kind = "tool" /\ a.tool # "" /\ ~a.permitted -> "deny"
      [] p.kind = "custom" -> p.says[a.type]
      [] OTHER -> "allow"

\* AddPolicy: a name that is taken is an error.
CanAdd(policies, p) == \A i \in DOMAIN policies : policies[i].name # p.name

\* The Result of an answer.
ResultOf(v) == IF v = "error" THEN "deny" ELSE IF v = "noted" THEN "allow" ELSE v

\* One turn of Engine.Evaluate's loop: Deny, and an error, end the questions;
\* Review stays.  The breakdown has every verdict but the Allows without a
\* reason, which its only reader, LogDecision, passes over.
Ask(d, p, a) ==
    LET v == Verdict(p, a)
        pv == [policy |-> p.name, result |-> ResultOf(v)]
    IN IF d.result = "deny" THEN d
       ELSE [result |-> IF pv.result = "allow" THEN d.result ELSE pv.result,
             said   |-> IF v = "allow" THEN d.said ELSE Append(d.said, pv)]

\* Engine.Evaluate
Evaluate(policies, a) ==
    LET asked[i \in 0..Len(policies)] ==
            IF i = 0 THEN [result |-> "allow", said |-> <<>>]
                     ELSE Ask(asked[i - 1], policies[i], a)
    IN asked[Len(policies)]

\* LogDecision: the aggregate row (no policy name), then one for each policy
\* that did not just allow.
Rows(r, type, d) ==
    <<[run |-> r, action |-> type, policy |-> "", result |-> d.result]>>
    \o [i \in DOMAIN d.said |->
           [run |-> r, action |-> type, policy |-> d.said[i].policy, result |-> d.said[i].result]]

\* LogApproval
ApprovalRow(r) == [run |-> r, action |-> "execute", policy |-> "", result |-> "approved"]

-----------------------------------------------------------------------------
(* budget.Guard: a report for each run that recorded something. *)

NoReport == [attempts |-> 0, tokens |-> 0]

ReportOf(reports, r) == IF r \in DOMAIN reports THEN reports[r] ELSE NoReport

\* RecordAttempt; ensure makes the report.
RecordAttempt(reports, r) ==
    [q \in DOMAIN reports \cup {r} |->
        IF q = r THEN [ReportOf(reports, r) EXCEPT !.attempts = @ + 1] ELSE reports[q]]

Forget(reports, r) == [q \in DOMAIN reports \ {r} |-> reports[q]]

-----------------------------------------------------------------------------
(* What a decision has to be: the strongest of all the policies' verdicts, *)
(* those that are no longer asked included.                                *)

Strongest(policies, a) ==
    LET said == {Verdict(policies[i], a) : i \in DOMAIN policies}
    IN IF said \cap {"deny", "error"} # {} THEN "deny"
       ELSE IF "review" \in said THEN "review" ELSE "allow"

\* The results at least as strong as v.
AtLeast(v) == IF v = "allow" THEN Results ELSE {"deny", v}
=============================================================================
