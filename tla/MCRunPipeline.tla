--------------------------- MODULE MCRunPipeline ---------------------------
(***************************************************************************)
(* Option records for model-checking RunPipeline.                          *)
(***************************************************************************)
EXTENDS RunPipeline

\* A run without gates; the sets below vary some of its fields.
PlainOptions ==
    [kernel |-> FALSE, reactive |-> FALSE, judge |-> FALSE, agents |-> 1,
     parallelN |-> 0, enabled |-> FALSE, verifyCmd |-> FALSE, lintCmd |-> FALSE,
     maxAttempts |-> 0, merge |-> TRUE, keep |-> FALSE, timed |-> FALSE]

\* Enabled, VerifyCmd and LintCmd: ignored gates, no gate, each gate, both.
GateChoices == {<<FALSE, TRUE, TRUE>>, <<TRUE, FALSE, FALSE>>, <<TRUE, TRUE, FALSE>>,
                <<TRUE, FALSE, TRUE>>, <<TRUE, TRUE, TRUE>>}

\* KeepWorktree, Timeout > 0 and Reactive.
ModeChoices == {<<FALSE, FALSE, FALSE>>, <<TRUE, TRUE, FALSE>>, <<FALSE, TRUE, TRUE>>}

\* No kernel: the gates under caps of 1, 2, the default of 3 (as 0), and 4,
\* which the phase machine does not follow.
GatedOptions ==
    {[PlainOptions EXCEPT !.enabled = g[1], !.verifyCmd = g[2], !.lintCmd = g[3],
                          !.maxAttempts = m,
                          !.keep = x[1], !.timed = x[2], !.reactive = x[3]] :
        g \in GateChoices, m \in {0, 1, 2, 4}, x \in ModeChoices}

\* Judge # nil and the number of agents: every outcome of dispatchKind.
DispatchHints == {<<FALSE, 1>>, <<FALSE, 2>>, <<TRUE, 1>>}

\* With the kernel: the dispatch hints, both modes, and a verify gate or none.
KernelOptions ==
    {[PlainOptions EXCEPT !.kernel = TRUE, !.reactive = x, !.judge = h[1],
                          !.agents = h[2], !.enabled = v,
                          !.verifyCmd = v, !.maxAttempts = 1, !.merge = ~v] :
        x \in BOOLEAN, h \in DispatchHints, v \in BOOLEAN}

AllOptions == GatedOptions \cup KernelOptions
=============================================================================
