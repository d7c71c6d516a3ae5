---------------------------- MODULE MCRunCommand ----------------------------
EXTENDS RunCommand

(* Parallel: every option with one and two agents; two agents that print   *)
(* more than the channel holds; two and three that have to take turns.     *)
Parallel(agents, limits, bursts) ==
    [agents : agents, image : {TRUE}, store : BOOLEAN, judge : BOOLEAN, merge : BOOLEAN,
     mergeWinner : BOOLEAN, keep : BOOLEAN, limit : limits, burst : bursts]

Refusable == {[agents |-> n, image |-> n = 0, store |-> FALSE, judge |-> FALSE,
               merge |-> FALSE, mergeWinner |-> FALSE, keep |-> FALSE, limit |-> 0,
               burst |-> 0] : n \in 0..1}

\* The options that decide about merging, with and without a row.
FanOuts == Refusable \cup Parallel({1, 2}, {0}, {0})
    \cup {o \in Parallel({2}, {0}, {3}) \cup Parallel({2}, {1}, {1}) \cup Parallel({3}, {2}, {0}) :
             o.store /\ ~o.keep /\ ~o.mergeWinner}

\* More output than the channel holds and fewer places than agents.
Throttled == {[agents |-> 2, image |-> TRUE, store |-> FALSE, judge |-> FALSE,
               merge |-> FALSE, mergeWinner |-> FALSE, keep |-> FALSE, limit |-> 1,
               burst |-> 3]}

Unthrottled == {[o EXCEPT !.limit = 0] : o \in Throttled}

(* Plans: every dependency graph over three nodes with at most two         *)
(* dependencies each, an unknown id and itself included, and the malformed *)
(* plans of up to two nodes.                                               *)
Node(i, p, d) == [id |-> i, prompt |-> p, deps |-> d]
Deps == {<<>>} \cup {<<a>> : a \in 1..4} \cup {<<a, b>> : a \in 1..4, b \in 1..4}

Graphs == {<<Node(1, TRUE, d[1]), Node(2, TRUE, d[2]), Node(3, TRUE, d[3])>> :
              d \in [1..3 -> Deps]}

Malformed == {<<>>} \cup {<<Node(i, p, <<>>)>> : i \in 0..1, p \in BOOLEAN}
                    \cup {<<Node(i, p, d), Node(j, TRUE, e)>> :
                             i \in 0..2, j \in 0..2, p \in BOOLEAN,
                             d \in {<<>>, <<1>>, <<2>>}, e \in {<<>>, <<1>>, <<2>>}}

Runnable(p) == validateDAG(p, TRUE) = "nil"

DAG(plans, judges, keeps, synths, refines, maxes) ==
    [plan : plans, judge : judges, keep : keeps, synthesize : synths, refine : refines,
     max : maxes]

DAGs == DAG({p \in Graphs \cup Malformed : ~Runnable(p)}, {TRUE}, {TRUE}, {TRUE}, {FALSE}, {0})
        \cup DAG({p \in Malformed : Runnable(p)}, {TRUE}, BOOLEAN, BOOLEAN, {FALSE}, {0})
        \cup DAG({p \in Malformed : Runnable(p)}, BOOLEAN, {TRUE}, {TRUE}, {TRUE}, {0, 2})
        \cup DAG({p \in Graphs : Runnable(p)}, {TRUE}, {FALSE}, {TRUE}, {FALSE}, {0})

TwoRoots == DAG({<<Node(1, TRUE, <<>>), Node(2, TRUE, <<>>)>>}, {TRUE}, {FALSE}, {TRUE},
                {FALSE}, {0})

AllCoordinate == COptions
NoCoordinate == {NoCOptions}

(* Flags: one family per decision of the command. *)
Flag(learn, only, dag, files, names, par, known, judge, llm, lenses, reports) ==
    [learn : learn, kernelOnly : only, dag : dag, file : files, names : names,
     parallel : par, known : known, judge : judge, llm : llm, lenses : lenses, report : reports]

AllFlags ==
    Flag(BOOLEAN, BOOLEAN, {FALSE}, {FALSE}, {0, 1, 2}, {1, 2}, BOOLEAN, {"none"}, {TRUE},
         {{}}, {FALSE})
    \cup Flag({FALSE}, {FALSE}, BOOLEAN, {FALSE}, {1, 2}, {1, 2}, {TRUE},
              {"none", "llm", "other"}, BOOLEAN, {{}}, {FALSE})
    \cup Flag(BOOLEAN, {FALSE}, {TRUE}, {TRUE}, {1}, {1}, {TRUE}, {"none"}, {FALSE}, {{}}, {FALSE})
    \cup Flag(BOOLEAN, {FALSE}, {FALSE}, {FALSE}, {1}, {1}, {TRUE}, {"none"}, BOOLEAN,
              {{}, {"review"}, {"security"}, {"security", "refactoring"}}, BOOLEAN)

FewFlags == Flag({FALSE}, {FALSE}, {FALSE}, {FALSE}, {1}, {1}, {TRUE}, {"none"}, {TRUE}, {{}}, {FALSE})
=============================================================================
