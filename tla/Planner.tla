------------------------------ MODULE Planner ------------------------------
(***************************************************************************)
(* internal/planner: the TaskDAG a planner (or a file) produced, its       *)
(* checks and its orders, and decomposeChains of the DAG executor.         *)
(*                                                                         *)
(* A plan is a sequence of nodes.  Ids are numbers, 0 standing for "";     *)
(* of a prompt it only matters whether it is empty.                        *)
(***************************************************************************)
EXTENDS Integers, Sequences, SequencesExt, FiniteSetsExt

CONSTANT NodeIDs        \* the ids plans are made of, 0 and unknown ones included

ASSUME PlannerAssumption == NodeIDs \subseteq Nat /\ 0 \in NodeIDs

Nodes == [id : NodeIDs, prompt : BOOLEAN, deps : Seq(NodeIDs)]

IDs(plan) == {plan[k].id : k \in DOMAIN plan}

\* deps[id] of findCycle, a map by id: a later node of the same id replaces
\* the earlier one's dependencies.
DepsOf(plan, id) ==
    LET mine == {k \in DOMAIN plan : plan[k].id = id}
    IN IF mine = {} THEN <<>> ELSE plan[Max(mine)].deps

\* How often the k-th node names id among its dependencies.
Mentions(plan, k, id) == Cardinality({j \in DOMAIN plan[k].deps : plan[k].deps[j] = id})

\* children[id]: a node as often as it names id.
Children(plan, id) ==
    FlattenSeq([k \in DOMAIN plan |-> [j \in 1..Mentions(plan, k, id) |-> plan[k].id]])

Roots(plan) ==
    FlattenSeq([k \in DOMAIN plan |-> IF plan[k].deps = <<>> THEN <<plan[k].id>> ELSE <<>>])

-----------------------------------------------------------------------------
(* Validate *)

\* Mutant: only a back edge to the node the visit started from is a cycle.
findCycle_SelfOnly(plan) ==
    LET loops == {k \in DOMAIN plan : Contains(plan[k].deps, plan[k].id)}
    IN IF loops = {} THEN 0 ELSE plan[Min(loops)].id

\* findCycle: depth first over the dependencies with three colours.  A visit
\* gives the colours after it and the id a back edge led to, or 0.
Colors == [NodeIDs -> {"white", "gray", "black"}]

\* The visits of ids one after the other, up to the first that has a hit.
VisitAll(visit, color, ids) ==
    LET after[k \in 0..Len(ids)] ==
            IF k = 0 THEN [hit |-> 0, color |-> color]
            ELSE IF after[k - 1].hit # 0 THEN after[k - 1]
            ELSE visit[<<after[k - 1].color, ids[k]>>]
    IN after[Len(ids)]

\* The closure visit, calling visit for the dependencies.
VisitOne(plan, visit, color, id) ==
    CASE color[id] = "gray"  -> [hit |-> id, color |-> color]
      [] color[id] = "black" -> [hit |-> 0, color |-> color]
      [] OTHER ->
           LET r == VisitAll(visit, [color EXCEPT ![id] = "gray"], DepsOf(plan, id))
           IN IF r.hit # 0 THEN r ELSE [r EXCEPT !.color[id] = "black"]

findCycle(plan) ==
    LET visit[v \in Colors \X NodeIDs] == VisitOne(plan, visit, v[1], v[2])
    IN VisitAll(visit, [i \in NodeIDs |-> "white"], [k \in DOMAIN plan |-> plan[k].id]).hit

\* The first error Validate returns, or nil.
Validate(plan) ==
    IF plan = <<>> THEN "empty"
    ELSE IF \E k \in DOMAIN plan : \/ plan[k].id = 0 \/ ~plan[k].prompt
                                   \/ \E j \in 1..(k - 1) : plan[j].id = plan[k].id THEN "node"
    ELSE IF \E k \in DOMAIN plan : ~(Range(plan[k].deps) \subseteq IDs(plan) \ {plan[k].id})
         THEN "dep"
    ELSE IF findCycle(plan) # 0 THEN "cycle"
    ELSE "nil"

-----------------------------------------------------------------------------
(* Orders *)

\* TopoSort: Kahn's algorithm.  The degrees of the nodes that depend on id are
\* lowered, once for every time they name it; one that comes to 0 is ready.
Released(plan, s, id) ==
    LET after[k \in 0..Len(plan)] ==
            IF k = 0 THEN s
            ELSE LET n == plan[k].id
                     d == after[k - 1].degree[n]
                     m == Mentions(plan, k, id)
                 IN [out    |-> s.out,
                     ready  |-> IF 0 < d /\ d <= m THEN Append(after[k - 1].ready, n)
                                ELSE after[k - 1].ready,
                     degree |-> [after[k - 1].degree EXCEPT ![n] = d - m]]
    IN after[Len(plan)]

\* Every round takes the first ready id and appends it.
TopoSort(plan) ==
    LET after[k \in 0..Len(plan)] ==
            IF k = 0
            THEN [out |-> <<>>, ready |-> Roots(plan),
                  degree |-> [i \in IDs(plan) |-> Len(DepsOf(plan, i))]]
            ELSE LET s == after[k - 1]
                 IN IF s.ready = <<>> THEN s
                    ELSE Released(plan, [out |-> Append(s.out, Head(s.ready)),
                                         ready |-> Tail(s.ready), degree |-> s.degree],
                                  Head(s.ready))
    IN after[Len(plan)].out

\* decomposeChains: the ids of a root and of everything below it, in the order
\* of the recursive visit.
Subtree(plan, root) ==
    LET walk[id \in NodeIDs] ==
            LET kids == Children(plan, id)
            IN <<id>> \o FlattenSeq([k \in DOMAIN kids |-> walk[kids[k]]])
    IN walk[root]

decomposeChains(plan) == [c \in DOMAIN Roots(plan) |-> Subtree(plan, Roots(plan)[c])]

\* validateDAG: executable means valid, no node with two dependencies, and a
\* judge when there are several roots.
validateDAG(plan, judge) ==
    IF Validate(plan) # "nil" THEN Validate(plan)
    ELSE IF \E k \in DOMAIN plan : Len(plan[k].deps) > 1 THEN "diamond"
    ELSE IF Len(Roots(plan)) > 1 /\ ~judge THEN "judge"
    ELSE "nil"

-----------------------------------------------------------------------------
(* What they have to mean *)

\* s lists the plan's nodes from the given ids once each, every node after
\* its dependencies.
OrderedOnce(plan, s) ==
    /\ IsInjective(s)
    /\ \A k \in DOMAIN s : \A j \in DOMAIN DepsOf(plan, s[k]) :
          \E i \in 1..(k - 1) : s[i] = DepsOf(plan, s[k])[j]

\* Some numbering of the nodes lies above the dependencies: the plan is
\* acyclic.  Says nothing of how a cycle is searched for.
Acyclic(plan) ==
    \E rank \in [IDs(plan) -> 1..Len(plan)] :
        \A k \in DOMAIN plan : \A d \in Range(plan[k].deps) :
            rank[d] < rank[plan[k].id]

\* The chains hold the plan's nodes and every one of them at one place only.
HoldOnce(plan, chains) ==
    /\ \A c \in DOMAIN chains : Range(chains[c]) \subseteq IDs(plan)
    /\ \A i \in IDs(plan) : \E c \in DOMAIN chains : i \in Range(chains[c])
    /\ \A c, d \in DOMAIN chains : \A k \in DOMAIN chains[c], l \in DOMAIN chains[d] :
          chains[c][k] = chains[d][l] => c = d /\ k = l

\* A plan that is run has a first chain, and of a single node no other.
Rooted(plan, judge) ==
    validateDAG(plan, judge) = "nil" =>
        /\ 1 \in DOMAIN Roots(plan)
        /\ Len(plan) = 1 => DOMAIN Roots(plan) = {1}

WellFormed(plan) ==
    /\ plan # <<>>
    /\ 0 \notin IDs(plan)
    /\ \A j, k \in DOMAIN plan : plan[j].id = plan[k].id => j = k
    /\ \A k \in DOMAIN plan : plan[k].prompt /\ Range(plan[k].deps) \subseteq IDs(plan)
    /\ Acyclic(plan)
=============================================================================
