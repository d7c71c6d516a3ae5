---------------------------- MODULE PlannerProofs ----------------------------
(***************************************************************************)
(* Proofs about the planner's algorithms, for every plan: any number of    *)
(* nodes, any ids, any dependencies.  findCycle finds a cycle exactly when *)
(* there is one, Validate accepts exactly the well-formed plans, TopoSort  *)
(* lists their nodes once and in order, and decomposeChains cuts the plans *)
(* without a node of two dependencies into chains that hold every node     *)
(* once, behind what it depends on.                                        *)
(*                                                                         *)
(* The algorithms are recursive functions.  Each is first shown to exist   *)
(* (the equation that defines it has a solution), by induction over a      *)
(* bound: the white nodes for the visit of findCycle, the nodes above for  *)
(* the walk of decomposeChains, the counter for the loops.  Induction is   *)
(* the lemma CountUp, about sets of numbers, which the provers can         *)
(* instantiate.                                                            *)
(***************************************************************************)
EXTENDS Planner, TLAPS, FiniteSetTheorems, WellFoundedInduction

-----------------------------------------------------------------------------
(* Numbers *)

\* Something comes first.
LEMMA Smallest ==
    ASSUME NEW T \in SUBSET Nat, T # {}
    PROVE  \E n \in T : \A m \in T : n <= m
<1> DEFINE R == OpToRel(<, Nat)
<1>1. IsWellFoundedOn(R, Nat)
  BY NatLessThanWellFounded, Zenon
<1>2. \A x, y \in Nat : <<y, x>> \in R <=> y < x
  BY DEF OpToRel
<1> HIDE DEF R
<1>3. PICK n \in T : \A y \in T : ~(<<y, n>> \in R)
  BY <1>1, WFMin
<1>4. ASSUME NEW m \in T PROVE n <= m
  <2>1. ~(m < n) /\ m \in Nat /\ n \in Nat
    BY <1>2, <1>3
  <2> QED
    BY <2>1
<1> QED
  BY <1>4

\* And of finitely many something comes last.
LEMMA Greatest ==
    ASSUME NEW n \in Nat, NEW T \in SUBSET (0 .. n), T # {}
    PROVE  Max(T) \in T /\ \A m \in T : m <= Max(T)
<1> DEFINE U == {n - m : m \in T}
<1>0. \A m \in T : m \in 0 .. n /\ n - m \in Nat
  OBVIOUS
<1>1. U \in SUBSET Nat /\ U # {}
  BY <1>0
<1>2. PICK u \in U : \A w \in U : u <= w
  BY <1>1, Smallest
<1>3. PICK m \in T : u = n - m
  BY <1>2
<1>4. ASSUME NEW k \in T PROVE m >= k
  <2>1. n - m <= n - k /\ m \in 0 .. n /\ k \in 0 .. n
    BY <1>2, <1>3
  <2> QED
    BY <2>1
<1>5. \E x \in T : \A y \in T : x >= y
  BY <1>4
<1>6. Max(T) \in T /\ \A y \in T : Max(T) >= y
  BY <1>5 DEF Max
<1> QED
  BY <1>6

\* Induction up to a bound.
LEMMA CountUp ==
    ASSUME NEW n \in Nat, NEW P, 0 \in P, \A k \in 0 .. n - 1 : k \in P => k + 1 \in P
    PROVE  0 .. n \subseteq P
<1> DEFINE T == {k \in 0 .. n : k \notin P}
<1>1. SUFFICES ASSUME T # {} PROVE FALSE
  OBVIOUS
<1>2. T \in SUBSET Nat
  OBVIOUS
<1>3. PICK k \in T : \A m \in T : k <= m
  BY <1>1, <1>2, Smallest
<1>4. k \in 0 .. n /\ k # 0 /\ k \notin P
  BY <1>3
<1>5. k - 1 \in 0 .. n - 1 /\ k - 1 \in 0 .. n /\ ~(k <= k - 1) /\ k - 1 + 1 = k
  BY <1>4
<1>6. k - 1 \in P
  BY <1>3, <1>5
<1> QED
  BY <1>4, <1>5, <1>6

-----------------------------------------------------------------------------
(* Plans *)

LEMMA PlanNodes ==
    ASSUME NEW plan \in Seq(Nodes)
    PROVE  /\ Len(plan) \in Nat /\ DOMAIN plan = 1 .. Len(plan)
           /\ \A k \in 1 .. Len(plan) : /\ plan[k] \in Nodes /\ plan[k].id \in NodeIDs
                                        /\ plan[k].deps \in Seq(NodeIDs)
                                        /\ plan[k].id \in IDs(plan)
           /\ IDs(plan) \subseteq NodeIDs
           /\ IsFiniteSet(IDs(plan))
<1>1. Len(plan) \in Nat /\ DOMAIN plan = 1 .. Len(plan) /\ \A k \in 1 .. Len(plan) : plan[k] \in Nodes
  OBVIOUS
<1>2. \A k \in 1 .. Len(plan) : plan[k].id \in NodeIDs /\ plan[k].deps \in Seq(NodeIDs)
  BY <1>1 DEF Nodes
<1>3. IDs(plan) = {plan[k].id : k \in 1 .. Len(plan)}
  BY <1>1 DEF IDs
<1>4. IsFiniteSet({plan[k].id : k \in 1 .. Len(plan)})
  <2> DEFINE f == [k \in 1 .. Len(plan) |-> plan[k].id]
             S == {plan[k].id : k \in 1 .. Len(plan)}
  <2>1. f \in Surjection(1 .. Len(plan), S)
    BY DEF Surjection
  <2>2. IsFiniteSet(1 .. Len(plan))
    BY <1>1, FS_Interval
  <2> QED
    BY <2>1, <2>2, FS_Surjection
<1> QED
  BY <1>1, <1>2, <1>3, <1>4

\* What the checks before the search for a cycle establish.
Formed(plan) ==
    /\ plan \in Seq(Nodes)
    /\ 0 \notin IDs(plan)
    /\ \A j, k \in DOMAIN plan : plan[j].id = plan[k].id => j = k
    /\ \A k \in DOMAIN plan : Range(plan[k].deps) \subseteq IDs(plan)

LEMMA DepsOfAny ==
    ASSUME NEW plan \in Seq(Nodes), NEW id
    PROVE  /\ DepsOf(plan, id) \in Seq(NodeIDs)
           /\ id \notin IDs(plan) => DepsOf(plan, id) = <<>>
<1> DEFINE mine == {k \in DOMAIN plan : plan[k].id = id}
<1>1. mine = {} => DepsOf(plan, id) = <<>>
  BY DEF DepsOf
<1>2. id \notin IDs(plan) => mine = {}
  BY DEF IDs
<1>3. <<>> \in Seq(NodeIDs)
  OBVIOUS
<1>4. ASSUME mine # {} PROVE DepsOf(plan, id) \in Seq(NodeIDs)
  <2>1. mine \in SUBSET (0 .. Len(plan)) /\ Len(plan) \in Nat
    BY PlanNodes
  <2>2. Max(mine) \in mine
    BY <1>4, <2>1, Greatest
  <2>3. DepsOf(plan, id) = plan[Max(mine)].deps
    BY <1>4 DEF DepsOf
  <2> HIDE DEF mine
  <2>4. Max(mine) \in 1 .. Len(plan)
    BY <2>2, PlanNodes DEF mine
  <2> QED
    BY <2>3, <2>4, PlanNodes
<1> QED
  BY <1>1, <1>2, <1>3, <1>4

LEMMA DepsOfNode ==
    ASSUME NEW plan, Formed(plan), NEW k \in 1 .. Len(plan)
    PROVE  /\ DepsOf(plan, plan[k].id) = plan[k].deps
           /\ Range(plan[k].deps) \subseteq IDs(plan)
<1> DEFINE mine == {m \in DOMAIN plan : plan[m].id = plan[k].id}
<1>1. DOMAIN plan = 1 .. Len(plan) /\ Len(plan) \in Nat
  BY PlanNodes DEF Formed
<1>2. mine = {k}
  BY <1>1 DEF Formed
<1>3. Max({k}) = k
  <2>1. {k} \in SUBSET (0 .. Len(plan)) /\ {k} # {}
    BY <1>1
  <2>2. Max({k}) \in {k}
    BY <1>1, <2>1, Greatest
  <2> QED
    BY <2>2
<1>4. DepsOf(plan, plan[k].id) = plan[Max(mine)].deps
  BY <1>2 DEF DepsOf
<1> QED
  BY <1>1, <1>2, <1>3, <1>4 DEF Formed

LEMMA DepsInPlan ==
    ASSUME NEW plan, Formed(plan), NEW i \in IDs(plan)
    PROVE  DepsOf(plan, i) \in Seq(IDs(plan)) /\ Range(DepsOf(plan, i)) \subseteq IDs(plan)
<1>1. PICK k \in DOMAIN plan : i = plan[k].id
  BY DEF IDs
<1>2. k \in 1 .. Len(plan) /\ plan[k].deps \in Seq(NodeIDs)
  BY PlanNodes DEF Formed
<1>3. DepsOf(plan, i) = plan[k].deps /\ Range(plan[k].deps) \subseteq IDs(plan)
  BY <1>1, <1>2, DepsOfNode
<1>4. plan[k].deps \in Seq(IDs(plan))
  <2> DEFINE s == plan[k].deps
  <2>1. s \in Seq(NodeIDs) /\ Range(s) \subseteq IDs(plan)
    BY <1>2, <1>3
  <2> HIDE DEF s
  <2>2. \A j \in 1 .. Len(s) : s[j] \in IDs(plan)
    BY <2>1 DEF Range
  <2>3. s \in Seq(IDs(plan))
    BY <2>1, <2>2
  <2> QED
    BY <2>3 DEF s
<1> QED
  BY <1>3, <1>4

-----------------------------------------------------------------------------
(* The recursive visit of findCycle *)

\* after holds what VisitAll has after each of the first n ids.
Visits(after, visit, color, ids, n) ==
    after = [k \in 0 .. n |->
               IF k = 0 THEN [hit |-> 0, color |-> color]
               ELSE IF after[k - 1].hit # 0 THEN after[k - 1]
               ELSE visit[<<after[k - 1].color, ids[k]>>]]

LEMMA VisitsExist ==
    ASSUME NEW visit, NEW color, NEW ids, NEW n \in Nat
    PROVE  \E after : Visits(after, visit, color, ids, n)
<1> DEFINE P == {k \in 0 .. n : \E t : Visits(t, visit, color, ids, k)}
<1>1. 0 \in P
  <2> DEFINE t == [i \in 0 .. 0 |-> [hit |-> 0, color |-> color]]
  <2>1. Visits(t, visit, color, ids, 0)
    BY DEF Visits
  <2> QED
    BY <2>1
<1>2. ASSUME NEW k \in 0 .. n - 1, k \in P PROVE k + 1 \in P
  <2>1. PICK t : Visits(t, visit, color, ids, k)
    BY <1>2
  <2> DEFINE next == IF t[k].hit # 0 THEN t[k] ELSE visit[<<t[k].color, ids[k + 1]>>]
             u == [i \in 0 .. k + 1 |-> IF i = k + 1 THEN next ELSE t[i]]
  <2>2. \A i \in 0 .. k + 1 :
           u[i] = IF i = 0 THEN [hit |-> 0, color |-> color]
                  ELSE IF u[i - 1].hit # 0 THEN u[i - 1]
                  ELSE visit[<<u[i - 1].color, ids[i]>>]
    <3> SUFFICES ASSUME NEW i \in 0 .. k + 1
                 PROVE  u[i] = IF i = 0 THEN [hit |-> 0, color |-> color]
                               ELSE IF u[i - 1].hit # 0 THEN u[i - 1]
                               ELSE visit[<<u[i - 1].color, ids[i]>>]
      OBVIOUS
    <3>1. CASE i = k + 1
      <4>1. i - 1 = k /\ u[i] = next /\ u[i - 1] = t[k] /\ i # 0
        BY <3>1
      <4> QED
        BY <3>1, <4>1
    <3>2. CASE i # k + 1
      <4>1. i \in 0 .. k /\ u[i] = t[i] /\ (i # 0 => i - 1 \in 0 .. k /\ u[i - 1] = t[i - 1])
        BY <3>2
      <4>2. t[i] = IF i = 0 THEN [hit |-> 0, color |-> color]
                   ELSE IF t[i - 1].hit # 0 THEN t[i - 1]
                   ELSE visit[<<t[i - 1].color, ids[i]>>]
        BY <2>1, <4>1 DEF Visits
      <4> QED
        BY <4>1, <4>2
    <3> QED
      BY <3>1, <3>2
  <2>3. Visits(u, visit, color, ids, k + 1)
    BY <2>2 DEF Visits
  <2>4. k + 1 \in 0 .. n
    OBVIOUS
  <2> QED
    BY <2>3, <2>4
<1> HIDE DEF P
<1>3. 0 .. n \subseteq P
  BY <1>1, <1>2, CountUp
<1>4. n \in P
  BY <1>3
<1> QED
  BY <1>4 DEF P

\* The same as equations, with VisitAll's result.
VisitsDone(after, visit, color, ids) ==
    /\ VisitAll(visit, color, ids) = after[Len(ids)]
    /\ after[0] = [hit |-> 0, color |-> color]
    /\ \A k \in 1 .. Len(ids) :
          after[k] = IF after[k - 1].hit # 0 THEN after[k - 1]
                     ELSE visit[<<after[k - 1].color, ids[k]>>]

LEMMA VisitAllUnfolds ==
    ASSUME NEW visit, NEW color, NEW S, NEW ids \in Seq(S)
    PROVE  \E after : VisitsDone(after, visit, color, ids)
<1>1. Len(ids) \in Nat
  OBVIOUS
<1>2. \E after : Visits(after, visit, color, ids, Len(ids))
  BY <1>1, VisitsExist
<1>3. \E after : Visits(after, visit, color, ids, Len(ids)) /\ VisitAll(visit, color, ids) = after[Len(ids)]
  BY <1>2 DEF Visits, VisitAll
<1>4. PICK after : Visits(after, visit, color, ids, Len(ids)) /\ VisitAll(visit, color, ids) = after[Len(ids)]
  BY <1>3
<1>5. after[0] = [hit |-> 0, color |-> color]
  BY <1>1, <1>4 DEF Visits
<1>6. \A k \in 1 .. Len(ids) : after[k] = IF after[k - 1].hit # 0 THEN after[k - 1]
                                          ELSE visit[<<after[k - 1].color, ids[k]>>]
  BY <1>1, <1>4 DEF Visits
<1> QED
  BY <1>4, <1>5, <1>6 DEF VisitsDone

Found == [hit : NodeIDs, color : Colors]

White(plan, color) == {i \in IDs(plan) : color[i] = "white"}

\* A visit gives colours and whitens nothing.
Paints(plan, visit, color) ==
    \A id \in NodeIDs : /\ visit[<<color, id>>] \in Found
                        /\ White(plan, visit[<<color, id>>].color) \subseteq White(plan, color)

LEMMA VisitAllPaints ==
    ASSUME NEW plan, NEW visit, NEW color \in Colors, NEW ids \in Seq(NodeIDs),
           \A c \in Colors : White(plan, c) \subseteq White(plan, color) => Paints(plan, visit, c)
    PROVE  /\ VisitAll(visit, color, ids) \in Found
           /\ White(plan, VisitAll(visit, color, ids).color) \subseteq White(plan, color)
<1>1. PICK after : VisitsDone(after, visit, color, ids)
  BY VisitAllUnfolds
<1> DEFINE n == Len(ids)
           P == {k \in 0 .. n : after[k] \in Found /\ White(plan, after[k].color) \subseteq White(plan, color)}
<1>2. n \in Nat
  OBVIOUS
<1>3. 0 \in P
  <2>1. after[0] \in Found /\ after[0].color = color
    BY <1>1, PlannerAssumption DEF Found, VisitsDone
  <2> QED
    BY <1>2, <2>1
<1>4. ASSUME NEW k \in 0 .. n - 1, k \in P PROVE k + 1 \in P
  <2>1. k + 1 \in 1 .. n /\ k + 1 \in 0 .. n /\ k + 1 - 1 = k
    BY <1>2
  <2>2. after[k + 1] = IF after[k].hit # 0 THEN after[k] ELSE visit[<<after[k].color, ids[k + 1]>>]
    BY <1>1, <2>1 DEF VisitsDone
  <2>3. ids[k + 1] \in NodeIDs /\ after[k].color \in Colors
        /\ White(plan, after[k].color) \subseteq White(plan, color)
    BY <1>4, <2>1 DEF Found
  <2>4. /\ visit[<<after[k].color, ids[k + 1]>>] \in Found
        /\ White(plan, visit[<<after[k].color, ids[k + 1]>>].color) \subseteq White(plan, after[k].color)
    BY <2>3 DEF Paints
  <2> QED
    BY <1>4, <2>1, <2>2, <2>3, <2>4
<1> HIDE DEF P
<1>5. 0 .. n \subseteq P
  BY <1>2, <1>3, <1>4, CountUp
<1>6. n \in P
  BY <1>2, <1>5
<1> QED
  BY <1>1, <1>6 DEF P, VisitsDone

\* They agree on all calls with these colours or fewer white ones.
Alike(plan, visit, other, color) ==
    \A c \in Colors : White(plan, c) \subseteq White(plan, color) =>
       /\ Paints(plan, visit, c)
       /\ \A id \in NodeIDs : other[<<c, id>>] = visit[<<c, id>>]

\* Two visits that agree on the calls it makes give VisitAll the same result.
LEMMA VisitAllAgrees ==
    ASSUME NEW plan, NEW visit, NEW other, NEW color \in Colors, NEW ids \in Seq(NodeIDs),
           Alike(plan, visit, other, color)
    PROVE  VisitAll(other, color, ids) = VisitAll(visit, color, ids)
<1>1. PICK after : VisitsDone(after, visit, color, ids)
  BY VisitAllUnfolds
<1>2. PICK then : VisitsDone(then, other, color, ids)
  BY VisitAllUnfolds
<1> DEFINE n == Len(ids)
           P == {k \in 0 .. n : /\ after[k] \in Found /\ then[k] = after[k]
                                /\ White(plan, after[k].color) \subseteq White(plan, color)}
<1>3. n \in Nat
  OBVIOUS
<1>4. 0 \in P
  <2>1. after[0] \in Found /\ after[0].color = color /\ then[0] = after[0]
    BY <1>1, <1>2, PlannerAssumption DEF Found, VisitsDone
  <2> QED
    BY <1>3, <2>1
<1>5. ASSUME NEW k \in 0 .. n - 1, k \in P PROVE k + 1 \in P
  <2>1. k + 1 \in 1 .. n /\ k + 1 \in 0 .. n /\ k + 1 - 1 = k
    BY <1>3
  <2>2. /\ after[k + 1] = IF after[k].hit # 0 THEN after[k] ELSE visit[<<after[k].color, ids[k + 1]>>]
        /\ then[k + 1] = IF then[k].hit # 0 THEN then[k] ELSE other[<<then[k].color, ids[k + 1]>>]
    BY <1>1, <1>2, <2>1 DEF VisitsDone
  <2>3. ids[k + 1] \in NodeIDs /\ after[k].color \in Colors /\ then[k] = after[k]
        /\ White(plan, after[k].color) \subseteq White(plan, color)
    BY <1>5, <2>1 DEF Found
  <2>4. /\ visit[<<after[k].color, ids[k + 1]>>] \in Found
        /\ White(plan, visit[<<after[k].color, ids[k + 1]>>].color) \subseteq White(plan, after[k].color)
        /\ other[<<after[k].color, ids[k + 1]>>] = visit[<<after[k].color, ids[k + 1]>>]
    BY <2>3 DEF Paints, Alike
  <2> QED
    BY <1>5, <2>1, <2>2, <2>3, <2>4
<1> HIDE DEF P
<1>6. 0 .. n \subseteq P
  BY <1>3, <1>4, <1>5, CountUp
<1>7. n \in P
  BY <1>3, <1>6
<1> QED
  BY <1>1, <1>2, <1>7 DEF P, VisitsDone

LEMMA VisitNone ==
    ASSUME NEW visit, NEW color
    PROVE  VisitAll(visit, color, <<>>) = [hit |-> 0, color |-> color]
<1> DEFINE ids == <<>>
<1>1. ids \in Seq(NodeIDs) /\ Len(ids) = 0
  OBVIOUS
<1> HIDE DEF ids
<1>2. PICK after : VisitsDone(after, visit, color, ids)
  BY <1>1, VisitAllUnfolds
<1>3. VisitAll(visit, color, ids) = [hit |-> 0, color |-> color]
  BY <1>1, <1>2 DEF VisitsDone
<1> QED
  BY <1>3 DEF ids

Grayed(color, id) == [color EXCEPT ![id] = "gray"]

LEMMA VisitCases ==
    ASSUME NEW plan, NEW visit, NEW color \in Colors, NEW id \in NodeIDs
    PROVE  /\ color[id] = "gray" => VisitOne(plan, visit, color, id) = [hit |-> id, color |-> color]
           /\ color[id] = "black" => VisitOne(plan, visit, color, id) = [hit |-> 0, color |-> color]
           /\ color[id] = "white" =>
                 LET r == VisitAll(visit, Grayed(color, id), DepsOf(plan, id))
                 IN  /\ r.hit # 0 => VisitOne(plan, visit, color, id) = r
                     /\ r \in Found /\ r.hit = 0 =>
                          VisitOne(plan, visit, color, id) =
                             [hit |-> 0, color |-> [r.color EXCEPT ![id] = "black"]]
           /\ color[id] \in {"white", "gray", "black"}
<1> DEFINE r == VisitAll(visit, Grayed(color, id), DepsOf(plan, id))
<1>1. color[id] \in {"white", "gray", "black"}
  BY DEF Colors
<1>2. color[id] = "gray" => VisitOne(plan, visit, color, id) = [hit |-> id, color |-> color]
  BY DEF VisitOne
<1>3. color[id] = "black" => VisitOne(plan, visit, color, id) = [hit |-> 0, color |-> color]
  BY DEF VisitOne
<1>4. color[id] = "white" =>
         VisitOne(plan, visit, color, id) = IF r.hit # 0 THEN r ELSE [r EXCEPT !.color[id] = "black"]
  BY DEF VisitOne, Grayed
<1> HIDE DEF r
<1>5. r \in Found /\ r.hit = 0 =>
         [r EXCEPT !.color[id] = "black"] = [hit |-> 0, color |-> [r.color EXCEPT ![id] = "black"]]
  BY DEF Found
<1>6. color[id] = "white" =>
         /\ r.hit # 0 => VisitOne(plan, visit, color, id) = r
         /\ r \in Found /\ r.hit = 0 =>
               VisitOne(plan, visit, color, id) =
                  [hit |-> 0, color |-> [r.color EXCEPT ![id] = "black"]]
  BY <1>4, <1>5
<1> QED
  BY <1>1, <1>2, <1>3, <1>6 DEF r

LEMMA GrayedType ==
    ASSUME NEW plan \in Seq(Nodes), NEW color \in Colors, NEW id \in NodeIDs, color[id] = "white"
    PROVE  /\ Grayed(color, id) \in Colors
           /\ White(plan, Grayed(color, id)) = White(plan, color) \ {id}
<1>1. Grayed(color, id) \in Colors /\ Grayed(color, id)[id] = "gray"
      /\ \A i \in NodeIDs \ {id} : Grayed(color, id)[i] = color[i]
  BY DEF Colors, Grayed
<1>2. IDs(plan) \subseteq NodeIDs
  BY PlanNodes
<1> QED
  BY <1>1, <1>2 DEF White

\* How many nodes are white: what the recursion lowers.
Whites(plan, color) == Cardinality(White(plan, color))

LEMMA FewerWhites ==
    ASSUME NEW plan \in Seq(Nodes), NEW color \in Colors
    PROVE  /\ Whites(plan, color) \in Nat
           /\ Whites(plan, color) <= Cardinality(IDs(plan))
           /\ \A c \in Colors : White(plan, c) \subseteq White(plan, color) =>
                 Whites(plan, c) \in Nat /\ Whites(plan, c) <= Whites(plan, color)
           /\ \A id \in IDs(plan) : color[id] = "white" =>
                 \A c \in Colors : White(plan, c) \subseteq White(plan, Grayed(color, id)) =>
                    Whites(plan, c) < Whites(plan, color)
<1>1. IsFiniteSet(IDs(plan)) /\ IDs(plan) \subseteq NodeIDs
  BY PlanNodes
<1>2. \A c : White(plan, c) \subseteq IDs(plan)
  BY DEF White
<1>3. \A c : IsFiniteSet(White(plan, c)) /\ Whites(plan, c) \in Nat
  BY <1>1, <1>2, FS_Subset, FS_CardinalityType DEF Whites
<1>4. \A c, d : White(plan, c) \subseteq White(plan, d) => Whites(plan, c) <= Whites(plan, d)
  BY <1>3, FS_Subset DEF Whites
<1>5. Whites(plan, color) <= Cardinality(IDs(plan))
  BY <1>1, <1>2, FS_Subset DEF Whites
<1>6. ASSUME NEW id \in IDs(plan), color[id] = "white", NEW c \in Colors,
             White(plan, c) \subseteq White(plan, Grayed(color, id))
      PROVE  Whites(plan, c) < Whites(plan, color)
  <2>1. White(plan, Grayed(color, id)) = White(plan, color) \ {id} /\ id \in White(plan, color)
    BY <1>1, <1>6, GrayedType DEF White
  <2>2. Whites(plan, Grayed(color, id)) = Whites(plan, color) - 1
    BY <1>3, <2>1, FS_RemoveElement DEF Whites
  <2>3. Whites(plan, c) <= Whites(plan, Grayed(color, id))
    BY <1>4, <1>6
  <2> QED
    BY <1>3, <2>2, <2>3
<1> QED
  BY <1>3, <1>4, <1>5, <1>6

\* One call, when the calls with fewer white nodes behave.
LEMMA VisitOnePaints ==
    ASSUME NEW plan \in Seq(Nodes), NEW visit, NEW color \in Colors, NEW id \in NodeIDs,
           \A c \in Colors : Whites(plan, c) < Whites(plan, color) => Paints(plan, visit, c)
    PROVE  /\ VisitOne(plan, visit, color, id) \in Found
           /\ White(plan, VisitOne(plan, visit, color, id).color) \subseteq White(plan, color)
<1> DEFINE g == Grayed(color, id)
           deps == DepsOf(plan, id)
           r == VisitAll(visit, g, deps)
           one == VisitOne(plan, visit, color, id)
<1>1. /\ color[id] = "gray" => one = [hit |-> id, color |-> color]
      /\ color[id] = "black" => one = [hit |-> 0, color |-> color]
      /\ color[id] = "white" =>
            /\ r.hit # 0 => one = r
            /\ r \in Found /\ r.hit = 0 => one = [hit |-> 0, color |-> [r.color EXCEPT ![id] = "black"]]
      /\ color[id] \in {"white", "gray", "black"}
  BY VisitCases
<1>2. ASSUME color[id] = "white"
      PROVE  r \in Found /\ White(plan, r.color) \subseteq White(plan, color)
  <2>1. g \in Colors /\ White(plan, g) = White(plan, color) \ {id}
    BY <1>2, GrayedType
  <2>2. deps \in Seq(NodeIDs) /\ (id \notin IDs(plan) => deps = <<>>)
    BY DepsOfAny
  <2>3. CASE id \in IDs(plan)
    <3>1. \A c \in Colors : White(plan, c) \subseteq White(plan, g) => Paints(plan, visit, c)
      BY <1>2, <2>3, FewerWhites
    <3> HIDE DEF g, deps
    <3>2. r \in Found /\ White(plan, r.color) \subseteq White(plan, g)
      BY <2>1, <2>2, <3>1, VisitAllPaints
    <3> QED
      BY <2>1, <3>2
  <2>4. CASE id \notin IDs(plan)
    <3> HIDE DEF g, deps
    <3>1. r = [hit |-> 0, color |-> g]
      BY <2>2, <2>4, VisitNone
    <3> QED
      BY <2>1, <3>1, PlannerAssumption DEF Found
  <2> QED
    BY <2>3, <2>4
<1> HIDE DEF r, one
<1>3. CASE color[id] = "gray"
  BY <1>1, <1>3 DEF Found, one
<1>4. CASE color[id] = "black"
  BY <1>1, <1>4, PlannerAssumption DEF Found, one
<1>5. CASE color[id] = "white"
  <2>1. CASE r.hit # 0
    BY <1>1, <1>2, <1>5, <2>1 DEF one
  <2>2. CASE r.hit = 0
    <3> DEFINE c == [r.color EXCEPT ![id] = "black"]
    <3>1. one = [hit |-> 0, color |-> c] /\ r.color \in Colors
          /\ White(plan, r.color) \subseteq White(plan, color)
      BY <1>1, <1>2, <1>5, <2>2 DEF Found
    <3>2. c \in Colors
      BY <3>1 DEF Colors
    <3>3. White(plan, c) \subseteq White(plan, r.color)
      <4>1. IDs(plan) \subseteq NodeIDs
        BY PlanNodes
      <4> QED
        BY <3>1, <4>1 DEF White, Colors
    <3> HIDE DEF c
    <3> QED
      BY <3>1, <3>2, <3>3, PlannerAssumption DEF Found, one
  <2> QED
    BY <2>1, <2>2
<1> QED
  BY <1>1, <1>3, <1>4, <1>5

LEMMA VisitOneAgrees ==
    ASSUME NEW plan \in Seq(Nodes), NEW visit, NEW other, NEW color \in Colors, NEW id \in NodeIDs,
           \A c \in Colors : Whites(plan, c) < Whites(plan, color) =>
              /\ Paints(plan, visit, c)
              /\ \A i \in NodeIDs : other[<<c, i>>] = visit[<<c, i>>]
    PROVE  VisitOne(plan, other, color, id) = VisitOne(plan, visit, color, id)
<1> DEFINE g == Grayed(color, id)
           deps == DepsOf(plan, id)
<1>1. color[id] = "white" =>
         VisitAll(other, g, deps) = VisitAll(visit, g, deps)
  <2> SUFFICES ASSUME color[id] = "white"
               PROVE  VisitAll(other, g, deps) = VisitAll(visit, g, deps)
    OBVIOUS
  <2>1. g \in Colors
    BY GrayedType
  <2>2. deps \in Seq(NodeIDs) /\ (id \notin IDs(plan) => deps = <<>>)
    BY DepsOfAny
  <2>3. CASE id \in IDs(plan)
    <3>1. Alike(plan, visit, other, g)
      BY <2>3, FewerWhites DEF Alike
    <3> HIDE DEF g, deps
    <3> QED
      BY <2>1, <2>2, <3>1, VisitAllAgrees
  <2>4. CASE id \notin IDs(plan)
    <3> HIDE DEF g, deps
    <3> QED
      BY <2>2, <2>4, VisitNone
  <2> QED
    BY <2>3, <2>4
<1>2. color[id] \in {"white", "gray", "black"}
  BY DEF Colors
<1> QED
  BY <1>1, <1>2 DEF VisitOne, Grayed

\* visit is the recursive function as far as fewer than n nodes are white.
Follows(plan, visit, n) ==
    \A color \in Colors : Whites(plan, color) < n =>
       \A id \in NodeIDs : visit[<<color, id>>] = VisitOne(plan, visit, color, id)

PaintsUpTo(plan, visit, n) ==
    \A color \in Colors : Whites(plan, color) < n => Paints(plan, visit, color)

LEMMA FollowsPaints ==
    ASSUME NEW plan \in Seq(Nodes), NEW visit, NEW n \in Nat, Follows(plan, visit, n)
    PROVE  PaintsUpTo(plan, visit, n)
<1> DEFINE P == {m \in 0 .. n : PaintsUpTo(plan, visit, m)}
<1>1. 0 \in P
  BY FewerWhites DEF PaintsUpTo
<1>2. ASSUME NEW m \in 0 .. n - 1, m \in P PROVE m + 1 \in P
  <2>1. ASSUME NEW color \in Colors, Whites(plan, color) < m + 1 PROVE Paints(plan, visit, color)
    <3>0. Whites(plan, color) \in Nat /\ \A c \in Colors : Whites(plan, c) \in Nat
      BY FewerWhites
    <3>1. \A c \in Colors : Whites(plan, c) < Whites(plan, color) => Paints(plan, visit, c)
      BY <1>2, <2>1, <3>0 DEF PaintsUpTo
    <3>2. \A id \in NodeIDs : visit[<<color, id>>] = VisitOne(plan, visit, color, id)
      BY <2>1, <3>0 DEF Follows
    <3>3. \A id \in NodeIDs :
             /\ VisitOne(plan, visit, color, id) \in Found
             /\ White(plan, VisitOne(plan, visit, color, id).color) \subseteq White(plan, color)
      BY <3>1, VisitOnePaints
    <3> QED
      BY <3>2, <3>3 DEF Paints
  <2> QED
    BY <2>1 DEF PaintsUpTo
<1> HIDE DEF P
<1>3. 0 .. n \subseteq P
  BY <1>1, <1>2, CountUp
<1>4. n \in P
  BY <1>3
<1> QED
  BY <1>4 DEF P

\* One more call than visit is good for.
Extended(plan, visit) ==
    [v \in Colors \X NodeIDs |-> VisitOne(plan, visit, v[1], v[2])]

LEMMA FollowsFurther ==
    ASSUME NEW plan \in Seq(Nodes), NEW visit, NEW n \in Nat, Follows(plan, visit, n)
    PROVE  Follows(plan, Extended(plan, visit), n + 1)
<1> DEFINE other == Extended(plan, visit)
<1>1. \A c \in Colors, i \in NodeIDs : other[<<c, i>>] = VisitOne(plan, visit, c, i)
  BY DEF Extended
<1> HIDE DEF other
<1>2. PaintsUpTo(plan, visit, n)
  BY FollowsPaints
<1>3. ASSUME NEW color \in Colors, Whites(plan, color) < n + 1, NEW id \in NodeIDs
      PROVE  other[<<color, id>>] = VisitOne(plan, other, color, id)
  <2>0. Whites(plan, color) \in Nat /\ \A c \in Colors : Whites(plan, c) \in Nat
    BY FewerWhites
  <2>1. \A c \in Colors : Whites(plan, c) < Whites(plan, color) =>
           /\ Paints(plan, visit, c)
           /\ \A i \in NodeIDs : other[<<c, i>>] = visit[<<c, i>>]
    <3> SUFFICES ASSUME NEW c \in Colors, Whites(plan, c) < Whites(plan, color)
                 PROVE  /\ Paints(plan, visit, c)
                        /\ \A i \in NodeIDs : other[<<c, i>>] = visit[<<c, i>>]
      OBVIOUS
    <3>1. Whites(plan, c) < n
      BY <1>3, <2>0
    <3> QED
      BY <1>1, <1>2, <3>1 DEF PaintsUpTo, Follows
  <2>2. VisitOne(plan, other, color, id) = VisitOne(plan, visit, color, id)
    BY <2>1, VisitOneAgrees
  <2> QED
    BY <1>1, <2>2
<1> QED
  BY <1>3 DEF Follows, other

LEMMA VisitExists ==
    ASSUME NEW plan \in Seq(Nodes)
    PROVE  \E visit : visit = [v \in Colors \X NodeIDs |-> VisitOne(plan, visit, v[1], v[2])]
<1> DEFINE n == Cardinality(IDs(plan)) + 1
           P == {m \in 0 .. n : \E visit : Follows(plan, visit, m)}
<1>0. n \in Nat /\ IsFiniteSet(IDs(plan))
  BY PlanNodes, FS_CardinalityType
<1>1. 0 \in P
  BY <1>0, FewerWhites DEF Follows
<1>2. ASSUME NEW m \in 0 .. n - 1, m \in P PROVE m + 1 \in P
  BY <1>0, <1>2, FollowsFurther
<1>3. n \in P
  <2> HIDE DEF P
  <2>1. 0 .. n \subseteq P
    BY <1>0, <1>1, <1>2, CountUp
  <2> QED
    BY <1>0, <2>1
<1>4. PICK visit : Follows(plan, visit, n)
  BY <1>3
<1> DEFINE other == Extended(plan, visit)
<1>5. Follows(plan, other, n + 1)
  BY <1>0, <1>4, FollowsFurther
<1>6. \A c \in Colors : Whites(plan, c) < n + 1
  <2>1. Cardinality(IDs(plan)) \in Nat
    BY <1>0, FS_CardinalityType
  <2>2. \A c \in Colors : Whites(plan, c) \in Nat /\ Whites(plan, c) <= Cardinality(IDs(plan))
    BY FewerWhites
  <2> QED
    BY <2>1, <2>2
<1>7. \A c \in Colors, i \in NodeIDs : other[<<c, i>>] = VisitOne(plan, other, c, i)
  BY <1>5, <1>6 DEF Follows
<1>8. \A v \in Colors \X NodeIDs : other[v] = VisitOne(plan, other, v[1], v[2])
  <2> HIDE DEF other
  <2> SUFFICES ASSUME NEW v \in Colors \X NodeIDs
               PROVE  other[v] = VisitOne(plan, other, v[1], v[2])
    OBVIOUS
  <2>1. v = <<v[1], v[2]>> /\ v[1] \in Colors /\ v[2] \in NodeIDs
    OBVIOUS
  <2> QED
    BY <1>7, <2>1
<1>9. other = [v \in Colors \X NodeIDs |-> other[v]]
  BY DEF Extended
<1> HIDE DEF other
<1>10. other = [v \in Colors \X NodeIDs |-> VisitOne(plan, other, v[1], v[2])]
  BY <1>8, <1>9
<1> QED
  BY <1>10

AllWhite == [i \in NodeIDs |-> "white"]
IDList(plan) == [k \in DOMAIN plan |-> plan[k].id]

\* visit is the recursive closure of findCycle.
Closure(plan, visit) ==
    \A color \in Colors :
       /\ Paints(plan, visit, color)
       /\ \A id \in NodeIDs : visit[<<color, id>>] = VisitOne(plan, visit, color, id)

LEMMA FindCycleUnfolds ==
    ASSUME NEW plan \in Seq(Nodes)
    PROVE  \E visit : /\ Closure(plan, visit)
                      /\ findCycle(plan) = VisitAll(visit, AllWhite, IDList(plan)).hit
<1> DEFINE visit == CHOOSE f : f = [v \in Colors \X NodeIDs |-> VisitOne(plan, f, v[1], v[2])]
<1>1. findCycle(plan) = VisitAll(visit, AllWhite, IDList(plan)).hit
  BY DEF findCycle, AllWhite, IDList
<1>2. visit = [v \in Colors \X NodeIDs |-> VisitOne(plan, visit, v[1], v[2])]
  BY VisitExists
<1> HIDE DEF visit
<1>3. \A c \in Colors, i \in NodeIDs : visit[<<c, i>>] = VisitOne(plan, visit, c, i)
  <2> SUFFICES ASSUME NEW c \in Colors, NEW i \in NodeIDs
               PROVE  visit[<<c, i>>] = VisitOne(plan, visit, c, i)
    OBVIOUS
  <2>1. <<c, i>> \in Colors \X NodeIDs /\ <<c, i>>[1] = c /\ <<c, i>>[2] = i
    OBVIOUS
  <2> QED
    BY <1>2, <2>1
<1> DEFINE n == Cardinality(IDs(plan)) + 1
<1>4. n \in Nat /\ \A c \in Colors : Whites(plan, c) < n
  <2>1. IsFiniteSet(IDs(plan)) /\ Cardinality(IDs(plan)) \in Nat
    BY PlanNodes, FS_CardinalityType
  <2> QED
    BY <2>1, FewerWhites
<1> HIDE DEF n
<1>5. Follows(plan, visit, n)
  BY <1>3 DEF Follows
<1>6. PaintsUpTo(plan, visit, n)
  BY <1>4, <1>5, FollowsPaints
<1>7. Closure(plan, visit)
  BY <1>3, <1>4, <1>6 DEF PaintsUpTo, Closure
<1> QED
  BY <1>1, <1>7

-----------------------------------------------------------------------------
(* What a visit without a hit has shown *)

Gray(plan, color) == {i \in IDs(plan) : color[i] = "gray"}
Black(plan, color) == {i \in IDs(plan) : color[i] = "black"}

\* The black nodes have a numbering above their dependencies, which are black.
Ranks(plan, color, rank) ==
    /\ rank \in [Black(plan, color) -> 1 .. Cardinality(Black(plan, color))]
    /\ \A i \in Black(plan, color) : \A d \in Range(DepsOf(plan, i)) :
          d \in Black(plan, color) /\ rank[d] < rank[i]

Ranked(plan, color) == \E rank : Ranks(plan, color, rank)

\* The visit of ids that took the colours from color to found.
Explored(plan, color, ids, found) ==
    /\ Gray(plan, found) = Gray(plan, color)
    /\ Black(plan, color) \subseteq Black(plan, found)
    /\ ids \subseteq Black(plan, found)
    /\ Ranked(plan, color) => Ranked(plan, found)

\* A visit that returns without a hit has explored its id.
Explores(plan, visit, color) ==
    \A id \in IDs(plan) : visit[<<color, id>>].hit = 0 =>
       Explored(plan, color, {id}, visit[<<color, id>>].color)

LEMMA VisitAllExplores ==
    ASSUME NEW plan \in Seq(Nodes), NEW visit, Closure(plan, visit), NEW color \in Colors,
           NEW ids \in Seq(IDs(plan)),
           \A c \in Colors : White(plan, c) \subseteq White(plan, color) => Explores(plan, visit, c)
    PROVE  LET r == VisitAll(visit, color, ids)
           IN  r.hit = 0 => Explored(plan, color, Range(ids), r.color)
<1> DEFINE n == Len(ids)
<1>0. n \in Nat /\ DOMAIN ids = 1 .. n /\ IDs(plan) \subseteq NodeIDs /\ \A k \in 1 .. n : ids[k] \in IDs(plan)
  BY PlanNodes
<1>1. PICK after : VisitsDone(after, visit, color, ids)
  BY VisitAllUnfolds
<1> DEFINE P == {k \in 0 .. n : /\ after[k] \in Found
                                /\ White(plan, after[k].color) \subseteq White(plan, color)
                                /\ after[k].hit = 0 =>
                                      Explored(plan, color, {ids[j] : j \in 1 .. k}, after[k].color)}
<1>2. 0 \in P
  <2>1. after[0] \in Found /\ after[0].color = color
    BY <1>1, PlannerAssumption DEF Found, VisitsDone
  <2>2. {ids[j] : j \in 1 .. 0} = {}
    OBVIOUS
  <2>3. Explored(plan, color, {}, color)
    BY DEF Explored
  <2>4. Explored(plan, color, {ids[j] : j \in 1 .. 0}, after[0].color)
    BY <2>1, <2>2, <2>3
  <2>5. 0 \in 0 .. n /\ White(plan, after[0].color) \subseteq White(plan, color)
    BY <1>0, <2>1
  <2> QED
    BY <2>1, <2>4, <2>5
<1>3. ASSUME NEW k \in 0 .. n - 1, k \in P PROVE k + 1 \in P
  <2>1. k + 1 \in 1 .. n /\ k + 1 \in 0 .. n /\ k + 1 - 1 = k
    BY <1>0
  <2> DEFINE c == after[k].color
             r == visit[<<c, ids[k + 1]>>]
  <2>2. after[k + 1] = IF after[k].hit # 0 THEN after[k] ELSE r
    BY <1>1, <2>1 DEF VisitsDone
  <2>3. /\ ids[k + 1] \in IDs(plan) /\ ids[k + 1] \in NodeIDs /\ c \in Colors
        /\ White(plan, c) \subseteq White(plan, color) /\ after[k] \in Found
        /\ after[k].hit = 0 => Explored(plan, color, {ids[j] : j \in 1 .. k}, c)
    BY <1>0, <1>3, <2>1 DEF Found
  <2>4. r \in Found /\ White(plan, r.color) \subseteq White(plan, c)
    BY <2>3 DEF Closure, Paints
  <2>5. r.hit = 0 => Explored(plan, c, {ids[k + 1]}, r.color)
    BY <2>3 DEF Explores
  <2> HIDE DEF c, r
  <2>6. CASE after[k].hit # 0
    BY <1>3, <2>1, <2>2, <2>6
  <2>7. CASE after[k].hit = 0
    <3>1. after[k + 1] = r
      BY <2>2, <2>7
    <3>2. r.hit = 0 => Explored(plan, color, {ids[j] : j \in 1 .. k + 1}, r.color)
      <4>1. \A j \in 1 .. k + 1 : j \in 1 .. k \/ j = k + 1
        BY <2>1
      <4>2. {ids[j] : j \in 1 .. k + 1} = {ids[j] : j \in 1 .. k} \cup {ids[k + 1]}
        BY <2>1, <4>1
      <4> QED
        BY <2>3, <2>5, <2>7, <4>2 DEF Explored
    <3> QED
      BY <2>1, <2>3, <2>4, <3>1, <3>2
  <2> QED
    BY <2>6, <2>7
<1> HIDE DEF P
<1>4. 0 .. n \subseteq P
  BY <1>0, <1>2, <1>3, CountUp
<1>5. n \in P
  BY <1>0, <1>4
<1>6. Range(ids) = {ids[j] : j \in 1 .. n}
  BY <1>0 DEF Range
<1> QED
  BY <1>1, <1>5, <1>6 DEF P, VisitsDone

\* A node goes black above everything that is.
LEMMA BlackenRanked ==
    ASSUME NEW plan, Formed(plan), NEW color \in Colors, NEW id \in IDs(plan), color[id] = "gray",
           Range(DepsOf(plan, id)) \subseteq Black(plan, color), Ranked(plan, color)
    PROVE  Ranked(plan, [color EXCEPT ![id] = "black"])
<1> DEFINE c == [color EXCEPT ![id] = "black"]
           B == Black(plan, color)
           N == Cardinality(B)
<1>0. IDs(plan) \subseteq NodeIDs /\ IsFiniteSet(IDs(plan))
  BY PlanNodes DEF Formed
<1>1. B \subseteq IDs(plan) /\ id \notin B /\ Black(plan, c) = B \cup {id}
  BY <1>0 DEF Black, Colors
<1>2. IsFiniteSet(B) /\ N \in Nat /\ Cardinality(B \cup {id}) = N + 1
  <2>1. IsFiniteSet(B)
    BY <1>0, <1>1, FS_Subset
  <2> QED
    BY <1>1, <2>1, FS_CardinalityType, FS_AddElement
<1>3. PICK rank : Ranks(plan, color, rank)
  BY DEF Ranked
<1> HIDE DEF c, B, N
<1>4. /\ rank \in [B -> 1 .. N]
      /\ \A i \in B : \A d \in Range(DepsOf(plan, i)) : d \in B /\ rank[d] < rank[i]
  BY <1>3 DEF Ranks, B, N
<1> DEFINE new == [i \in B \cup {id} |-> IF i = id THEN N + 1 ELSE rank[i]]
<1>5. new \in [B \cup {id} -> 1 .. N + 1]
  <2>1. \A i \in B : rank[i] \in 1 .. N + 1
    BY <1>2, <1>4
  <2>2. N + 1 \in 1 .. N + 1
    BY <1>2
  <2> QED
    BY <2>1, <2>2
<1>6. ASSUME NEW i \in B \cup {id}, NEW d \in Range(DepsOf(plan, i))
      PROVE  d \in B \cup {id} /\ new[d] < new[i]
  <2>1. CASE i = id
    <3>1. d \in B /\ d # id
      BY <1>1, <1>6, <2>1 DEF B
    <3>2. new[d] = rank[d] /\ new[i] = N + 1 /\ rank[d] \in 1 .. N
      BY <1>4, <2>1, <3>1
    <3> QED
      BY <1>2, <3>1, <3>2
  <2>2. CASE i # id
    <3>1. i \in B /\ d \in B /\ d # id /\ rank[d] < rank[i]
      BY <1>1, <1>4, <1>6, <2>2
    <3> QED
      BY <2>2, <3>1
  <2> QED
    BY <2>1, <2>2
<1> HIDE DEF new
<1>7. Ranks(plan, c, new)
  BY <1>1, <1>2, <1>5, <1>6 DEF Ranks
<1> QED
  BY <1>7 DEF Ranked, c

LEMMA VisitOneExplores ==
    ASSUME NEW plan, Formed(plan), NEW visit, Closure(plan, visit), NEW color \in Colors,
           NEW id \in IDs(plan),
           \A c \in Colors : Whites(plan, c) < Whites(plan, color) => Explores(plan, visit, c)
    PROVE  visit[<<color, id>>].hit = 0 => Explored(plan, color, {id}, visit[<<color, id>>].color)
<1> DEFINE g == Grayed(color, id)
           deps == DepsOf(plan, id)
           r == VisitAll(visit, g, deps)
           one == visit[<<color, id>>]
<1>0. plan \in Seq(Nodes) /\ id \in NodeIDs /\ IDs(plan) \subseteq NodeIDs /\ id # 0
  BY PlanNodes DEF Formed
<1>1. /\ color[id] = "gray" => one = [hit |-> id, color |-> color]
      /\ color[id] = "black" => one = [hit |-> 0, color |-> color]
      /\ color[id] = "white" =>
            /\ r.hit # 0 => one = r
            /\ r \in Found /\ r.hit = 0 => one = [hit |-> 0, color |-> [r.color EXCEPT ![id] = "black"]]
      /\ color[id] \in {"white", "gray", "black"}
  <2>1. one = VisitOne(plan, visit, color, id)
    BY <1>0 DEF Closure
  <2> QED
    BY <1>0, <2>1, VisitCases
<1>2. CASE color[id] = "gray"
  BY <1>0, <1>1, <1>2
<1>3. CASE color[id] = "black"
  <2>1. one.color = color /\ id \in Black(plan, color)
    BY <1>1, <1>3 DEF Black
  <2> QED
    BY <2>1 DEF Explored
<1>4. CASE color[id] = "white"
  <2>1. g \in Colors
    BY <1>0, <1>4, GrayedType
  <2>2. deps \in Seq(IDs(plan)) /\ deps \in Seq(NodeIDs)
    BY <1>0, DepsInPlan, DepsOfAny
  <2>3. \A c \in Colors : White(plan, c) \subseteq White(plan, g) => Explores(plan, visit, c)
    BY <1>0, <1>4, FewerWhites
  <2>4. \A c \in Colors : White(plan, c) \subseteq White(plan, g) => Paints(plan, visit, c)
    BY DEF Closure
  <2>5. /\ Gray(plan, g) = Gray(plan, color) \cup {id} /\ id \notin Gray(plan, color)
        /\ Black(plan, g) = Black(plan, color)
    BY <1>0, <1>4 DEF Gray, Black, Grayed, Colors
  <2> HIDE DEF g, deps
  <2>6. r \in Found
    BY <2>1, <2>2, <2>4, VisitAllPaints
  <2>7. r.hit = 0 => Explored(plan, g, Range(deps), r.color)
    BY <1>0, <2>1, <2>2, <2>3, VisitAllExplores
  <2> HIDE DEF r
  <2>8. CASE r.hit # 0
    BY <1>1, <1>4, <2>8
  <2>9. CASE r.hit = 0
    <3> DEFINE c == [r.color EXCEPT ![id] = "black"]
    <3>1. one.color = c /\ r.color \in Colors
      BY <1>1, <1>4, <2>6, <2>9 DEF Found
    <3>2. /\ Gray(plan, r.color) = Gray(plan, g) /\ Black(plan, g) \subseteq Black(plan, r.color)
          /\ Range(deps) \subseteq Black(plan, r.color)
          /\ Ranked(plan, g) => Ranked(plan, r.color)
      BY <2>7, <2>9 DEF Explored
    <3>3. Ranked(plan, color) => Ranked(plan, g)
      BY <2>5 DEF Ranked, Ranks
    <3>4. r.color[id] = "gray"
      BY <2>5, <3>2 DEF Gray
    <3>5. Gray(plan, c) = Gray(plan, r.color) \ {id} /\ Black(plan, c) = Black(plan, r.color) \cup {id}
      BY <1>0, <3>1 DEF Gray, Black, Colors
    <3>6. Gray(plan, c) = Gray(plan, color)
      BY <2>5, <3>2, <3>5
    <3>7. Ranked(plan, color) => Ranked(plan, c)
      BY <3>1, <3>2, <3>3, <3>4, BlackenRanked DEF deps
    <3> HIDE DEF c
    <3>8. Explored(plan, color, {id}, c)
      BY <2>5, <3>2, <3>5, <3>6, <3>7 DEF Explored
    <3> QED
      BY <3>1, <3>8
  <2> QED
    BY <2>8, <2>9
<1> QED
  BY <1>1, <1>2, <1>3, <1>4

LEMMA ClosureExplores ==
    ASSUME NEW plan, Formed(plan), NEW visit, Closure(plan, visit)
    PROVE  \A color \in Colors : Explores(plan, visit, color)
<1> DEFINE n == Cardinality(IDs(plan)) + 1
           P == {m \in 0 .. n : \A color \in Colors : Whites(plan, color) < m => Explores(plan, visit, color)}
<1>0. /\ plan \in Seq(Nodes) /\ n \in Nat
      /\ \A c \in Colors : Whites(plan, c) \in Nat /\ Whites(plan, c) < n
  <2>1. plan \in Seq(Nodes) /\ IsFiniteSet(IDs(plan)) /\ Cardinality(IDs(plan)) \in Nat
    BY PlanNodes, FS_CardinalityType DEF Formed
  <2>2. \A c \in Colors : Whites(plan, c) \in Nat /\ Whites(plan, c) <= Cardinality(IDs(plan))
    BY <2>1, FewerWhites
  <2> QED
    BY <2>1, <2>2
<1> HIDE DEF n
<1>1. 0 \in P
  BY <1>0
<1>2. ASSUME NEW m \in 0 .. n - 1, m \in P PROVE m + 1 \in P
  <2>1. ASSUME NEW color \in Colors, Whites(plan, color) < m + 1 PROVE Explores(plan, visit, color)
    <3>1. \A c \in Colors : Whites(plan, c) < Whites(plan, color) => Explores(plan, visit, c)
      BY <1>0, <1>2, <2>1
    <3> QED
      BY <3>1, VisitOneExplores DEF Explores
  <2> QED
    BY <1>0, <2>1
<1> HIDE DEF P
<1>3. 0 .. n \subseteq P
  BY <1>0, <1>1, <1>2, CountUp
<1>4. n \in P
  BY <1>0, <1>3
<1> QED
  BY <1>0, <1>4 DEF P

-----------------------------------------------------------------------------
(* A numbering above the dependencies keeps visits from hits *)

Above(plan, rank) ==
    /\ rank \in [IDs(plan) -> Nat]
    /\ \A i \in IDs(plan) : \A d \in Range(DepsOf(plan, i)) : rank[d] < rank[i]

\* A node below all gray ones is visited without a hit.
Quiet(plan, visit, rank, color) ==
    \A id \in IDs(plan) : (\A g \in Gray(plan, color) : rank[id] < rank[g]) =>
       visit[<<color, id>>].hit = 0

LEMMA VisitAllQuiet ==
    ASSUME NEW plan, Formed(plan), NEW visit, Closure(plan, visit), NEW rank,
           NEW color \in Colors, NEW ids \in Seq(IDs(plan)),
           \A c \in Colors : White(plan, c) \subseteq White(plan, color) => Quiet(plan, visit, rank, c),
           \A k \in 1 .. Len(ids) : \A g \in Gray(plan, color) : rank[ids[k]] < rank[g]
    PROVE  VisitAll(visit, color, ids).hit = 0
<1> DEFINE n == Len(ids)
<1>0. /\ n \in Nat /\ DOMAIN ids = 1 .. n /\ IDs(plan) \subseteq NodeIDs
      /\ \A k \in 1 .. n : ids[k] \in IDs(plan)
  BY PlanNodes DEF Formed
<1>1. PICK after : VisitsDone(after, visit, color, ids)
  BY VisitAllUnfolds
<1>2. \A c \in Colors : Explores(plan, visit, c)
  BY ClosureExplores
<1> DEFINE P == {k \in 0 .. n : /\ after[k] \in Found /\ after[k].hit = 0
                                /\ White(plan, after[k].color) \subseteq White(plan, color)
                                /\ Gray(plan, after[k].color) = Gray(plan, color)}
<1>3. 0 \in P
  <2>1. after[0] \in Found /\ after[0].color = color /\ after[0].hit = 0
    BY <1>1, PlannerAssumption DEF Found, VisitsDone
  <2> QED
    BY <1>0, <2>1
<1>4. ASSUME NEW k \in 0 .. n - 1, k \in P PROVE k + 1 \in P
  <2>1. k + 1 \in 1 .. n /\ k + 1 \in 0 .. n /\ k + 1 - 1 = k
    BY <1>0
  <2> DEFINE c == after[k].color
             r == visit[<<c, ids[k + 1]>>]
  <2>2. after[k + 1] = r
    BY <1>1, <1>4, <2>1 DEF VisitsDone
  <2>3. /\ ids[k + 1] \in IDs(plan) /\ ids[k + 1] \in NodeIDs /\ c \in Colors
        /\ White(plan, c) \subseteq White(plan, color) /\ Gray(plan, c) = Gray(plan, color)
    BY <1>0, <1>4, <2>1 DEF Found
  <2>4. r \in Found /\ White(plan, r.color) \subseteq White(plan, c)
    BY <2>3 DEF Closure, Paints
  <2>5. r.hit = 0
    <3>1. \A g \in Gray(plan, c) : rank[ids[k + 1]] < rank[g]
      BY <2>1, <2>3
    <3>2. Quiet(plan, visit, rank, c)
      BY <2>3
    <3> QED
      BY <2>3, <3>1, <3>2 DEF Quiet
  <2>6. Gray(plan, r.color) = Gray(plan, c)
    BY <1>2, <2>3, <2>5 DEF Explores, Explored
  <2> HIDE DEF c, r
  <2> QED
    BY <2>1, <2>2, <2>3, <2>4, <2>5, <2>6
<1> HIDE DEF P
<1>5. 0 .. n \subseteq P
  BY <1>0, <1>3, <1>4, CountUp
<1>6. n \in P
  BY <1>0, <1>5
<1> QED
  BY <1>1, <1>6 DEF P, VisitsDone

LEMMA VisitOneQuiet ==
    ASSUME NEW plan, Formed(plan), NEW visit, Closure(plan, visit), NEW rank, Above(plan, rank),
           NEW color \in Colors, NEW id \in IDs(plan),
           \A g \in Gray(plan, color) : rank[id] < rank[g],
           \A c \in Colors : Whites(plan, c) < Whites(plan, color) => Quiet(plan, visit, rank, c)
    PROVE  visit[<<color, id>>].hit = 0
<1> DEFINE g == Grayed(color, id)
           deps == DepsOf(plan, id)
           r == VisitAll(visit, g, deps)
           one == visit[<<color, id>>]
<1>0. /\ plan \in Seq(Nodes) /\ id \in NodeIDs /\ IDs(plan) \subseteq NodeIDs
      /\ \A i \in IDs(plan) : rank[i] \in Nat
  BY PlanNodes DEF Formed, Above
<1>1. /\ color[id] = "black" => one = [hit |-> 0, color |-> color]
      /\ color[id] = "white" =>
            /\ r \in Found /\ r.hit = 0 => one = [hit |-> 0, color |-> [r.color EXCEPT ![id] = "black"]]
      /\ color[id] \in {"white", "gray", "black"}
  <2>1. one = VisitOne(plan, visit, color, id)
    BY <1>0 DEF Closure
  <2> QED
    BY <1>0, <2>1, VisitCases
<1>2. color[id] # "gray"
  BY <1>0 DEF Gray
<1>3. CASE color[id] = "black"
  BY <1>1, <1>3
<1>4. CASE color[id] = "white"
  <2>1. g \in Colors
    BY <1>0, <1>4, GrayedType
  <2>2. deps \in Seq(IDs(plan)) /\ deps \in Seq(NodeIDs) /\ Range(deps) \subseteq IDs(plan)
    BY <1>0, DepsInPlan, DepsOfAny
  <2>3. \A c \in Colors : White(plan, c) \subseteq White(plan, g) => Quiet(plan, visit, rank, c)
    BY <1>0, <1>4, FewerWhites
  <2>4. \A c \in Colors : White(plan, c) \subseteq White(plan, g) => Paints(plan, visit, c)
    BY DEF Closure
  <2>5. Gray(plan, g) = Gray(plan, color) \cup {id}
    BY <1>0, <1>4 DEF Gray, Grayed, Colors
  <2>6. \A k \in 1 .. Len(deps) : deps[k] \in IDs(plan) /\ rank[deps[k]] < rank[id]
    <3>1. \A k \in 1 .. Len(deps) : deps[k] \in Range(deps)
      BY <2>2 DEF Range
    <3> QED
      BY <2>2, <3>1 DEF Above
  <2> HIDE DEF g, deps
  <2>7. \A k \in 1 .. Len(deps) : \A q \in Gray(plan, g) : rank[deps[k]] < rank[q]
    <3> SUFFICES ASSUME NEW k \in 1 .. Len(deps), NEW q \in Gray(plan, g)
                 PROVE  rank[deps[k]] < rank[q]
      OBVIOUS
    <3>1. rank[deps[k]] \in Nat /\ rank[id] \in Nat /\ rank[q] \in Nat /\ rank[deps[k]] < rank[id]
      BY <1>0, <2>6 DEF Gray
    <3>2. q = id \/ rank[id] < rank[q]
      BY <2>5
    <3> QED
      BY <3>1, <3>2
  <2>8. r \in Found
    BY <2>1, <2>2, <2>4, VisitAllPaints
  <2>9. r.hit = 0
    BY <2>1, <2>2, <2>3, <2>7, VisitAllQuiet
  <2> HIDE DEF r
  <2> QED
    BY <1>1, <1>4, <2>8, <2>9
<1> QED
  BY <1>1, <1>2, <1>3, <1>4

LEMMA ClosureQuiet ==
    ASSUME NEW plan, Formed(plan), NEW visit, Closure(plan, visit), NEW rank, Above(plan, rank)
    PROVE  \A color \in Colors : Quiet(plan, visit, rank, color)
<1> DEFINE n == Cardinality(IDs(plan)) + 1
           P == {m \in 0 .. n : \A color \in Colors : Whites(plan, color) < m => Quiet(plan, visit, rank, color)}
<1>0. /\ plan \in Seq(Nodes) /\ n \in Nat
      /\ \A c \in Colors : Whites(plan, c) \in Nat /\ Whites(plan, c) < n
  <2>1. plan \in Seq(Nodes) /\ IsFiniteSet(IDs(plan)) /\ Cardinality(IDs(plan)) \in Nat
    BY PlanNodes, FS_CardinalityType DEF Formed
  <2>2. \A c \in Colors : Whites(plan, c) \in Nat /\ Whites(plan, c) <= Cardinality(IDs(plan))
    BY <2>1, FewerWhites
  <2> QED
    BY <2>1, <2>2
<1> HIDE DEF n
<1>1. 0 \in P
  BY <1>0
<1>2. ASSUME NEW m \in 0 .. n - 1, m \in P PROVE m + 1 \in P
  <2>1. ASSUME NEW color \in Colors, Whites(plan, color) < m + 1 PROVE Quiet(plan, visit, rank, color)
    <3>1. \A c \in Colors : Whites(plan, c) < Whites(plan, color) => Quiet(plan, visit, rank, c)
      BY <1>0, <1>2, <2>1
    <3> QED
      BY <3>1, VisitOneQuiet DEF Quiet
  <2> QED
    BY <1>0, <2>1
<1> HIDE DEF P
<1>3. 0 .. n \subseteq P
  BY <1>0, <1>1, <1>2, CountUp
<1>4. n \in P
  BY <1>0, <1>3
<1> QED
  BY <1>0, <1>4 DEF P

-----------------------------------------------------------------------------
(* Validate *)

LEMMA AcyclicMeans ==
    ASSUME NEW plan, Formed(plan)
    PROVE  Acyclic(plan) <=> \E rank \in [IDs(plan) -> 1 .. Len(plan)] :
              \A i \in IDs(plan) : \A d \in Range(DepsOf(plan, i)) : rank[d] < rank[i]
<1>1. DOMAIN plan = 1 .. Len(plan)
  BY PlanNodes DEF Formed
<1>2. \A k \in DOMAIN plan : DepsOf(plan, plan[k].id) = plan[k].deps
  BY <1>1, DepsOfNode
<1>3. ASSUME NEW rank
      PROVE  (\A k \in DOMAIN plan : \A d \in Range(plan[k].deps) : rank[d] < rank[plan[k].id])
             <=> (\A i \in IDs(plan) : \A d \in Range(DepsOf(plan, i)) : rank[d] < rank[i])
  BY <1>2 DEF IDs
<1> QED
  BY <1>3 DEF Acyclic

\* The search for a cycle finds one if there is one, whatever the plan.
THEOREM FindCycleIsExact ==
    ASSUME NEW plan, Formed(plan)
    PROVE  findCycle(plan) = 0 <=> Acyclic(plan)
<1> DEFINE ids == IDList(plan)
           n == Len(plan)
<1>0. /\ plan \in Seq(Nodes) /\ n \in Nat /\ DOMAIN plan = 1 .. n
      /\ IDs(plan) \subseteq NodeIDs /\ IsFiniteSet(IDs(plan))
  BY PlanNodes DEF Formed
<1>1. ids \in Seq(IDs(plan)) /\ Len(ids) = n /\ \A k \in 1 .. n : ids[k] = plan[k].id
  <2>1. \A k \in 1 .. n : plan[k].id \in IDs(plan)
    BY <1>0, PlanNodes
  <2> QED
    BY <1>0, <2>1 DEF IDList
<1>2. Range(ids) = IDs(plan)
  BY <1>0, <1>1 DEF Range, IDs, IDList
<1>3. PICK visit : Closure(plan, visit) /\ findCycle(plan) = VisitAll(visit, AllWhite, ids).hit
  BY <1>0, FindCycleUnfolds
<1>4. /\ AllWhite \in Colors /\ Gray(plan, AllWhite) = {} /\ Black(plan, AllWhite) = {}
  BY <1>0 DEF AllWhite, Colors, Gray, Black
<1> HIDE DEF ids, n
<1>5. ASSUME findCycle(plan) = 0 PROVE Acyclic(plan)
  <2> DEFINE c == VisitAll(visit, AllWhite, ids).color
  <2>1. \A color \in Colors : Explores(plan, visit, color)
    BY <1>3, ClosureExplores
  <2>2. Explored(plan, AllWhite, Range(ids), c)
    BY <1>0, <1>1, <1>3, <1>4, <1>5, <2>1, VisitAllExplores
  <2> HIDE DEF c
  <2>3. Ranked(plan, AllWhite)
    <3> DEFINE rank == [i \in {} |-> 0]
    <3>1. rank \in [{} -> 1 .. Cardinality({})]
      OBVIOUS
    <3>2. Ranks(plan, AllWhite, rank)
      BY <1>4, <3>1 DEF Ranks
    <3> QED
      BY <3>2 DEF Ranked
  <2>4. Black(plan, c) = IDs(plan)
    BY <1>2, <2>2 DEF Explored, Black
  <2>5. PICK rank : Ranks(plan, c, rank)
    BY <2>2, <2>3 DEF Explored, Ranked
  <2>6. /\ rank \in [IDs(plan) -> 1 .. Cardinality(IDs(plan))]
        /\ \A i \in IDs(plan) : \A d \in Range(DepsOf(plan, i)) : rank[d] < rank[i]
    BY <2>4, <2>5 DEF Ranks
  <2>7. Cardinality(IDs(plan)) \in Nat /\ Cardinality(IDs(plan)) <= n
    <3>1. IsFiniteSet(1 .. n) /\ Cardinality(1 .. n) = n
      BY <1>0, FS_Interval
    <3>2. ids \in Surjection(1 .. n, IDs(plan))
      BY <1>1, <1>2 DEF Surjection, Range
    <3> QED
      BY <1>0, <3>1, <3>2, FS_Surjection, FS_CardinalityType
  <2>8. rank \in [IDs(plan) -> 1 .. n]
    BY <1>0, <2>6, <2>7
  <2> QED
    BY <2>6, <2>8, AcyclicMeans DEF n
<1>6. ASSUME Acyclic(plan) PROVE findCycle(plan) = 0
  <2>1. PICK rank \in [IDs(plan) -> 1 .. n] :
           \A i \in IDs(plan) : \A d \in Range(DepsOf(plan, i)) : rank[d] < rank[i]
    BY <1>6, AcyclicMeans DEF n
  <2>2. Above(plan, rank)
    <3>1. rank \in [IDs(plan) -> Nat]
      BY <1>0, <2>1
    <3> QED
      BY <2>1, <3>1 DEF Above
  <2>3. \A color \in Colors : Quiet(plan, visit, rank, color)
    BY <1>3, <2>2, ClosureQuiet
  <2>4. VisitAll(visit, AllWhite, ids).hit = 0
    BY <1>1, <1>3, <1>4, <2>3, VisitAllQuiet
  <2> QED
    BY <1>3, <2>4
<1> QED
  BY <1>5, <1>6

\* Validate accepts exactly the well-formed plans: the six error returns of the
\* code, in their order, leave nothing else.
THEOREM ValidateIsExact ==
    ASSUME NEW plan \in Seq(Nodes)
    PROVE  Validate(plan) = "nil" <=> WellFormed(plan)
<1>0. DOMAIN plan = 1 .. Len(plan) /\ Len(plan) \in Nat
  BY PlanNodes
<1> DEFINE E1 == plan = <<>>
           E2 == \E k \in DOMAIN plan : \/ plan[k].id = 0 \/ ~plan[k].prompt
                                        \/ \E j \in 1 .. (k - 1) : plan[j].id = plan[k].id
           E3 == \E k \in DOMAIN plan :
                    ~(Range(plan[k].deps) \subseteq IDs(plan) \ {plan[k].id})
           E4 == findCycle(plan) # 0
<1>1. Validate(plan) = "nil" <=> ~E1 /\ ~E2 /\ ~E3 /\ ~E4
  <2>1. Validate(plan) = IF E1 THEN "empty" ELSE IF E2 THEN "node" ELSE IF E3 THEN "dep"
                         ELSE IF E4 THEN "cycle" ELSE "nil"
    BY DEF Validate
  <2> HIDE DEF E1, E2, E3, E4
  <2> QED
    BY <2>1
<1>2. ASSUME ~E1, ~E2, ~E3, ~E4 PROVE WellFormed(plan)
  <2>1. 0 \notin IDs(plan) /\ \A k \in DOMAIN plan : plan[k].prompt /\ Range(plan[k].deps) \subseteq IDs(plan)
    BY <1>2 DEF IDs
  <2>2. ASSUME NEW j \in DOMAIN plan, NEW k \in DOMAIN plan, plan[j].id = plan[k].id PROVE j = k
    <3>1. ~(j < k) /\ ~(k < j)
      BY <1>0, <1>2, <2>2
    <3> QED
      BY <1>0, <3>1
  <2>3. Formed(plan)
    BY <2>1, <2>2 DEF Formed
  <2>4. Acyclic(plan)
    BY <1>2, <2>3, FindCycleIsExact
  <2> QED
    BY <1>2, <2>1, <2>2, <2>4 DEF WellFormed
<1>3. ASSUME WellFormed(plan) PROVE ~E1 /\ ~E2 /\ ~E3 /\ ~E4
  <2>1. Formed(plan)
    BY <1>3 DEF WellFormed, Formed
  <2>2. ~E4
    BY <1>3, <2>1, FindCycleIsExact DEF WellFormed
  <2>3. ~E3
    <3>1. PICK rank \in [IDs(plan) -> 1 .. Len(plan)] :
             \A k \in DOMAIN plan : \A d \in Range(plan[k].deps) : rank[d] < rank[plan[k].id]
      BY <1>3 DEF WellFormed, Acyclic
    <3>2. ASSUME NEW k \in DOMAIN plan PROVE plan[k].id \notin Range(plan[k].deps)
      <4>1. plan[k].id \in IDs(plan)
        BY DEF IDs
      <4>2. rank[plan[k].id] \in Nat
        BY <1>0, <4>1
      <4> QED
        BY <3>1, <4>2
    <3> QED
      BY <2>1, <3>2 DEF Formed
  <2>4. ~E2
    <3> SUFFICES ASSUME NEW k \in DOMAIN plan
                 PROVE  /\ plan[k].id # 0 /\ plan[k].prompt
                        /\ ~\E j \in 1 .. (k - 1) : plan[j].id = plan[k].id
      OBVIOUS
    <3>1. plan[k].id # 0 /\ plan[k].prompt
      BY <1>3 DEF WellFormed, IDs
    <3>2. \A j \in 1 .. (k - 1) : j \in DOMAIN plan /\ j # k
      BY <1>0
    <3> QED
      BY <1>3, <3>1, <3>2 DEF WellFormed
  <2>5. ~E1
    BY <1>3 DEF WellFormed
  <2> QED
    BY <2>2, <2>3, <2>4, <2>5
<1> QED
  BY <1>1, <1>2, <1>3

-----------------------------------------------------------------------------
(* Sequences put together *)

\* s is the first n of the parts laid end to end, the k-th behind position off[k].
Offsets(s, parts, n, off) ==
    /\ off \in [1 .. n -> Nat]
    /\ \A k \in 1 .. n : \A j \in 1 .. Len(parts[k]) :
          off[k] + j \in 1 .. Len(s) /\ s[off[k] + j] = parts[k][j]
    /\ \A p \in 1 .. Len(s) : \E k \in 1 .. n : \E j \in 1 .. Len(parts[k]) : p = off[k] + j

Laid(s, parts, n, S) == s \in Seq(S) /\ \E off : Offsets(s, parts, n, off)

LEMMA LaidFurther ==
    ASSUME NEW S, NEW n \in Nat, NEW parts, \A k \in 1 .. n + 1 : parts[k] \in Seq(S),
           NEW s, Laid(s, parts, n, S)
    PROVE  Laid(s \o parts[n + 1], parts, n + 1, S)
<1> DEFINE t == parts[n + 1]
           u == s \o t
<1>1. PICK off : Offsets(s, parts, n, off)
  BY DEF Laid
<1>2. s \in Seq(S) /\ t \in Seq(S) /\ Len(s) \in Nat /\ Len(t) \in Nat
  BY DEF Laid
<1>3. /\ u \in Seq(S) /\ Len(u) = Len(s) + Len(t)
      /\ \A p \in 1 .. Len(s) : u[p] = s[p]
      /\ \A j \in 1 .. Len(t) : u[Len(s) + j] = t[j]
  BY <1>2
<1> DEFINE new == [k \in 1 .. n + 1 |-> IF k = n + 1 THEN Len(s) ELSE off[k]]
<1>4. off \in [1 .. n -> Nat] /\ \A k \in 1 .. n + 1 : k \in 1 .. n \/ k = n + 1
  BY <1>1 DEF Offsets
<1>5. new \in [1 .. n + 1 -> Nat] /\ new[n + 1] = Len(s) /\ \A k \in 1 .. n : new[k] = off[k] /\ k \in 1 .. n + 1
  BY <1>2, <1>4
<1>6. ASSUME NEW k \in 1 .. n + 1, NEW j \in 1 .. Len(parts[k])
      PROVE  new[k] + j \in 1 .. Len(u) /\ u[new[k] + j] = parts[k][j]
  <2>1. CASE k = n + 1
    BY <1>2, <1>3, <1>5, <2>1
  <2>2. CASE k \in 1 .. n
    <3>1. off[k] + j \in 1 .. Len(s) /\ s[off[k] + j] = parts[k][j]
      BY <1>1, <2>2 DEF Offsets
    <3> QED
      BY <1>2, <1>3, <1>5, <2>2, <3>1
  <2> QED
    BY <1>4, <2>1, <2>2
<1>7. ASSUME NEW p \in 1 .. Len(u)
      PROVE  \E k \in 1 .. n + 1 : \E j \in 1 .. Len(parts[k]) : p = new[k] + j
  <2>1. CASE p \in 1 .. Len(s)
    <3>1. PICK k \in 1 .. n : \E j \in 1 .. Len(parts[k]) : p = off[k] + j
      BY <1>1, <2>1 DEF Offsets
    <3> QED
      BY <1>5, <3>1
  <2>2. CASE p \notin 1 .. Len(s)
    <3>1. p - Len(s) \in 1 .. Len(t) /\ p = Len(s) + (p - Len(s)) /\ n + 1 \in 1 .. n + 1
      BY <1>2, <1>3, <2>2
    <3> QED
      BY <1>5, <3>1
  <2> QED
    BY <2>1, <2>2
<1> HIDE DEF u, new
<1>8. Offsets(u, parts, n + 1, new)
  BY <1>5, <1>6, <1>7 DEF Offsets
<1> QED
  BY <1>3, <1>8 DEF Laid, u

\* The loop of FlattenSeq, for its first n parts.
Flattens(f, parts, n) == f = [i \in 1 .. n |-> IF i = 1 THEN parts[i] ELSE f[i - 1] \o parts[i]]

LEMMA FlattensExist ==
    ASSUME NEW parts, NEW n \in Nat
    PROVE  \E f : Flattens(f, parts, n)
<1> DEFINE P == {k \in 0 .. n : \E f : Flattens(f, parts, k)}
<1>1. 0 \in P
  <2> DEFINE f == [i \in 1 .. 0 |-> <<>>]
  <2>1. Flattens(f, parts, 0)
    BY DEF Flattens
  <2> QED
    BY <2>1
<1>2. ASSUME NEW k \in 0 .. n - 1, k \in P PROVE k + 1 \in P
  <2>1. PICK f : Flattens(f, parts, k)
    BY <1>2
  <2> DEFINE next == IF k = 0 THEN parts[1] ELSE f[k] \o parts[k + 1]
             u == [i \in 1 .. k + 1 |-> IF i = k + 1 THEN next ELSE f[i]]
  <2>2. \A i \in 1 .. k + 1 : u[i] = IF i = 1 THEN parts[i] ELSE u[i - 1] \o parts[i]
    <3> SUFFICES ASSUME NEW i \in 1 .. k + 1
                 PROVE  u[i] = IF i = 1 THEN parts[i] ELSE u[i - 1] \o parts[i]
      OBVIOUS
    <3>1. CASE i = k + 1
      <4>1. i - 1 = k /\ u[i] = next /\ (k # 0 => u[i - 1] = f[k]) /\ (i = 1 <=> k = 0)
        BY <3>1
      <4> QED
        BY <3>1, <4>1
    <3>2. CASE i # k + 1
      <4>1. i \in 1 .. k /\ u[i] = f[i] /\ (i # 1 => i - 1 \in 1 .. k /\ u[i - 1] = f[i - 1])
        BY <3>2
      <4>2. f[i] = IF i = 1 THEN parts[i] ELSE f[i - 1] \o parts[i]
        BY <2>1, <4>1 DEF Flattens
      <4> QED
        BY <4>1, <4>2
    <3> QED
      BY <3>1, <3>2
  <2>3. Flattens(u, parts, k + 1)
    BY <2>2 DEF Flattens
  <2>4. k + 1 \in 0 .. n
    OBVIOUS
  <2> QED
    BY <2>3, <2>4
<1> HIDE DEF P
<1>3. 0 .. n \subseteq P
  BY <1>1, <1>2, CountUp
<1>4. n \in P
  BY <1>3
<1> QED
  BY <1>4 DEF P

LEMMA FlattenSeqLays ==
    ASSUME NEW S, NEW parts \in Seq(Seq(S))
    PROVE  Laid(FlattenSeq(parts), parts, Len(parts), S)
<1> DEFINE n == Len(parts)
<1>0. n \in Nat /\ \A k \in 1 .. n : parts[k] \in Seq(S)
  OBVIOUS
<1>1. Laid(<<>>, parts, 0, S)
  <2> DEFINE off == [k \in 1 .. 0 |-> 0]
  <2>1. Offsets(<<>>, parts, 0, off)
    BY DEF Offsets
  <2>2. <<>> \in Seq(S)
    OBVIOUS
  <2> QED
    BY <2>1, <2>2 DEF Laid
<1>2. CASE n = 0
  <2>1. parts = <<>> /\ FlattenSeq(parts) = parts
    BY <1>2 DEF FlattenSeq
  <2> QED
    BY <1>1, <1>2, <2>1
<1>3. CASE n # 0
  <2>1. \E f : Flattens(f, parts, n) /\ FlattenSeq(parts) = f[n]
    <3>1. \E f : f = [i \in 1 .. n |-> IF i = 1 THEN parts[i] ELSE f[i - 1] \o parts[i]]
      BY <1>0, FlattensExist DEF Flattens
    <3> QED
      BY <1>3, <3>1 DEF FlattenSeq, Flattens
  <2> HIDE DEF n
  <2>2. PICK f : Flattens(f, parts, n) /\ FlattenSeq(parts) = f[n]
    BY <2>1
  <2>3. f[1] = parts[1] /\ \A k \in 1 .. n - 1 : f[k + 1] = f[k] \o parts[k + 1]
    <3>1. \A i \in 1 .. n : f[i] = IF i = 1 THEN parts[i] ELSE f[i - 1] \o parts[i]
      BY <2>2 DEF Flattens
    <3>2. 1 \in 1 .. n /\ \A k \in 1 .. n - 1 : k + 1 \in 1 .. n /\ k + 1 # 1 /\ k + 1 - 1 = k
      BY <1>0, <1>3
    <3>3. ASSUME NEW k \in 1 .. n - 1 PROVE f[k + 1] = f[k] \o parts[k + 1]
      <4> DEFINE m == k + 1
      <4>1. m \in 1 .. n /\ m # 1 /\ m - 1 = k
        BY <3>2
      <4> HIDE DEF m
      <4>2. f[m] = IF m = 1 THEN parts[m] ELSE f[m - 1] \o parts[m]
        BY <3>1, <4>1
      <4>3. f[m] = f[k] \o parts[m]
        BY <4>1, <4>2
      <4> QED
        BY <4>3 DEF m
    <3> QED
      BY <3>1, <3>2, <3>3
  <2> DEFINE P == {k \in 0 .. n - 1 : Laid(f[k + 1], parts, k + 1, S)}
  <2>4. 0 \in P
    <3>1. \A k \in 1 .. 0 + 1 : parts[k] \in Seq(S)
      BY <1>0, <1>3
    <3>2. Laid(<<>> \o parts[0 + 1], parts, 0 + 1, S)
      BY <1>1, <3>1, LaidFurther
    <3>3. <<>> \o parts[1] = parts[1]
      BY <1>0, <1>3
    <3> QED
      BY <1>0, <1>3, <2>3, <3>2, <3>3
  <2>5. ASSUME NEW k \in 0 .. (n - 1) - 1, k \in P PROVE k + 1 \in P
    <3>1. k + 1 \in Nat /\ k + 1 \in 1 .. n - 1 /\ \A i \in 1 .. (k + 1) + 1 : parts[i] \in Seq(S)
      BY <1>0
    <3>2. Laid(f[k + 1] \o parts[(k + 1) + 1], parts, (k + 1) + 1, S)
      BY <2>5, <3>1, LaidFurther
    <3>3. f[(k + 1) + 1] = f[k + 1] \o parts[(k + 1) + 1] /\ k + 1 \in 0 .. n - 1
      <4> DEFINE m == k + 1
      <4>1. m \in 1 .. n - 1 /\ m \in 0 .. n - 1
        BY <1>0, <3>1
      <4> HIDE DEF m
      <4>2. f[m + 1] = f[m] \o parts[m + 1]
        BY <2>3, <4>1
      <4> QED
        BY <4>1, <4>2 DEF m
    <3> QED
      BY <3>2, <3>3
  <2> HIDE DEF P
  <2>6. n - 1 \in Nat
    BY <1>0, <1>3
  <2>7. 0 .. n - 1 \subseteq P
    BY <2>4, <2>5, <2>6, CountUp
  <2>8. n - 1 \in P /\ (n - 1) + 1 = n
    <3>1. n - 1 \in 0 .. n - 1 /\ (n - 1) + 1 = n
      BY <1>0, <2>6
    <3> QED
      BY <2>7, <3>1
  <2> QED
    BY <2>2, <2>8 DEF P, n
<1> QED
  BY <1>2, <1>3

\* What is in it, and that it repeats nothing if the parts do not.
LEMMA FlattenSeqHolds ==
    ASSUME NEW S, NEW parts \in Seq(Seq(S))
    PROVE  /\ FlattenSeq(parts) \in Seq(S)
           /\ \A x : x \in Range(FlattenSeq(parts)) <=> \E k \in 1 .. Len(parts) : x \in Range(parts[k])
           /\ (/\ \A k \in 1 .. Len(parts) : IsInjective(parts[k])
               /\ \A k, l \in 1 .. Len(parts) : k # l => Range(parts[k]) \cap Range(parts[l]) = {})
              => IsInjective(FlattenSeq(parts))
<1> DEFINE s == FlattenSeq(parts)
           n == Len(parts)
<1>0. n \in Nat /\ \A k \in 1 .. n : parts[k] \in Seq(S) /\ DOMAIN parts[k] = 1 .. Len(parts[k])
  OBVIOUS
<1>1. Laid(s, parts, n, S)
  BY FlattenSeqLays
<1> HIDE DEF s, n
<1>2. s \in Seq(S) /\ DOMAIN s = 1 .. Len(s)
  BY <1>1 DEF Laid
<1>3. PICK off : Offsets(s, parts, n, off)
  BY <1>1 DEF Laid
<1>4. ASSUME NEW x \in Range(s) PROVE \E k \in 1 .. n : x \in Range(parts[k])
  <2>1. PICK p \in 1 .. Len(s) : x = s[p]
    BY <1>2, <1>4 DEF Range
  <2>2a. PICK k \in 1 .. n : \E j \in 1 .. Len(parts[k]) : p = off[k] + j
    BY <1>3 DEF Offsets
  <2>2. PICK j \in 1 .. Len(parts[k]) : p = off[k] + j
    BY <2>2a
  <2>3. x = parts[k][j]
    BY <1>3, <2>1, <2>2 DEF Offsets
  <2> QED
    BY <1>0, <2>3 DEF Range
<1>5. ASSUME NEW k \in 1 .. n, NEW x \in Range(parts[k]) PROVE x \in Range(s)
  <2>1. PICK j \in 1 .. Len(parts[k]) : x = parts[k][j]
    BY <1>0, <1>5 DEF Range
  <2>2. off[k] + j \in 1 .. Len(s) /\ s[off[k] + j] = x
    BY <1>3, <2>1 DEF Offsets
  <2> QED
    BY <1>2, <2>2 DEF Range
<1>6. ASSUME \A k \in 1 .. n : IsInjective(parts[k]),
             \A k, l \in 1 .. n : k # l => Range(parts[k]) \cap Range(parts[l]) = {}
      PROVE  IsInjective(s)
  <2> SUFFICES ASSUME NEW p \in 1 .. Len(s), NEW q \in 1 .. Len(s), s[p] = s[q]
               PROVE  p = q
    BY <1>2 DEF IsInjective
  <2>1a. PICK k \in 1 .. n : \E j \in 1 .. Len(parts[k]) : p = off[k] + j
    BY <1>3 DEF Offsets
  <2>1. PICK j \in 1 .. Len(parts[k]) : p = off[k] + j
    BY <2>1a
  <2>2a. PICK l \in 1 .. n : \E i \in 1 .. Len(parts[l]) : q = off[l] + i
    BY <1>3 DEF Offsets
  <2>2. PICK i \in 1 .. Len(parts[l]) : q = off[l] + i
    BY <2>2a
  <2>3. s[p] = parts[k][j] /\ s[q] = parts[l][i]
    BY <1>3, <2>1, <2>2 DEF Offsets
  <2>4. parts[k][j] \in Range(parts[k]) /\ parts[l][i] \in Range(parts[l])
    BY <1>0 DEF Range
  <2>5. k = l
    BY <1>6, <2>3, <2>4
  <2>6. j = i
    BY <1>0, <1>6, <2>3, <2>5 DEF IsInjective
  <2> QED
    BY <2>1, <2>2, <2>5, <2>6
<1> QED
  BY <1>2, <1>4, <1>5, <1>6 DEF s, n

-----------------------------------------------------------------------------
(* Roots *)

LEMMA SingleSeq ==
    ASSUME NEW S, NEW x \in S
    PROVE  <<x>> \in Seq(S) /\ Range(<<x>>) = {x} /\ IsInjective(<<x>>)
<1>1. DOMAIN <<x>> = {1} /\ <<x>>[1] = x /\ <<x>> \in Seq(S)
  OBVIOUS
<1> QED
  BY <1>1 DEF Range, IsInjective

LEMMA NoSeq ==
    ASSUME NEW S
    PROVE  <<>> \in Seq(S) /\ Range(<<>>) = {} /\ IsInjective(<<>>)
<1>1. DOMAIN <<>> = {} /\ <<>> \in Seq(S)
  OBVIOUS
<1> QED
  BY <1>1 DEF Range, IsInjective

\* Parts that hold at most the id of their own node share nothing.
LEMMA OwnParts ==
    ASSUME NEW plan, Formed(plan), NEW parts,
           \A k \in 1 .. Len(plan) : Range(parts[k]) \subseteq {plan[k].id}
    PROVE  \A k, l \in 1 .. Len(plan) : k # l => Range(parts[k]) \cap Range(parts[l]) = {}
<1>1. DOMAIN plan = 1 .. Len(plan)
  BY PlanNodes DEF Formed
<1>2. \A j, k \in 1 .. Len(plan) : plan[j].id = plan[k].id => j = k
  BY <1>1 DEF Formed
<1> SUFFICES ASSUME NEW k \in 1 .. Len(plan), NEW l \in 1 .. Len(plan), k # l,
                    NEW x \in Range(parts[k]) \cap Range(parts[l])
             PROVE  FALSE
  OBVIOUS
<1>3. x = plan[k].id /\ x = plan[l].id
  OBVIOUS
<1> QED
  BY <1>2, <1>3

RootParts(plan) == [k \in DOMAIN plan |-> IF plan[k].deps = <<>> THEN <<plan[k].id>> ELSE <<>>]

LEMMA RootsOf ==
    ASSUME NEW plan, Formed(plan)
    PROVE  /\ Roots(plan) \in Seq(IDs(plan))
           /\ \A x : x \in Range(Roots(plan)) <=> x \in IDs(plan) /\ DepsOf(plan, x) = <<>>
           /\ IsInjective(Roots(plan))
<1> DEFINE parts == RootParts(plan)
           n == Len(plan)
<1>0. /\ plan \in Seq(Nodes) /\ n \in Nat /\ DOMAIN plan = 1 .. n
      /\ \A k \in 1 .. n : plan[k].id \in IDs(plan)
  BY PlanNodes DEF Formed
<1>1. \A k \in 1 .. n : parts[k] = IF plan[k].deps = <<>> THEN <<plan[k].id>> ELSE <<>>
  BY <1>0 DEF RootParts
<1>2. parts = [k \in 1 .. n |-> parts[k]] /\ Roots(plan) = FlattenSeq(parts)
  BY <1>0 DEF RootParts, Roots
<1> HIDE DEF parts, n
<1>3. \A k \in 1 .. n : /\ parts[k] \in Seq(IDs(plan))
                        /\ Range(parts[k]) = IF plan[k].deps = <<>> THEN {plan[k].id} ELSE {}
                        /\ IsInjective(parts[k])
  <2> SUFFICES ASSUME NEW k \in 1 .. n
               PROVE  /\ parts[k] \in Seq(IDs(plan))
                      /\ Range(parts[k]) = IF plan[k].deps = <<>> THEN {plan[k].id} ELSE {}
                      /\ IsInjective(parts[k])
    OBVIOUS
  <2>1. CASE plan[k].deps = <<>>
    <3>1. parts[k] = <<plan[k].id>>
      BY <1>1, <2>1
    <3>2. plan[k].id \in IDs(plan)
      BY <1>0
    <3> QED
      BY <2>1, <3>1, <3>2, SingleSeq
  <2>2. CASE plan[k].deps # <<>>
    <3>1. parts[k] = <<>>
      BY <1>1, <2>2
    <3> QED
      BY <2>2, <3>1, NoSeq
  <2> QED
    BY <2>1, <2>2
<1>4. parts \in Seq(Seq(IDs(plan))) /\ Len(parts) = n
  BY <1>0, <1>2, <1>3
<1>5. \A k, l \in 1 .. n : k # l => Range(parts[k]) \cap Range(parts[l]) = {}
  <2>1. \A k \in 1 .. n : Range(parts[k]) \subseteq {plan[k].id}
    BY <1>3
  <2> QED
    BY <2>1, OwnParts DEF n
<1>6. /\ FlattenSeq(parts) \in Seq(IDs(plan))
      /\ \A x : x \in Range(FlattenSeq(parts)) <=> \E k \in 1 .. n : x \in Range(parts[k])
      /\ IsInjective(FlattenSeq(parts))
  BY <1>3, <1>4, <1>5, FlattenSeqHolds
<1>7. \A x : (\E k \in 1 .. n : x \in Range(parts[k])) <=> x \in IDs(plan) /\ DepsOf(plan, x) = <<>>
  <2>1. \A k \in 1 .. n : DepsOf(plan, plan[k].id) = plan[k].deps
    BY DepsOfNode DEF n
  <2>2. ASSUME NEW k \in 1 .. n, NEW x \in Range(parts[k])
        PROVE  x \in IDs(plan) /\ DepsOf(plan, x) = <<>>
    BY <1>0, <1>3, <2>1, <2>2
  <2>3. ASSUME NEW x \in IDs(plan), DepsOf(plan, x) = <<>>
        PROVE  \E k \in 1 .. n : x \in Range(parts[k])
    <3>1. PICK k \in 1 .. n : x = plan[k].id
      BY <1>0 DEF IDs
    <3> QED
      BY <1>3, <2>1, <2>3, <3>1
  <2> QED
    BY <2>2, <2>3
<1> QED
  BY <1>2, <1>6, <1>7

\* Among some nodes of a plan without cycles there is one with no dependency
\* among them.
LEMMA Lowest ==
    ASSUME NEW plan, Formed(plan), Acyclic(plan), NEW T \in SUBSET IDs(plan), T # {}
    PROVE  \E i \in T : \A d \in Range(DepsOf(plan, i)) : d \in IDs(plan) \ T
<1>1. PICK rank \in [IDs(plan) -> 1 .. Len(plan)] :
         \A i \in IDs(plan) : \A d \in Range(DepsOf(plan, i)) : rank[d] < rank[i]
  BY AcyclicMeans
<1>2. \A i \in IDs(plan) : rank[i] \in Nat
  <2>1. Len(plan) \in Nat
    BY PlanNodes DEF Formed
  <2> QED
    BY <2>1
<1> DEFINE U == {rank[i] : i \in T}
<1>3. U \in SUBSET Nat /\ U # {}
  BY <1>2
<1>4. PICK u \in U : \A w \in U : u <= w
  BY <1>3, Smallest
<1>5. PICK i \in T : u = rank[i]
  BY <1>4
<1>6. ASSUME NEW d \in Range(DepsOf(plan, i)) PROVE d \in IDs(plan) \ T
  <2>1. d \in IDs(plan)
    BY DepsInPlan
  <2>2. rank[d] < rank[i] /\ rank[d] \in Nat /\ rank[i] \in Nat
    BY <1>1, <1>2, <2>1
  <2>3. ~(rank[i] <= rank[d])
    BY <2>2
  <2>4. d \notin T
    BY <1>4, <1>5, <2>3
  <2> QED
    BY <2>1, <2>4
<1> QED
  BY <1>6

LEMMA WellFormedMeans ==
    ASSUME NEW plan \in Seq(Nodes), WellFormed(plan)
    PROVE  Formed(plan) /\ Acyclic(plan) /\ IDs(plan) # {} /\ Len(plan) > 0
<1>1. Formed(plan) /\ Acyclic(plan) /\ plan # <<>>
  BY DEF WellFormed, Formed
<1>2. Len(plan) \in Nat /\ Len(plan) # 0 /\ DOMAIN plan = 1 .. Len(plan)
  BY <1>1
<1>3. 1 \in DOMAIN plan
  BY <1>2
<1> QED
  BY <1>1, <1>2, <1>3 DEF IDs

LEMMA EmptyRange ==
    ASSUME NEW S, NEW s \in Seq(S)
    PROVE  /\ s = <<>> <=> Range(s) = {}
           /\ Range(s) # {} => 1 \in DOMAIN s
           /\ Range(s) \subseteq S
<1>1. Len(s) \in Nat /\ DOMAIN s = 1 .. Len(s)
  OBVIOUS
<1>2. s = <<>> => Range(s) = {}
  BY DEF Range
<1>3. s # <<>> => 1 \in DOMAIN s
  BY <1>1
<1>4. 1 \in DOMAIN s => Range(s) # {}
  BY DEF Range
<1>5. Range(s) \subseteq S
  BY <1>1 DEF Range
<1> QED
  BY <1>2, <1>3, <1>4, <1>5

LEMMA WellFormedIsRooted ==
    ASSUME NEW plan \in Seq(Nodes), WellFormed(plan)
    PROVE  /\ 1 \in DOMAIN Roots(plan)
           /\ Len(plan) = 1 => DOMAIN Roots(plan) = {1}
<1>3. Formed(plan) /\ Acyclic(plan) /\ IDs(plan) # {}
  BY WellFormedMeans
<1>4. /\ Roots(plan) \in Seq(IDs(plan)) /\ IsInjective(Roots(plan))
      /\ \A x : x \in Range(Roots(plan)) <=> x \in IDs(plan) /\ DepsOf(plan, x) = <<>>
  BY <1>3, RootsOf
<1>5. PICK i \in IDs(plan) : \A d \in Range(DepsOf(plan, i)) : d \in IDs(plan) \ IDs(plan)
  BY <1>3, Lowest
<1>6. DepsOf(plan, i) = <<>>
  <2>1. Range(DepsOf(plan, i)) = {}
    BY <1>5
  <2>2. DepsOf(plan, i) \in Seq(NodeIDs)
    BY DepsOfAny
  <2> DEFINE e == DepsOf(plan, i)
  <2>3. Range(e) = {} /\ e \in Seq(NodeIDs)
    BY <2>1, <2>2
  <2> HIDE DEF e
  <2>4. e = <<>>
    <3> SUFFICES ASSUME e # <<>> PROVE FALSE
      OBVIOUS
    <3>1. 1 \in DOMAIN e
      BY <2>3
    <3> QED
      BY <2>3, <3>1 DEF Range
  <2> QED
    BY <2>4 DEF e
<1>7. 1 \in DOMAIN Roots(plan)
  <2>1. Range(Roots(plan)) # {}
    BY <1>4, <1>6
  <2> QED
    BY <1>4, <2>1, EmptyRange
<1>8. ASSUME Len(plan) = 1 PROVE DOMAIN Roots(plan) = {1}
  <2>0. DOMAIN plan = 1 .. Len(plan)
    BY PlanNodes
  <2>1. DOMAIN plan = {1}
    <3>1. DOMAIN plan = 1 .. 1
      BY <1>8, <2>0
    <3>2. \A j : j \in 1 .. 1 <=> j = 1
      OBVIOUS
    <3> QED
      BY <3>1, <3>2
  <2>2. IDs(plan) = {plan[1].id}
    BY <2>1 DEF IDs
  <2> DEFINE s == Roots(plan)
  <2>3. s \in Seq(IDs(plan)) /\ IsInjective(s) /\ 1 \in DOMAIN s
    BY <1>4, <1>7
  <2> HIDE DEF s
  <2>4. \A k \in DOMAIN s : s[k] = plan[1].id
    <3>1. Range(s) \subseteq IDs(plan)
      BY <2>3, EmptyRange
    <3>2. \A k \in DOMAIN s : s[k] \in Range(s)
      BY DEF Range
    <3> QED
      BY <2>2, <3>1, <3>2
  <2>5. \A k \in DOMAIN s : k = 1
    BY <2>3, <2>4 DEF IsInjective
  <2> QED
    BY <2>3, <2>5 DEF s
<1> QED
  BY <1>7, <1>8

\* A plan DAGRun accepts has a root, and one of a single node has just that:
\* there is a chain to run, and the first chain is what runSingleNodeDAG runs.
THEOREM AcceptedPlanIsRooted ==
    ASSUME NEW plan \in Seq(Nodes), NEW judge
    PROVE  Rooted(plan, judge)
<1>1. validateDAG(plan, judge) = "nil" => Validate(plan) = "nil"
  BY DEF validateDAG
<1>2. validateDAG(plan, judge) = "nil" => WellFormed(plan)
  BY <1>1, ValidateIsExact
<1> QED
  BY <1>2, WellFormedIsRooted DEF Rooted

-----------------------------------------------------------------------------
(* Children *)

LEMMA MentionsCount ==
    ASSUME NEW plan \in Seq(Nodes), NEW k \in 1 .. Len(plan), NEW id
    PROVE  /\ Mentions(plan, k, id) \in Nat
           /\ IsFiniteSet({j \in DOMAIN plan[k].deps : plan[k].deps[j] = id})
           /\ Mentions(plan, k, id) = 0 <=> id \notin Range(plan[k].deps)
<1> DEFINE s == plan[k].deps
           M == {j \in DOMAIN s : s[j] = id}
<1>1. s \in Seq(NodeIDs)
  BY PlanNodes
<1>2. IsFiniteSet(1 .. Len(s)) /\ DOMAIN s = 1 .. Len(s)
  <2>1. Len(s) \in Nat /\ DOMAIN s = 1 .. Len(s)
    BY <1>1
  <2> DEFINE z == Len(s)
  <2>2. 1 \in Int /\ z \in Int
    BY <2>1
  <2> HIDE DEF z
  <2>3. IsFiniteSet(1 .. z)
    BY <2>2, FS_Interval
  <2> QED
    BY <2>1, <2>3 DEF z
<1>3. IsFiniteSet(M)
  <2>1. M \subseteq 1 .. Len(s)
    BY <1>2
  <2> QED
    BY <1>2, <2>1, FS_Subset
<1>4. Mentions(plan, k, id) = Cardinality(M)
  BY DEF Mentions
<1>5. Cardinality(M) \in Nat /\ (Cardinality(M) = 0 <=> M = {})
  BY <1>3, FS_CardinalityType, FS_EmptySet
<1>6. M = {} <=> id \notin Range(s)
  BY DEF Range
<1> QED
  BY <1>3, <1>4, <1>5, <1>6

\* No node of the plan has two dependencies.
Slim(plan) == \A k \in DOMAIN plan : Len(plan[k].deps) <= 1

LEMMA SlimMentions ==
    ASSUME NEW plan \in Seq(Nodes), Slim(plan), NEW k \in 1 .. Len(plan), NEW id
    PROVE  Mentions(plan, k, id) = IF plan[k].deps = <<id>> THEN 1 ELSE 0
<1> DEFINE s == plan[k].deps
           M == {j \in DOMAIN s : s[j] = id}
<1>1. s \in Seq(NodeIDs) /\ Len(s) \in Nat /\ Len(s) <= 1 /\ DOMAIN s = 1 .. Len(s)
  <2>1. s \in Seq(NodeIDs) /\ k \in DOMAIN plan
    BY PlanNodes
  <2> QED
    BY <2>1 DEF Slim
<1>2. Mentions(plan, k, id) = Cardinality(M)
  BY DEF Mentions
<1> HIDE DEF s
<1>3. CASE s = <<id>>
  <2>1. M = {1}
    BY <1>3
  <2> QED
    BY <1>2, <1>3, <2>1, FS_Singleton DEF s
<1>4. CASE s # <<id>>
  <2>1. M = {}
    <3> SUFFICES ASSUME NEW j \in M PROVE FALSE
      OBVIOUS
    <3>1. j = 1 /\ Len(s) = 1 /\ s[1] = id
      BY <1>1
    <3>2. s = <<id>>
      BY <1>1, <3>1
    <3> QED
      BY <1>4, <3>2
  <2> QED
    BY <1>2, <1>4, <2>1, FS_EmptySet DEF s
<1> QED
  BY <1>3, <1>4

ChildParts(plan, id) == [k \in DOMAIN plan |-> [j \in 1 .. Mentions(plan, k, id) |-> plan[k].id]]

LEMMA ChildrenOf ==
    ASSUME NEW plan, Formed(plan), NEW id
    PROVE  /\ Children(plan, id) \in Seq(IDs(plan))
           /\ \A x : x \in Range(Children(plan, id)) <=> x \in IDs(plan) /\ id \in Range(DepsOf(plan, x))
           /\ Slim(plan) => IsInjective(Children(plan, id))
<1> DEFINE parts == ChildParts(plan, id)
           n == Len(plan)
           m(k) == Mentions(plan, k, id)
<1>0. /\ plan \in Seq(Nodes) /\ n \in Nat /\ DOMAIN plan = 1 .. n
      /\ \A k \in 1 .. n : plan[k].id \in IDs(plan)
  BY PlanNodes DEF Formed
<1>1. \A k \in 1 .. n : parts[k] = [j \in 1 .. m(k) |-> plan[k].id]
  BY <1>0 DEF ChildParts
<1>2. parts = [k \in 1 .. n |-> parts[k]] /\ Children(plan, id) = FlattenSeq(parts)
  BY <1>0 DEF ChildParts, Children
<1>3. \A k \in 1 .. n : m(k) \in Nat /\ (m(k) = 0 <=> id \notin Range(plan[k].deps))
  BY <1>0, MentionsCount
<1>4. Slim(plan) => \A k \in 1 .. n : m(k) \in {0, 1}
  BY <1>0, SlimMentions
<1> HIDE DEF parts, n, m
<1>5. \A k \in 1 .. n : /\ parts[k] \in Seq(IDs(plan))
                        /\ Range(parts[k]) = IF id \in Range(plan[k].deps) THEN {plan[k].id} ELSE {}
                        /\ Slim(plan) => IsInjective(parts[k])
  <2> SUFFICES ASSUME NEW k \in 1 .. n
               PROVE  /\ parts[k] \in Seq(IDs(plan))
                      /\ Range(parts[k]) = IF id \in Range(plan[k].deps) THEN {plan[k].id} ELSE {}
                      /\ Slim(plan) => IsInjective(parts[k])
    OBVIOUS
  <2>1. /\ parts[k] = [j \in 1 .. m(k) |-> plan[k].id] /\ m(k) \in Nat /\ plan[k].id \in IDs(plan)
        /\ m(k) = 0 <=> id \notin Range(plan[k].deps)
    BY <1>0, <1>1, <1>3
  <2>2. parts[k] \in Seq(IDs(plan)) /\ DOMAIN parts[k] = 1 .. m(k)
    BY <2>1
  <2>3. m(k) = 0 => 1 .. m(k) = {}
    BY <2>1
  <2>4. m(k) # 0 => 1 \in 1 .. m(k)
    BY <2>1
  <2>5. Range(parts[k]) = IF id \in Range(plan[k].deps) THEN {plan[k].id} ELSE {}
    BY <2>1, <2>2, <2>3, <2>4 DEF Range
  <2>6. Slim(plan) => \A i \in 1 .. m(k) : i = 1
    BY <1>4
  <2> QED
    BY <2>2, <2>5, <2>6 DEF IsInjective
<1>6. parts \in Seq(Seq(IDs(plan))) /\ Len(parts) = n
  BY <1>0, <1>2, <1>5
<1>7. \A k, l \in 1 .. n : k # l => Range(parts[k]) \cap Range(parts[l]) = {}
  <2>1. \A k \in 1 .. n : Range(parts[k]) \subseteq {plan[k].id}
    BY <1>5
  <2> QED
    BY <2>1, OwnParts DEF n
<1>8. /\ FlattenSeq(parts) \in Seq(IDs(plan))
      /\ \A x : x \in Range(FlattenSeq(parts)) <=> \E k \in 1 .. n : x \in Range(parts[k])
      /\ Slim(plan) => IsInjective(FlattenSeq(parts))
  BY <1>5, <1>6, <1>7, FlattenSeqHolds
<1>9. \A x : (\E k \in 1 .. n : x \in Range(parts[k])) <=> x \in IDs(plan) /\ id \in Range(DepsOf(plan, x))
  <2>1. \A k \in 1 .. n : DepsOf(plan, plan[k].id) = plan[k].deps
    BY DepsOfNode DEF n
  <2>2. ASSUME NEW k \in 1 .. n, NEW x \in Range(parts[k])
        PROVE  x \in IDs(plan) /\ id \in Range(DepsOf(plan, x))
    BY <1>0, <1>5, <2>1, <2>2
  <2>3. ASSUME NEW x \in IDs(plan), id \in Range(DepsOf(plan, x))
        PROVE  \E k \in 1 .. n : x \in Range(parts[k])
    <3>1. PICK k \in 1 .. n : x = plan[k].id
      BY <1>0 DEF IDs
    <3> QED
      BY <1>5, <2>1, <2>3, <3>1
  <2> QED
    BY <2>2, <2>3
<1> QED
  BY <1>2, <1>8, <1>9

-----------------------------------------------------------------------------
(* The walk of decomposeChains *)

\* One call of the walk.
Join(plan, walk, id) ==
    <<id>> \o FlattenSeq([k \in DOMAIN Children(plan, id) |-> walk[Children(plan, id)[k]]])

LEMMA JoinAgrees ==
    ASSUME NEW plan, Formed(plan), NEW id, NEW f, NEW g,
           \A c \in Range(Children(plan, id)) : f[c] = g[c]
    PROVE  Join(plan, f, id) = Join(plan, g, id)
<1> DEFINE kids == Children(plan, id)
<1>1. \A k \in DOMAIN kids : kids[k] \in Range(kids)
  BY DEF Range
<1> HIDE DEF kids
<1>2. \A k \in DOMAIN kids : f[kids[k]] = g[kids[k]]
  BY <1>1 DEF kids
<1>3. [k \in DOMAIN kids |-> f[kids[k]]] = [k \in DOMAIN kids |-> g[kids[k]]]
  BY <1>2
<1> QED
  BY <1>3 DEF Join, kids

\* walk is the recursive function for the nodes less than n below the top.
WalksUpTo(plan, rank, walk, n) ==
    \A id \in IDs(plan) : Len(plan) - rank[id] < n => walk[id] = Join(plan, walk, id)

\* A rank above the dependencies, with the plan's length as bound.
Leveled(plan, rank) ==
    /\ rank \in [IDs(plan) -> 1 .. Len(plan)]
    /\ \A i \in IDs(plan) : \A d \in Range(DepsOf(plan, i)) : rank[d] < rank[i]

LEMMA LevelsGrow ==
    ASSUME NEW plan, Formed(plan), NEW rank, Leveled(plan, rank), NEW id \in IDs(plan),
           NEW c \in Range(Children(plan, id))
    PROVE  /\ c \in IDs(plan) /\ id \in Range(DepsOf(plan, c))
           /\ rank[c] \in Nat /\ rank[id] \in Nat /\ rank[id] < rank[c]
           /\ Len(plan) \in Nat
<1>1. c \in IDs(plan) /\ id \in Range(DepsOf(plan, c))
  BY ChildrenOf
<1>2. Len(plan) \in Nat
  BY PlanNodes DEF Formed
<1>3. rank[id] < rank[c] /\ rank[id] \in 1 .. Len(plan) /\ rank[c] \in 1 .. Len(plan)
  BY <1>1 DEF Leveled
<1> QED
  BY <1>1, <1>2, <1>3

LEMMA WalksFurther ==
    ASSUME NEW plan, Formed(plan), NEW rank, Leveled(plan, rank), NEW n \in Nat, NEW walk,
           WalksUpTo(plan, rank, walk, n)
    PROVE  WalksUpTo(plan, rank, [id \in IDs(plan) |-> Join(plan, walk, id)], n + 1)
<1> DEFINE other == [id \in IDs(plan) |-> Join(plan, walk, id)]
<1>1. \A id \in IDs(plan) : other[id] = Join(plan, walk, id)
  OBVIOUS
<1> HIDE DEF other
<1>2. ASSUME NEW id \in IDs(plan), Len(plan) - rank[id] < n + 1
      PROVE  other[id] = Join(plan, other, id)
  <2>1. ASSUME NEW c \in Range(Children(plan, id)) PROVE other[c] = walk[c]
    <3>1. /\ c \in IDs(plan) /\ rank[c] \in Nat /\ rank[id] \in Nat /\ rank[id] < rank[c]
          /\ Len(plan) \in Nat
      BY LevelsGrow
    <3>2. Len(plan) - rank[c] < n
      BY <1>2, <3>1
    <3> QED
      BY <1>1, <3>1, <3>2 DEF WalksUpTo
  <2>2. Join(plan, other, id) = Join(plan, walk, id)
    BY <2>1, JoinAgrees
  <2> QED
    BY <1>1, <2>2
<1> QED
  BY <1>2 DEF WalksUpTo, other

LEMMA WalkExists ==
    ASSUME NEW plan, Formed(plan), NEW rank, Leveled(plan, rank)
    PROVE  \E walk : walk = [id \in NodeIDs |-> Join(plan, walk, id)]
<1> DEFINE n == Len(plan)
           P == {m \in 0 .. n : \E walk : WalksUpTo(plan, rank, walk, m)}
<1>0. n \in Nat
  BY PlanNodes DEF Formed
<1>1. \A i \in IDs(plan) : rank[i] \in 1 .. n
  BY DEF Leveled
<1>2. 0 \in P
  <2>1. \A i \in IDs(plan) : ~(n - rank[i] < 0)
    BY <1>0, <1>1
  <2>2. WalksUpTo(plan, rank, <<>>, 0)
    BY <2>1 DEF WalksUpTo
  <2> QED
    BY <1>0, <2>2
<1>3. ASSUME NEW m \in 0 .. n - 1, m \in P PROVE m + 1 \in P
  <2>1. PICK walk : WalksUpTo(plan, rank, walk, m)
    BY <1>3
  <2>2. m \in Nat /\ m + 1 \in 0 .. n
    BY <1>0
  <2>3. WalksUpTo(plan, rank, [id \in IDs(plan) |-> Join(plan, walk, id)], m + 1)
    BY <2>1, <2>2, WalksFurther
  <2> QED
    BY <2>2, <2>3
<1>4. n \in P
  <2> HIDE DEF P, n
  <2>1. 0 .. n \subseteq P
    BY <1>0, <1>2, <1>3, CountUp
  <2> QED
    BY <1>0, <2>1
<1>5. PICK walk : WalksUpTo(plan, rank, walk, n)
  BY <1>4
<1>6. \A id \in IDs(plan) : walk[id] = Join(plan, walk, id)
  <2>1. \A i \in IDs(plan) : n - rank[i] < n
    BY <1>0, <1>1
  <2> QED
    BY <1>5, <2>1 DEF WalksUpTo
<1> DEFINE other == [id \in NodeIDs |-> Join(plan, walk, id)]
<1>7. IDs(plan) \subseteq NodeIDs
  BY PlanNodes DEF Formed
<1>8. \A id \in NodeIDs : other[id] = Join(plan, walk, id)
  OBVIOUS
<1> HIDE DEF other
<1>9. ASSUME NEW id \in NodeIDs PROVE Join(plan, other, id) = Join(plan, walk, id)
  <2>1. ASSUME NEW c \in Range(Children(plan, id)) PROVE other[c] = walk[c]
    <3>1. c \in IDs(plan)
      BY ChildrenOf
    <3> QED
      BY <1>6, <1>7, <1>8, <3>1
  <2> QED
    BY <2>1, JoinAgrees
<1>10. other = [id \in NodeIDs |-> Join(plan, other, id)]
  BY <1>9 DEF other
<1> QED
  BY <1>10

LEMMA SubtreeUnfolds ==
    ASSUME NEW plan, Formed(plan), Acyclic(plan)
    PROVE  \E walk : /\ \A id \in NodeIDs : walk[id] = Join(plan, walk, id)
                     /\ \A id : Subtree(plan, id) = walk[id]
<1> DEFINE walk == CHOOSE f : f = [id \in NodeIDs |-> Join(plan, f, id)]
<1>1. \A id : Subtree(plan, id) = walk[id]
  BY DEF Subtree, Join
<1>2. PICK rank \in [IDs(plan) -> 1 .. Len(plan)] :
         \A i \in IDs(plan) : \A d \in Range(DepsOf(plan, i)) : rank[d] < rank[i]
  BY AcyclicMeans
<1>3. Leveled(plan, rank)
  BY <1>2 DEF Leveled
<1>4. walk = [id \in NodeIDs |-> Join(plan, walk, id)]
  BY <1>3, WalkExists
<1> HIDE DEF walk
<1> QED
  BY <1>1, <1>4

-----------------------------------------------------------------------------
(* What a chain is *)

\* Every element but the first has one dependency, and that comes earlier.
Descends(plan, t) ==
    \A k \in 1 .. Len(t) : k # 1 => \E i \in 1 .. k - 1 : DepsOf(plan, t[k]) = <<t[i]>>

\* With a node everything that depends on it.
Closed(plan, t) ==
    \A c \in IDs(plan) : \A x \in Range(t) : x \in Range(DepsOf(plan, c)) => c \in Range(t)

Tree(plan, rank, id, t) ==
    /\ t \in Seq(IDs(plan)) /\ 1 \in 1 .. Len(t) /\ t[1] = id
    /\ IsInjective(t)
    /\ Descends(plan, t)
    /\ Closed(plan, t)
    /\ \A x \in Range(t) : rank[id] <= rank[x]

\* Two of them share nothing unless one starts inside the other.
LEMMA TreesApart ==
    ASSUME NEW plan, NEW a, NEW b, NEW s \in Seq(IDs(plan)), NEW t \in Seq(IDs(plan)),
           s[1] = a, t[1] = b, Descends(plan, s), Descends(plan, t),
           a \notin Range(t), b \notin Range(s)
    PROVE  Range(s) \cap Range(t) = {}
<1>0. /\ Len(s) \in Nat /\ Len(t) \in Nat /\ DOMAIN s = 1 .. Len(s) /\ DOMAIN t = 1 .. Len(t)
  OBVIOUS
<1> DEFINE T == {k \in 1 .. Len(s) : s[k] \in Range(t)}
<1>1. SUFFICES ASSUME T # {} PROVE FALSE
  BY <1>0 DEF Range
<1>2. T \in SUBSET Nat
  BY <1>0
<1>3. PICK k \in T : \A m \in T : k <= m
  BY <1>1, <1>2, Smallest
<1>4. k \in 1 .. Len(s) /\ s[k] \in Range(t) /\ k # 1
  BY <1>3
<1>5. PICK i \in 1 .. k - 1 : DepsOf(plan, s[k]) = <<s[i]>>
  BY <1>4 DEF Descends
<1>6. PICK l \in 1 .. Len(t) : s[k] = t[l]
  BY <1>0, <1>4 DEF Range
<1>7. l # 1
  BY <1>0, <1>4, <1>6 DEF Range
<1>8. PICK j \in 1 .. l - 1 : DepsOf(plan, t[l]) = <<t[j]>>
  BY <1>7 DEF Descends
<1>9. s[i] = t[j]
  BY <1>5, <1>6, <1>8
<1>10. i \in 1 .. Len(s) /\ j \in 1 .. Len(t) /\ ~(k <= i)
  BY <1>0, <1>4
<1>11. i \in T
  BY <1>0, <1>9, <1>10 DEF Range
<1> QED
  BY <1>3, <1>10, <1>11

\* A node with one dependency heads no other node's tree from the inside: the
\* trees of two children of one node share nothing.
LEMMA SiblingsApart ==
    ASSUME NEW plan, NEW rank, NEW p, NEW a, NEW b, NEW s, NEW t,
           \A i \in IDs(plan) : rank[i] \in Nat, p \in IDs(plan),
           Tree(plan, rank, a, s), Tree(plan, rank, b, t), a # b,
           DepsOf(plan, a) = <<p>>, DepsOf(plan, b) = <<p>>, rank[p] < rank[a], rank[p] < rank[b]
    PROVE  Range(s) \cap Range(t) = {}
<1>1. ASSUME NEW c, NEW d, NEW u, Tree(plan, rank, d, u), c # d,
             DepsOf(plan, c) = <<p>>, rank[p] < rank[d]
      PROVE  c \notin Range(u)
  <2> SUFFICES ASSUME c \in Range(u) PROVE FALSE
    OBVIOUS
  <2>0. u \in Seq(IDs(plan)) /\ DOMAIN u = 1 .. Len(u) /\ Len(u) \in Nat /\ u[1] = d /\ 1 \in 1 .. Len(u)
    BY <1>1 DEF Tree
  <2>1. PICK k \in 1 .. Len(u) : c = u[k]
    BY <2>0 DEF Range
  <2>2. k # 1
    BY <1>1, <2>0, <2>1
  <2>3. PICK i \in 1 .. k - 1 : DepsOf(plan, u[k]) = <<u[i]>>
    BY <1>1, <2>2 DEF Tree, Descends
  <2>4. p = u[i]
    BY <1>1, <2>1, <2>3
  <2>5. i \in 1 .. Len(u)
    BY <2>0
  <2>6. p \in Range(u)
    BY <2>0, <2>4, <2>5 DEF Range
  <2>7. rank[d] <= rank[p] /\ rank[d] \in Nat /\ rank[p] \in Nat
    <3>1. u[1] \in IDs(plan)
      BY <2>0
    <3> QED
      BY <1>1, <2>0, <2>6, <3>1 DEF Tree
  <2> QED
    BY <1>1, <2>7
<1>2. a \notin Range(t)
  BY <1>1
<1>3. b \notin Range(s)
  BY <1>1
<1> QED
  BY <1>2, <1>3, TreesApart DEF Tree

\* A root is in no tree but its own.
LEMMA RootsApart ==
    ASSUME NEW plan, NEW rank, NEW a, NEW b, NEW s, NEW t,
           Tree(plan, rank, a, s), Tree(plan, rank, b, t), a # b,
           DepsOf(plan, a) = <<>>, DepsOf(plan, b) = <<>>
    PROVE  Range(s) \cap Range(t) = {}
<1>1. ASSUME NEW c, NEW d, NEW u, Tree(plan, rank, d, u), c # d, DepsOf(plan, c) = <<>>
      PROVE  c \notin Range(u)
  <2> SUFFICES ASSUME c \in Range(u) PROVE FALSE
    OBVIOUS
  <2>0. u \in Seq(IDs(plan)) /\ DOMAIN u = 1 .. Len(u) /\ Len(u) \in Nat /\ u[1] = d /\ 1 \in 1 .. Len(u)
    BY <1>1 DEF Tree
  <2>1. PICK k \in 1 .. Len(u) : c = u[k]
    BY <2>0 DEF Range
  <2>2. k # 1
    BY <1>1, <2>0, <2>1
  <2>3. PICK i \in 1 .. k - 1 : DepsOf(plan, u[k]) = <<u[i]>>
    BY <1>1, <2>2 DEF Tree, Descends
  <2>4. <<>> = <<u[i]>>
    BY <1>1, <2>1, <2>3
  <2> QED
    BY <2>4
<1>2. a \notin Range(t)
  BY <1>1
<1>3. b \notin Range(s)
  BY <1>1
<1> QED
  BY <1>2, <1>3, TreesApart DEF Tree

-----------------------------------------------------------------------------
(* The trees of the children, put under their node *)

LEMMA SlimDeps ==
    ASSUME NEW plan, Formed(plan), Slim(plan), NEW c \in IDs(plan), NEW id \in Range(DepsOf(plan, c))
    PROVE  DepsOf(plan, c) = <<id>>
<1>1. PICK k \in DOMAIN plan : c = plan[k].id
  BY DEF IDs
<1>2. k \in 1 .. Len(plan)
  BY PlanNodes DEF Formed
<1> DEFINE s == DepsOf(plan, c)
<1>3. Len(plan[k].deps) <= 1
  BY DEF Slim
<1>4. s = plan[k].deps /\ s \in Seq(NodeIDs)
  BY <1>1, <1>2, DepsOfNode, DepsOfAny DEF Formed
<1> HIDE DEF s
<1>5. s \in Seq(NodeIDs) /\ Len(s) <= 1 /\ DOMAIN s = 1 .. Len(s) /\ Len(s) \in Nat
  BY <1>3, <1>4
<1>6. PICK j \in 1 .. Len(s) : id = s[j]
  BY <1>5 DEF Range, s
<1>7. j = 1 /\ Len(s) = 1
  BY <1>5
<1>8. s = <<id>>
  BY <1>5, <1>6, <1>7
<1> QED
  BY <1>8 DEF s

LEMMA JoinIsTree ==
    ASSUME NEW plan, Formed(plan), Slim(plan), NEW rank, Leveled(plan, rank), NEW walk,
           NEW id \in IDs(plan),
           \A c \in Range(Children(plan, id)) : Tree(plan, rank, c, walk[c])
    PROVE  Tree(plan, rank, id, Join(plan, walk, id))
<1> DEFINE kids == Children(plan, id)
           parts == [k \in DOMAIN kids |-> walk[kids[k]]]
           n == Len(kids)
           F == FlattenSeq(parts)
           t == <<id>> \o F
<1>1. /\ kids \in Seq(IDs(plan)) /\ n \in Nat /\ DOMAIN kids = 1 .. n /\ IsInjective(kids)
      /\ \A x : x \in Range(kids) <=> x \in IDs(plan) /\ id \in Range(DepsOf(plan, x))
  <2>1. /\ kids \in Seq(IDs(plan)) /\ IsInjective(kids)
        /\ \A x : x \in Range(kids) <=> x \in IDs(plan) /\ id \in Range(DepsOf(plan, x))
    BY ChildrenOf
  <2> HIDE DEF kids
  <2> QED
    BY <2>1
<1>2. Join(plan, walk, id) = t
  BY DEF Join
<1>3. \A k \in 1 .. n : /\ kids[k] \in Range(kids) /\ kids[k] \in IDs(plan)
                        /\ DepsOf(plan, kids[k]) = <<id>>
                        /\ parts[k] = walk[kids[k]]
                        /\ Tree(plan, rank, kids[k], parts[k])
                        /\ rank[id] < rank[kids[k]]
  <2> SUFFICES ASSUME NEW k \in 1 .. n
               PROVE  /\ kids[k] \in Range(kids) /\ kids[k] \in IDs(plan)
                      /\ DepsOf(plan, kids[k]) = <<id>>
                      /\ parts[k] = walk[kids[k]]
                      /\ Tree(plan, rank, kids[k], parts[k])
                      /\ rank[id] < rank[kids[k]]
    OBVIOUS
  <2>1. kids[k] \in Range(kids) /\ parts[k] = walk[kids[k]]
    BY <1>1 DEF Range
  <2>2. kids[k] \in IDs(plan) /\ id \in Range(DepsOf(plan, kids[k]))
    BY <1>1, <2>1
  <2>3. DepsOf(plan, kids[k]) = <<id>>
    BY <2>2, SlimDeps
  <2>4. rank[id] < rank[kids[k]]
    BY <2>1, LevelsGrow
  <2> QED
    BY <2>1, <2>2, <2>3, <2>4
<1>4. \A i \in IDs(plan) : rank[i] \in Nat
  <2>1. Len(plan) \in Nat
    BY PlanNodes DEF Formed
  <2> QED
    BY <2>1 DEF Leveled
<1>5. parts \in Seq(Seq(IDs(plan))) /\ Len(parts) = n
  <2>1. \A k \in 1 .. n : parts[k] \in Seq(IDs(plan))
    BY <1>3 DEF Tree
  <2>2. parts = [k \in 1 .. n |-> parts[k]]
    BY <1>1
  <2> HIDE DEF parts
  <2> QED
    BY <1>1, <2>1, <2>2
<1> HIDE DEF kids, parts, n, F
<1>6. \A k, l \in 1 .. n : k # l => Range(parts[k]) \cap Range(parts[l]) = {}
  <2> SUFFICES ASSUME NEW k \in 1 .. n, NEW l \in 1 .. n, k # l
               PROVE  Range(parts[k]) \cap Range(parts[l]) = {}
    OBVIOUS
  <2>1. kids[k] # kids[l]
    BY <1>1 DEF IsInjective
  <2> QED
    BY <1>3, <1>4, <2>1, SiblingsApart
<1>7. /\ F \in Seq(IDs(plan)) /\ IsInjective(F)
      /\ \A x : x \in Range(F) <=> \E k \in 1 .. n : x \in Range(parts[k])
  <2>1. \A k \in 1 .. n : IsInjective(parts[k])
    BY <1>3 DEF Tree
  <2> QED
    BY <1>5, <1>6, <2>1, FlattenSeqHolds DEF F
<1>8. PICK off : Offsets(F, parts, n, off)
  BY <1>5, FlattenSeqLays DEF Laid, F
<1>9. ASSUME NEW x \in Range(F) PROVE rank[id] < rank[x]
  <2>1. PICK k \in 1 .. n : x \in Range(parts[k])
    BY <1>7
  <2>2. rank[kids[k]] <= rank[x] /\ rank[id] < rank[kids[k]] /\ x \in IDs(plan)
    <3>1. Range(parts[k]) \subseteq IDs(plan)
      BY <1>3, EmptyRange DEF Tree
    <3> QED
      BY <1>3, <2>1, <3>1 DEF Tree
  <2> QED
    BY <1>3, <1>4, <2>2
<1>10. /\ t \in Seq(IDs(plan)) /\ Len(t) = Len(F) + 1 /\ DOMAIN t = 1 .. Len(t) /\ t[1] = id
       /\ Len(F) \in Nat /\ DOMAIN F = 1 .. Len(F)
       /\ \A p \in 1 .. Len(F) : t[p + 1] = F[p]
  BY <1>7
<1> HIDE DEF t
<1>11. \A q \in 1 .. Len(t) : q = 1 \/ (q - 1 \in 1 .. Len(F) /\ t[q] = F[q - 1] /\ F[q - 1] \in Range(F))
  <2> SUFFICES ASSUME NEW q \in 1 .. Len(t), q # 1
               PROVE  q - 1 \in 1 .. Len(F) /\ t[q] = F[q - 1] /\ F[q - 1] \in Range(F)
    OBVIOUS
  <2> DEFINE p == q - 1
  <2>1. p \in 1 .. Len(F) /\ q = p + 1
    BY <1>10
  <2> HIDE DEF p
  <2>2. t[q] = F[p] /\ F[p] \in Range(F)
    BY <1>10, <2>1 DEF Range
  <2> QED
    BY <2>1, <2>2 DEF p
<1>12. \A x : x \in Range(t) <=> x = id \/ x \in Range(F)
  <2>1. ASSUME NEW x \in Range(t) PROVE x = id \/ x \in Range(F)
    BY <1>10, <1>11, <2>1 DEF Range
  <2>2. id \in Range(t)
    BY <1>10 DEF Range
  <2>3. ASSUME NEW x \in Range(F) PROVE x \in Range(t)
    <3>1. PICK p \in 1 .. Len(F) : x = F[p]
      BY <1>10, <2>3 DEF Range
    <3>2. t[p + 1] = x /\ p + 1 \in 1 .. Len(t)
      BY <1>10, <3>1
    <3> QED
      BY <1>10, <3>2 DEF Range
  <2> QED
    BY <2>1, <2>2, <2>3
<1>13. IsInjective(t)
  <2> SUFFICES ASSUME NEW p \in 1 .. Len(t), NEW q \in 1 .. Len(t), t[p] = t[q]
               PROVE  p = q
    BY <1>10 DEF IsInjective
  <2>1. id \notin Range(F)
    BY <1>4, <1>9
  <2>2. CASE p = 1 \/ q = 1
    BY <1>10, <1>11, <2>1, <2>2
  <2>3. CASE p # 1 /\ q # 1
    <3>1. p - 1 \in 1 .. Len(F) /\ q - 1 \in 1 .. Len(F) /\ F[p - 1] = F[q - 1]
      BY <1>11, <2>3
    <3>2. p - 1 = q - 1
      BY <1>7, <1>10, <3>1 DEF IsInjective
    <3> QED
      BY <3>2
  <2> QED
    BY <2>2, <2>3
<1>14. Descends(plan, t)
  <2> SUFFICES ASSUME NEW q \in 1 .. Len(t), q # 1
               PROVE  \E i \in 1 .. q - 1 : DepsOf(plan, t[q]) = <<t[i]>>
    BY DEF Descends
  <2> DEFINE p == q - 1
  <2>1. p \in 1 .. Len(F) /\ t[q] = F[p] /\ q = p + 1
    BY <1>10, <1>11
  <2> HIDE DEF p
  <2>2. PICK k \in 1 .. n : \E j \in 1 .. Len(parts[k]) : p = off[k] + j
    BY <1>8, <2>1 DEF Offsets
  <2>3. PICK j \in 1 .. Len(parts[k]) : p = off[k] + j
    BY <2>2
  <2>4. /\ off[k] \in Nat /\ F[p] = parts[k][j]
        /\ \A i \in 1 .. Len(parts[k]) : off[k] + i \in 1 .. Len(F) /\ F[off[k] + i] = parts[k][i]
    BY <1>8, <2>3 DEF Offsets
  <2>5. Tree(plan, rank, kids[k], parts[k]) /\ Len(parts[k]) \in Nat
    BY <1>3 DEF Tree
  <2>6. CASE j = 1
    <3>1. DepsOf(plan, t[q]) = <<t[1]>>
      BY <1>3, <1>10, <2>1, <2>4, <2>5, <2>6 DEF Tree
    <3>2. 1 \in 1 .. q - 1
      BY <1>10, <2>1
    <3> QED
      BY <3>1, <3>2
  <2>7. CASE j # 1
    <3>1. PICK i \in 1 .. j - 1 : DepsOf(plan, parts[k][j]) = <<parts[k][i]>>
      BY <2>5, <2>7 DEF Tree, Descends
    <3> DEFINE r == off[k] + i
    <3>2. i \in 1 .. Len(parts[k]) /\ i < j
      BY <2>5
    <3>3. r \in 1 .. Len(F) /\ F[r] = parts[k][i]
      BY <2>4, <3>2
    <3>4. r < p
      BY <2>3, <2>4, <3>2
    <3> HIDE DEF r
    <3>5. t[r + 1] = F[r] /\ r + 1 \in 1 .. q - 1
      BY <1>10, <2>1, <3>3, <3>4
    <3>6. DepsOf(plan, t[q]) = <<t[r + 1]>>
      BY <2>1, <2>4, <3>1, <3>3, <3>5
    <3> QED
      BY <3>5, <3>6
  <2> QED
    BY <2>6, <2>7
<1>15. Closed(plan, t)
  <2> SUFFICES ASSUME NEW c \in IDs(plan), NEW x \in Range(t), x \in Range(DepsOf(plan, c))
               PROVE  c \in Range(t)
    BY DEF Closed
  <2>1. CASE x = id
    <3>1. c \in Range(kids)
      BY <1>1, <2>1
    <3>2. PICK k \in 1 .. n : c = kids[k]
      BY <1>1, <3>1 DEF Range
    <3>3. c \in Range(parts[k])
      BY <1>3, <3>2 DEF Tree, Range
    <3> QED
      BY <1>7, <1>12, <3>3
  <2>2. CASE x \in Range(F)
    <3>1. PICK k \in 1 .. n : x \in Range(parts[k])
      BY <1>7, <2>2
    <3>2. c \in Range(parts[k])
      BY <1>3, <3>1 DEF Tree, Closed
    <3> QED
      BY <1>7, <1>12, <3>2
  <2> QED
    BY <1>12, <2>1, <2>2
<1>16. \A x \in Range(t) : rank[id] <= rank[x]
  <2> SUFFICES ASSUME NEW x \in Range(t) PROVE rank[id] <= rank[x]
    OBVIOUS
  <2>1. Range(t) \subseteq IDs(plan)
    BY <1>10, EmptyRange
  <2>2. rank[x] \in Nat /\ rank[id] \in Nat
    BY <1>4, <2>1
  <2>3. x = id \/ rank[id] < rank[x]
    BY <1>9, <1>12
  <2> QED
    BY <2>2, <2>3
<1>17. 1 \in 1 .. Len(t)
  BY <1>10
<1> QED
  BY <1>2, <1>10, <1>13, <1>14, <1>15, <1>16, <1>17 DEF Tree

LEMMA WalkIsTree ==
    ASSUME NEW plan, Formed(plan), Slim(plan), NEW rank, Leveled(plan, rank), NEW walk,
           \A id \in NodeIDs : walk[id] = Join(plan, walk, id)
    PROVE  \A id \in IDs(plan) : Tree(plan, rank, id, walk[id])
<1> DEFINE n == Len(plan)
           P == {m \in 0 .. n : \A id \in IDs(plan) : n - rank[id] < m => Tree(plan, rank, id, walk[id])}
<1>0. n \in Nat /\ IDs(plan) \subseteq NodeIDs
  BY PlanNodes DEF Formed
<1>1. \A i \in IDs(plan) : rank[i] \in 1 .. n
  BY DEF Leveled
<1>2. 0 \in P
  <2>1. \A i \in IDs(plan) : ~(n - rank[i] < 0)
    BY <1>0, <1>1
  <2> QED
    BY <1>0, <2>1
<1>3. ASSUME NEW m \in 0 .. n - 1, m \in P PROVE m + 1 \in P
  <2>1. ASSUME NEW id \in IDs(plan), n - rank[id] < m + 1 PROVE Tree(plan, rank, id, walk[id])
    <3>1. ASSUME NEW c \in Range(Children(plan, id)) PROVE Tree(plan, rank, c, walk[c])
      <4>1. /\ c \in IDs(plan) /\ rank[c] \in Nat /\ rank[id] \in Nat /\ rank[id] < rank[c]
            /\ Len(plan) \in Nat
        BY LevelsGrow
      <4>2. n - rank[c] < m
        BY <2>1, <4>1
      <4> QED
        BY <1>3, <4>1, <4>2
    <3>2. Tree(plan, rank, id, Join(plan, walk, id))
      BY <3>1, JoinIsTree
    <3> QED
      BY <1>0, <3>2
  <2>2. m + 1 \in 0 .. n
    BY <1>0
  <2> QED
    BY <2>1, <2>2
<1>4. n \in P
  <2> HIDE DEF P, n
  <2>1. 0 .. n \subseteq P
    BY <1>0, <1>2, <1>3, CountUp
  <2> QED
    BY <1>0, <2>1
<1>5. \A i \in IDs(plan) : n - rank[i] < n
  BY <1>0, <1>1
<1> QED
  BY <1>4, <1>5

\* The chains of a plan without diamonds: they start at the roots, hold every
\* node at one place, and no node comes before what it depends on.
THEOREM ChainsAreExact ==
    ASSUME NEW plan \in Seq(Nodes), WellFormed(plan), Slim(plan)
    PROVE  /\ decomposeChains(plan) \in Seq(Seq(NodeIDs))
           /\ HoldOnce(plan, decomposeChains(plan))
           /\ \A c \in DOMAIN decomposeChains(plan) : OrderedOnce(plan, decomposeChains(plan)[c])
<1> DEFINE roots == Roots(plan)
           chains == decomposeChains(plan)
<1>0. Formed(plan) /\ Acyclic(plan) /\ IDs(plan) \subseteq NodeIDs
  BY WellFormedMeans, PlanNodes
<1>1. PICK rank \in [IDs(plan) -> 1 .. Len(plan)] :
         \A i \in IDs(plan) : \A d \in Range(DepsOf(plan, i)) : rank[d] < rank[i]
  BY <1>0, AcyclicMeans
<1>2. Leveled(plan, rank)
  BY <1>1 DEF Leveled
<1>3. PICK walk : /\ \A id \in NodeIDs : walk[id] = Join(plan, walk, id)
                  /\ \A id : Subtree(plan, id) = walk[id]
  BY <1>0, SubtreeUnfolds
<1>4. \A id \in IDs(plan) : Tree(plan, rank, id, walk[id])
  BY <1>0, <1>2, <1>3, WalkIsTree
<1>5. /\ roots \in Seq(IDs(plan)) /\ IsInjective(roots)
      /\ \A x : x \in Range(roots) <=> x \in IDs(plan) /\ DepsOf(plan, x) = <<>>
  BY <1>0, RootsOf
<1>6. DOMAIN chains = DOMAIN roots /\ \A c \in DOMAIN roots : chains[c] = walk[roots[c]]
  BY <1>3 DEF decomposeChains
<1>7. chains = [c \in DOMAIN roots |-> chains[c]]
  BY DEF decomposeChains
<1> HIDE DEF roots, chains
<1>8. \A c \in DOMAIN roots : /\ roots[c] \in IDs(plan) /\ DepsOf(plan, roots[c]) = <<>>
                              /\ Tree(plan, rank, roots[c], chains[c])
  <2>1. \A c \in DOMAIN roots : roots[c] \in Range(roots)
    BY DEF Range
  <2> QED
    BY <1>4, <1>5, <1>6, <2>1
<1>9. chains \in Seq(Seq(NodeIDs))
  <2>1. \A c \in DOMAIN roots : chains[c] \in Seq(NodeIDs)
    <3> SUFFICES ASSUME NEW c \in DOMAIN roots PROVE chains[c] \in Seq(NodeIDs)
      OBVIOUS
    <3>1. chains[c] \in Seq(IDs(plan))
      BY <1>8 DEF Tree
    <3> QED
      BY <1>0, <3>1
  <2>2. DOMAIN roots = 1 .. Len(roots) /\ Len(roots) \in Nat
    BY <1>5
  <2> QED
    BY <1>7, <2>1, <2>2
<1>10. ASSUME NEW c \in DOMAIN chains PROVE OrderedOnce(plan, chains[c])
  <2> DEFINE t == chains[c]
  <2>1. Tree(plan, rank, roots[c], t) /\ DepsOf(plan, roots[c]) = <<>>
    BY <1>6, <1>8
  <2> HIDE DEF t
  <2>2. t \in Seq(IDs(plan)) /\ IsInjective(t) /\ t[1] = roots[c] /\ DOMAIN t = 1 .. Len(t)
    BY <2>1 DEF Tree
  <2>3. ASSUME NEW k \in DOMAIN t, NEW j \in DOMAIN DepsOf(plan, t[k])
        PROVE  \E i \in 1 .. (k - 1) : t[i] = DepsOf(plan, t[k])[j]
    <3>1. k # 1
      <4> SUFFICES ASSUME k = 1 PROVE FALSE
        OBVIOUS
      <4>1. DepsOf(plan, t[k]) = <<>>
        BY <2>1, <2>2
      <4>2. DOMAIN <<>> = {}
        OBVIOUS
      <4> QED
        BY <2>3, <4>1, <4>2
    <3>2. PICK i \in 1 .. k - 1 : DepsOf(plan, t[k]) = <<t[i]>>
      BY <2>1, <2>2, <3>1 DEF Tree, Descends
    <3>3. DOMAIN <<t[i]>> = {1} /\ <<t[i]>>[1] = t[i]
      OBVIOUS
    <3>4. j = 1 /\ DepsOf(plan, t[k])[j] = t[i]
      BY <2>3, <3>2, <3>3
    <3> QED
      BY <3>4
  <2>4. OrderedOnce(plan, t)
    BY <2>2, <2>3 DEF OrderedOnce
  <2> QED
    BY <2>4 DEF t
<1>11. ASSUME NEW c \in DOMAIN chains PROVE Range(chains[c]) \subseteq IDs(plan)
  <2>1. chains[c] \in Seq(IDs(plan))
    BY <1>6, <1>8 DEF Tree
  <2> QED
    BY <2>1, EmptyRange
<1>12. ASSUME NEW i \in IDs(plan) PROVE \E c \in DOMAIN chains : i \in Range(chains[c])
  <2> DEFINE T == {x \in IDs(plan) : \A c \in DOMAIN chains : x \notin Range(chains[c])}
  <2>1. SUFFICES ASSUME T # {} PROVE FALSE
    BY <1>12
  <2>2. T \in SUBSET IDs(plan)
    OBVIOUS
  <2> HIDE DEF T
  <2>3. PICK x \in T : \A d \in Range(DepsOf(plan, x)) : d \in IDs(plan) \ T
    BY <1>0, <2>1, <2>2, Lowest
  <2>4. x \in IDs(plan) /\ \A c \in DOMAIN chains : x \notin Range(chains[c])
    BY <2>3 DEF T
  <2>5. CASE Range(DepsOf(plan, x)) = {}
    <3> DEFINE e == DepsOf(plan, x)
    <3>1. e \in Seq(NodeIDs) /\ Range(e) = {}
      BY <2>5, DepsOfAny
    <3> HIDE DEF e
    <3>2. e = <<>>
      BY <3>1, EmptyRange
    <3>3. x \in Range(roots)
      BY <1>5, <2>4, <3>2 DEF e
    <3>4. PICK c \in DOMAIN roots : x = roots[c]
      BY <3>3 DEF Range
    <3>5. x \in Range(chains[c])
      <4>1. chains[c] \in Seq(IDs(plan)) /\ 1 \in 1 .. Len(chains[c]) /\ chains[c][1] = x
        BY <1>8, <3>4 DEF Tree
      <4>2. DOMAIN chains[c] = 1 .. Len(chains[c])
        BY <4>1
      <4> QED
        BY <4>1, <4>2 DEF Range
    <3> QED
      BY <1>6, <2>4, <3>5
  <2>6. ASSUME NEW d \in Range(DepsOf(plan, x)) PROVE FALSE
    <3>1. PICK c \in DOMAIN chains : d \in Range(chains[c])
      BY <2>3 DEF T
    <3>2. Closed(plan, chains[c])
      BY <1>6, <1>8 DEF Tree
    <3>3. x \in Range(chains[c])
      BY <2>4, <3>1, <3>2 DEF Closed
    <3> QED
      BY <2>4, <3>3
  <2> QED
    BY <2>5, <2>6
<1>13. ASSUME NEW c \in DOMAIN chains, NEW d \in DOMAIN chains,
              NEW k \in DOMAIN chains[c], NEW l \in DOMAIN chains[d], chains[c][k] = chains[d][l]
       PROVE  c = d /\ k = l
  <2>1. chains[c][k] \in Range(chains[c]) /\ chains[d][l] \in Range(chains[d])
    BY DEF Range
  <2>2. c = d
    <3> SUFFICES ASSUME c # d PROVE FALSE
      OBVIOUS
    <3>1. roots[c] # roots[d]
      BY <1>5, <1>6 DEF IsInjective
    <3>2. Range(chains[c]) \cap Range(chains[d]) = {}
      BY <1>6, <1>8, <3>1, RootsApart
    <3> QED
      BY <1>13, <2>1, <3>2
  <2>3. IsInjective(chains[c])
    BY <1>6, <1>8 DEF Tree
  <2>4. k = l
    BY <1>13, <2>2, <2>3 DEF IsInjective
  <2> QED
    BY <2>2, <2>4
<1>14. HoldOnce(plan, chains)
  BY <1>11, <1>12, <1>13 DEF HoldOnce
<1> QED
  BY <1>9, <1>10, <1>14 DEF chains

-----------------------------------------------------------------------------
(* TopoSort: one round *)

\* What is left of a node's dependencies when those in D are out.
Pending(plan, i, D) == {j \in DOMAIN DepsOf(plan, i) : DepsOf(plan, i)[j] \notin D}

LEMMA PendingCount ==
    ASSUME NEW plan \in Seq(Nodes), NEW i, NEW D
    PROVE  /\ IsFiniteSet(Pending(plan, i, D))
           /\ Cardinality(Pending(plan, i, D)) \in Nat
           /\ Cardinality(Pending(plan, i, D)) = 0 <=> Range(DepsOf(plan, i)) \subseteq D
<1> DEFINE s == DepsOf(plan, i)
           z == Len(s)
           M == {j \in DOMAIN s : s[j] \notin D}
<1>1. s \in Seq(NodeIDs)
  BY DepsOfAny
<1> HIDE DEF s
<1>2. DOMAIN s = 1 .. z /\ z \in Nat /\ 1 \in Int /\ z \in Int
  BY <1>1
<1> HIDE DEF z
<1>3. IsFiniteSet(1 .. z)
  BY <1>2, FS_Interval
<1>4. M \subseteq 1 .. z
  BY <1>2
<1>5. IsFiniteSet(M)
  BY <1>3, <1>4, FS_Subset
<1>6. M = {} <=> Range(s) \subseteq D
  BY DEF Range
<1>7. Pending(plan, i, D) = M
  BY DEF Pending, s
<1> HIDE DEF M
<1>8. Cardinality(M) \in Nat /\ (Cardinality(M) = 0 <=> M = {})
  BY <1>5, FS_CardinalityType, FS_EmptySet
<1> QED
  BY <1>5, <1>6, <1>7, <1>8 DEF s

\* When id goes out too, as many fewer as the node names it.
LEMMA PendingDrops ==
    ASSUME NEW plan, Formed(plan), NEW k \in 1 .. Len(plan), NEW D, NEW id, id \notin D
    PROVE  Cardinality(Pending(plan, plan[k].id, D \cup {id})) =
              Cardinality(Pending(plan, plan[k].id, D)) - Mentions(plan, k, id)
<1> DEFINE s == plan[k].deps
           M == {j \in DOMAIN s : s[j] = id}
           A == {j \in DOMAIN s : s[j] \notin D}
           B == {j \in DOMAIN s : s[j] \notin D \cup {id}}
<1>1. DepsOf(plan, plan[k].id) = s
  BY DepsOfNode
<1>2. Pending(plan, plan[k].id, D) = A /\ Pending(plan, plan[k].id, D \cup {id}) = B
  BY <1>1 DEF Pending
<1>3. Mentions(plan, k, id) = Cardinality(M)
  BY DEF Mentions
<1>4. IsFiniteSet(A)
  <2>1. plan \in Seq(Nodes)
    BY DEF Formed
  <2>2. IsFiniteSet(Pending(plan, plan[k].id, D))
    BY <2>1, PendingCount
  <2> QED
    BY <1>2, <2>2
<1>5. B = A \ M /\ A \cap M = M
  OBVIOUS
<1> HIDE DEF A, B, M
<1>6. Cardinality(A \ M) = Cardinality(A) - Cardinality(A \cap M)
  BY <1>4, FS_Difference
<1>7. Cardinality(B) = Cardinality(A) - Cardinality(M)
  BY <1>5, <1>6
<1> QED
  BY <1>2, <1>3, <1>7

\* The step of the loop of Released for the k-th node.
Lowered(plan, out, id, prev, k) ==
    LET n == plan[k].id
        d == prev.degree[n]
        m == Mentions(plan, k, id)
    IN [out    |-> out,
        ready  |-> IF 0 < d /\ d <= m THEN Append(prev.ready, n) ELSE prev.ready,
        degree |-> [prev.degree EXCEPT ![n] = d - m]]

Releases(after, plan, s, id, n) ==
    after = [k \in 0 .. n |-> IF k = 0 THEN s ELSE Lowered(plan, s.out, id, after[k - 1], k)]

LEMMA ReleasesExist ==
    ASSUME NEW plan, NEW s, NEW id, NEW n \in Nat
    PROVE  \E after : Releases(after, plan, s, id, n)
<1> DEFINE P == {k \in 0 .. n : \E t : Releases(t, plan, s, id, k)}
<1>1. 0 \in P
  <2> DEFINE t == [i \in 0 .. 0 |-> s]
  <2>1. Releases(t, plan, s, id, 0)
    BY DEF Releases
  <2> QED
    BY <2>1
<1>2. ASSUME NEW k \in 0 .. n - 1, k \in P PROVE k + 1 \in P
  <2>1. PICK t : Releases(t, plan, s, id, k)
    BY <1>2
  <2> DEFINE next == Lowered(plan, s.out, id, t[k], k + 1)
             u == [i \in 0 .. k + 1 |-> IF i = k + 1 THEN next ELSE t[i]]
  <2>2. \A i \in 0 .. k + 1 : u[i] = IF i = 0 THEN s ELSE Lowered(plan, s.out, id, u[i - 1], i)
    <3> SUFFICES ASSUME NEW i \in 0 .. k + 1
                 PROVE  u[i] = IF i = 0 THEN s ELSE Lowered(plan, s.out, id, u[i - 1], i)
      OBVIOUS
    <3>1. CASE i = k + 1
      <4>1. i - 1 = k /\ u[i] = next /\ u[i - 1] = t[k] /\ i # 0
        BY <3>1
      <4> QED
        BY <3>1, <4>1
    <3>2. CASE i # k + 1
      <4>1. i \in 0 .. k /\ u[i] = t[i] /\ (i # 0 => i - 1 \in 0 .. k /\ u[i - 1] = t[i - 1])
        BY <3>2
      <4>2. t[i] = IF i = 0 THEN s ELSE Lowered(plan, s.out, id, t[i - 1], i)
        BY <2>1, <4>1 DEF Releases
      <4> QED
        BY <4>1, <4>2
    <3> QED
      BY <3>1, <3>2
  <2>3. Releases(u, plan, s, id, k + 1)
    BY <2>2 DEF Releases
  <2>4. k + 1 \in 0 .. n
    OBVIOUS
  <2> QED
    BY <2>3, <2>4
<1> HIDE DEF P
<1>3. 0 .. n \subseteq P
  BY <1>1, <1>2, CountUp
<1>4. n \in P
  BY <1>3
<1> QED
  BY <1>4 DEF P

LEMMA ReleasedUnfolds ==
    ASSUME NEW plan \in Seq(Nodes), NEW s, NEW id
    PROVE  \E after : /\ Released(plan, s, id) = after[Len(plan)]
                      /\ after[0] = s
                      /\ \A k \in 0 .. Len(plan) - 1 :
                            after[k + 1] = Lowered(plan, s.out, id, after[k], k + 1)
<1> DEFINE n == Len(plan)
<1>1. n \in Nat
  BY PlanNodes
<1>2. \E after : Releases(after, plan, s, id, n)
  BY <1>1, ReleasesExist
<1>3. \E after : Releases(after, plan, s, id, n) /\ Released(plan, s, id) = after[n]
  BY <1>2 DEF Releases, Released, Lowered
<1>4. PICK after : Releases(after, plan, s, id, n) /\ Released(plan, s, id) = after[n]
  BY <1>3
<1> HIDE DEF n
<1>5. after[0] = s
  BY <1>1, <1>4 DEF Releases
<1>6. ASSUME NEW k \in 0 .. n - 1 PROVE after[k + 1] = Lowered(plan, s.out, id, after[k], k + 1)
  <2> DEFINE m == k + 1
  <2>1. m \in 0 .. n /\ m # 0 /\ m - 1 = k
    BY <1>1
  <2> HIDE DEF m
  <2>2. after[m] = Lowered(plan, s.out, id, after[m - 1], m)
    BY <1>4, <2>1 DEF Releases
  <2>3. after[m] = Lowered(plan, s.out, id, after[k], m)
    BY <2>1, <2>2
  <2> QED
    BY <2>3 DEF m
<1> QED
  BY <1>4, <1>5, <1>6 DEF n

\* Exactly the nodes of degree 0 are out (in O) or ready.
Queued(plan, O, s) ==
    /\ s.ready \in Seq(IDs(plan)) /\ IsInjective(s.ready)
    /\ s.degree \in [IDs(plan) -> Int]
    /\ O \cap Range(s.ready) = {}
    /\ \A i \in IDs(plan) : s.degree[i] = 0 <=> i \in O \cup Range(s.ready)

\* The degrees of the first k nodes know that id is out, the others not yet.
Counted(plan, D, id, s, k) ==
    /\ \A l \in 1 .. Len(plan) : l <= k =>
          s.degree[plan[l].id] = Cardinality(Pending(plan, plan[l].id, D \cup {id}))
    /\ \A l \in 1 .. Len(plan) : l > k =>
          s.degree[plan[l].id] = Cardinality(Pending(plan, plan[l].id, D))

LEMMA AppendNew ==
    ASSUME NEW S, NEW s \in Seq(S), IsInjective(s), NEW x \in S, x \notin Range(s)
    PROVE  /\ Append(s, x) \in Seq(S) /\ IsInjective(Append(s, x))
           /\ Range(Append(s, x)) = Range(s) \cup {x}
           /\ Len(Append(s, x)) = Len(s) + 1
<1> DEFINE t == Append(s, x)
<1>1. /\ t \in Seq(S) /\ Len(t) = Len(s) + 1 /\ Len(s) \in Nat /\ DOMAIN s = 1 .. Len(s) /\ DOMAIN t = 1 .. Len(t)
      /\ t[Len(s) + 1] = x /\ \A k \in 1 .. Len(s) : t[k] = s[k] /\ s[k] \in Range(s)
  BY DEF Range
<1> HIDE DEF t
<1>2. IsInjective(t)
  <2> SUFFICES ASSUME NEW p \in 1 .. Len(t), NEW q \in 1 .. Len(t), t[p] = t[q] PROVE p = q
    BY <1>1 DEF IsInjective
  <2>1. (p \in 1 .. Len(s) \/ p = Len(s) + 1) /\ (q \in 1 .. Len(s) \/ q = Len(s) + 1)
    BY <1>1
  <2>2. CASE p \in 1 .. Len(s) /\ q \in 1 .. Len(s)
    BY <1>1, <2>2 DEF IsInjective
  <2>3. CASE p = Len(s) + 1 \/ q = Len(s) + 1
    BY <1>1, <2>1, <2>3
  <2> QED
    BY <2>1, <2>2, <2>3
<1>3. Range(t) = Range(s) \cup {x}
  <2>1. ASSUME NEW y \in Range(t) PROVE y \in Range(s) \cup {x}
    <3>1. PICK p \in 1 .. Len(t) : y = t[p]
      BY <1>1, <2>1 DEF Range
    <3>2. p \in 1 .. Len(s) \/ p = Len(s) + 1
      BY <1>1
    <3> QED
      BY <1>1, <3>1, <3>2
  <2>2. ASSUME NEW y \in Range(s) PROVE y \in Range(t)
    <3>1. PICK p \in 1 .. Len(s) : y = s[p]
      BY <1>1, <2>2 DEF Range
    <3>2. p \in DOMAIN t /\ t[p] = y
      BY <1>1, <3>1
    <3> QED
      BY <3>2 DEF Range
  <2>3. x \in Range(t)
    <3> DEFINE m == Len(s) + 1
    <3>1. m \in 1 .. Len(t) /\ t[m] = x
      BY <1>1
    <3> HIDE DEF m
    <3> QED
      BY <1>1, <3>1 DEF Range
  <2> QED
    BY <2>1, <2>2, <2>3
<1> QED
  BY <1>1, <1>2, <1>3 DEF t

LEMMA LoweredStep ==
    ASSUME NEW plan, Formed(plan), NEW D, NEW id, id \notin D, NEW out, NEW prev,
           NEW k \in 0 .. Len(plan) - 1,
           Queued(plan, D \cup {id}, prev), Counted(plan, D, id, prev, k)
    PROVE  /\ Lowered(plan, out, id, prev, k + 1).out = out
           /\ Queued(plan, D \cup {id}, Lowered(plan, out, id, prev, k + 1))
           /\ Counted(plan, D, id, Lowered(plan, out, id, prev, k + 1), k + 1)
<1> DEFINE c == k + 1
           n == plan[c].id
           d == prev.degree[n]
           m == Mentions(plan, c, id)
           O == D \cup {id}
           next == Lowered(plan, out, id, prev, c)
<1>0. /\ plan \in Seq(Nodes) /\ Len(plan) \in Nat /\ DOMAIN plan = 1 .. Len(plan)
      /\ \A l \in 1 .. Len(plan) : plan[l].id \in IDs(plan)
      /\ \A j, l \in 1 .. Len(plan) : plan[j].id = plan[l].id => j = l
  <2>1. plan \in Seq(Nodes)
    BY DEF Formed
  <2>2. /\ Len(plan) \in Nat /\ DOMAIN plan = 1 .. Len(plan)
        /\ \A l \in 1 .. Len(plan) : plan[l].id \in IDs(plan)
    BY <2>1, PlanNodes
  <2> QED
    BY <2>1, <2>2 DEF Formed
<1>1. c \in 1 .. Len(plan) /\ c > k
  BY <1>0
<1>2. /\ next.out = out
      /\ next.ready = (IF 0 < d /\ d <= m THEN Append(prev.ready, n) ELSE prev.ready)
      /\ next.degree = [prev.degree EXCEPT ![n] = d - m]
  BY DEF Lowered
<1> HIDE DEF c
<1>3. n \in IDs(plan) /\ m \in Nat
  BY <1>0, <1>1, MentionsCount
<1>4. d = Cardinality(Pending(plan, n, D)) /\ d \in Nat
  <2>1. d = Cardinality(Pending(plan, n, D))
    BY <1>1 DEF Counted
  <2>2. Cardinality(Pending(plan, n, D)) \in Nat
    BY <1>0, PendingCount
  <2> QED
    BY <2>1, <2>2
<1>5. d - m = Cardinality(Pending(plan, n, O)) /\ d - m \in Nat
  <2>1. Cardinality(Pending(plan, n, O)) = Cardinality(Pending(plan, n, D)) - m
    BY <1>1, PendingDrops
  <2>2. Cardinality(Pending(plan, n, O)) \in Nat
    BY <1>0, PendingCount
  <2> HIDE DEF m, n, O
  <2> QED
    BY <1>4, <2>1, <2>2
<1>6. /\ prev.ready \in Seq(IDs(plan)) /\ IsInjective(prev.ready)
      /\ prev.degree \in [IDs(plan) -> Int]
      /\ O \cap Range(prev.ready) = {}
      /\ \A i \in IDs(plan) : prev.degree[i] = 0 <=> i \in O \cup Range(prev.ready)
  BY DEF Queued
<1> HIDE DEF d, m, next, O, n
<1>7. /\ next.degree \in [IDs(plan) -> Int] /\ next.degree[n] = d - m
      /\ \A i \in IDs(plan) : i # n => next.degree[i] = prev.degree[i]
  BY <1>2, <1>3, <1>4, <1>6
<1>8. Queued(plan, O, next)
  <2>1. CASE 0 < d /\ d <= m
    <3>1. n \notin O \cup Range(prev.ready)
      BY <1>3, <1>6, <2>1, <1>4 DEF d
    <3>2. /\ next.ready \in Seq(IDs(plan)) /\ IsInjective(next.ready)
          /\ Range(next.ready) = Range(prev.ready) \cup {n}
      BY <1>2, <1>3, <1>6, <2>1, <3>1, AppendNew
    <3>3. d - m = 0
      BY <1>3, <1>4, <1>5, <2>1
    <3>4. \A i \in IDs(plan) : next.degree[i] = 0 <=> i \in O \cup Range(next.ready)
      BY <1>3, <1>6, <1>7, <3>2, <3>3
    <3> QED
      BY <1>6, <1>7, <3>1, <3>2, <3>4 DEF Queued
  <2>2. CASE ~(0 < d /\ d <= m)
    <3>1. next.ready = prev.ready
      BY <1>2, <2>2
    <3>2. d - m = 0 <=> d = 0
      BY <1>3, <1>4, <1>5, <2>2
    <3>3. \A i \in IDs(plan) : next.degree[i] = 0 <=> i \in O \cup Range(next.ready)
      <4> SUFFICES ASSUME NEW i \in IDs(plan)
                   PROVE  next.degree[i] = 0 <=> i \in O \cup Range(next.ready)
        OBVIOUS
      <4>1. CASE i = n
        BY <1>3, <1>6, <1>7, <3>1, <3>2, <4>1 DEF d
      <4>2. CASE i # n
        BY <1>6, <1>7, <3>1, <4>2
      <4> QED
        BY <4>1, <4>2
    <3> QED
      BY <1>6, <1>7, <3>1, <3>3 DEF Queued
  <2> QED
    BY <2>1, <2>2
<1>9. Counted(plan, D, id, next, c)
  <2>1. \A l \in 1 .. Len(plan) : plan[l].id = n <=> l = c
    BY <1>0, <1>1 DEF n
  <2>2. \A l \in 1 .. Len(plan) : (l <= c => l <= k \/ l = c) /\ (l > c => l > k /\ l # c)
    BY <1>0 DEF c
  <2>3. ASSUME NEW l \in 1 .. Len(plan), l <= c
        PROVE  next.degree[plan[l].id] = Cardinality(Pending(plan, plan[l].id, O))
    <3>1. CASE l = c
      BY <1>5, <1>7, <2>1, <3>1
    <3>2. CASE l # c
      <4>1. next.degree[plan[l].id] = prev.degree[plan[l].id] /\ l <= k
        BY <1>0, <1>7, <2>1, <2>2, <2>3, <3>2
      <4> QED
        BY <4>1 DEF Counted, O
    <3> QED
      BY <3>1, <3>2
  <2>4. ASSUME NEW l \in 1 .. Len(plan), l > c
        PROVE  next.degree[plan[l].id] = Cardinality(Pending(plan, plan[l].id, D))
    <3>1. next.degree[plan[l].id] = prev.degree[plan[l].id] /\ l > k
      BY <1>0, <1>7, <2>1, <2>2, <2>4
    <3> QED
      BY <3>1 DEF Counted
  <2> QED
    BY <2>3, <2>4 DEF Counted, O
<1> QED
  BY <1>2, <1>8, <1>9 DEF c, next, O

\* Kahn's invariant: what is out is in order, a degree counts the dependencies
\* that are not out, and the nodes without any are out or ready.
Kahn(plan, s) ==
    /\ s.out \in Seq(IDs(plan)) /\ OrderedOnce(plan, s.out)
    /\ Queued(plan, Range(s.out), s)
    /\ \A i \in IDs(plan) : s.degree[i] = Cardinality(Pending(plan, i, Range(s.out)))

\* r is s after id went out, D being out before.
Settled(plan, D, id, s, r) ==
    /\ r.out = s.out
    /\ Queued(plan, D \cup {id}, r)
    /\ \A i \in IDs(plan) : r.degree[i] = Cardinality(Pending(plan, i, D \cup {id}))

LEMMA ReleasedStep ==
    ASSUME NEW plan, Formed(plan), NEW D, NEW id, id \notin D, NEW s,
           Queued(plan, D \cup {id}, s), Counted(plan, D, id, s, 0)
    PROVE  Settled(plan, D, id, s, Released(plan, s, id))
<1> DEFINE n == Len(plan)
<1>0. plan \in Seq(Nodes) /\ n \in Nat /\ DOMAIN plan = 1 .. n
  BY PlanNodes DEF Formed
<1>1. PICK after : /\ Released(plan, s, id) = after[n]
                   /\ after[0] = s
                   /\ \A k \in 0 .. n - 1 : after[k + 1] = Lowered(plan, s.out, id, after[k], k + 1)
  BY <1>0, ReleasedUnfolds
<1> DEFINE P == {k \in 0 .. n : /\ after[k].out = s.out
                                /\ Queued(plan, D \cup {id}, after[k])
                                /\ Counted(plan, D, id, after[k], k)}
<1>2. 0 \in P
  BY <1>0, <1>1
<1>3. ASSUME NEW k \in 0 .. n - 1, k \in P PROVE k + 1 \in P
  <2>1. after[k + 1] = Lowered(plan, s.out, id, after[k], k + 1)
    BY <1>1
  <2>2. k + 1 \in 0 .. n
    BY <1>0
  <2>3. /\ Lowered(plan, s.out, id, after[k], k + 1).out = s.out
        /\ Queued(plan, D \cup {id}, Lowered(plan, s.out, id, after[k], k + 1))
        /\ Counted(plan, D, id, Lowered(plan, s.out, id, after[k], k + 1), k + 1)
    BY <1>3, LoweredStep
  <2> QED
    BY <2>1, <2>2, <2>3
<1>4. n \in P
  <2> HIDE DEF P, n
  <2>1. 0 .. n \subseteq P
    BY <1>0, <1>2, <1>3, CountUp
  <2> QED
    BY <1>0, <2>1
<1>5. /\ after[n].out = s.out /\ Queued(plan, D \cup {id}, after[n])
      /\ Counted(plan, D, id, after[n], n)
  BY <1>4
<1> HIDE DEF n
<1>6. ASSUME NEW i \in IDs(plan)
      PROVE  after[n].degree[i] = Cardinality(Pending(plan, i, D \cup {id}))
  <2>1. PICK l \in 1 .. n : i = plan[l].id
    BY <1>0 DEF IDs
  <2>2. l <= n
    BY <1>0
  <2> QED
    BY <1>5, <2>1, <2>2 DEF Counted, n
<1> QED
  BY <1>1, <1>5, <1>6 DEF Settled

Round(plan, s) ==
    IF s.ready = <<>> THEN s
    ELSE Released(plan, [out |-> Append(s.out, Head(s.ready)), ready |-> Tail(s.ready),
                         degree |-> s.degree], Head(s.ready))

LEMMA TakeFirst ==
    ASSUME NEW S, NEW s \in Seq(S), s # <<>>, IsInjective(s)
    PROVE  /\ Head(s) \in S /\ Tail(s) \in Seq(S) /\ IsInjective(Tail(s))
           /\ Head(s) \in Range(s) /\ Range(Tail(s)) = Range(s) \ {Head(s)}
<1> DEFINE t == Tail(s)
           h == Head(s)
<1>1. /\ Len(s) \in Nat /\ Len(s) > 0 /\ h = s[1] /\ t \in Seq(S) /\ Len(t) = Len(s) - 1
      /\ DOMAIN s = 1 .. Len(s) /\ DOMAIN t = 1 .. Len(t)
      /\ \A k \in 1 .. Len(t) : t[k] = s[k + 1]
  OBVIOUS
<1> HIDE DEF t, h
<1>2. h \in S /\ h \in Range(s)
  BY <1>1 DEF Range
<1>3. IsInjective(t)
  <2> SUFFICES ASSUME NEW p \in 1 .. Len(t), NEW q \in 1 .. Len(t), t[p] = t[q] PROVE p = q
    BY <1>1 DEF IsInjective
  <2>1. p + 1 \in 1 .. Len(s) /\ q + 1 \in 1 .. Len(s) /\ s[p + 1] = s[q + 1]
    BY <1>1
  <2>2. p + 1 = q + 1
    BY <1>1, <2>1 DEF IsInjective
  <2> QED
    BY <2>2
<1>4. ASSUME NEW x \in Range(t) PROVE x \in Range(s) \ {h}
  <2>1. PICK p \in 1 .. Len(t) : x = t[p]
    BY <1>1, <1>4 DEF Range
  <2> DEFINE q == p + 1
  <2>2. q \in 1 .. Len(s) /\ q # 1 /\ x = s[q] /\ 1 \in 1 .. Len(s)
    BY <1>1, <2>1
  <2> HIDE DEF q
  <2> QED
    BY <1>1, <2>2 DEF Range, IsInjective
<1>5. ASSUME NEW x \in Range(s) \ {h} PROVE x \in Range(t)
  <2>1. PICK q \in 1 .. Len(s) : x = s[q]
    BY <1>1, <1>5 DEF Range
  <2> DEFINE p == q - 1
  <2>2. q # 1
    BY <1>1, <1>5, <2>1
  <2>3. p \in 1 .. Len(t) /\ q = p + 1
    BY <1>1, <2>2
  <2> HIDE DEF p
  <2>4. t[p] = x
    BY <1>1, <2>1, <2>3
  <2> QED
    BY <1>1, <2>3, <2>4 DEF Range
<1> QED
  BY <1>1, <1>2, <1>3, <1>4, <1>5 DEF t, h

LEMMA RoundStep ==
    ASSUME NEW plan, Formed(plan), NEW s, Kahn(plan, s), s.ready # <<>>
    PROVE  /\ Kahn(plan, Round(plan, s))
           /\ Len(Round(plan, s).out) = Len(s.out) + 1
<1> DEFINE h == Head(s.ready)
           O == Range(s.out)
           w == Append(s.out, h)
           u == [out |-> w, ready |-> Tail(s.ready), degree |-> s.degree]
           r == Released(plan, u, h)
<1>0. plan \in Seq(Nodes) /\ Len(plan) \in Nat /\ DOMAIN plan = 1 .. Len(plan)
  BY PlanNodes DEF Formed
<1>1. /\ s.out \in Seq(IDs(plan)) /\ OrderedOnce(plan, s.out) /\ IsInjective(s.out)
      /\ s.ready \in Seq(IDs(plan)) /\ IsInjective(s.ready)
      /\ s.degree \in [IDs(plan) -> Int]
      /\ O \cap Range(s.ready) = {}
      /\ \A i \in IDs(plan) : s.degree[i] = 0 <=> i \in O \cup Range(s.ready)
      /\ \A i \in IDs(plan) : s.degree[i] = Cardinality(Pending(plan, i, O))
  BY DEF Kahn, Queued, OrderedOnce
<1>2. Round(plan, s) = r
  BY DEF Round
<1>3. u.out = w /\ u.ready = Tail(s.ready) /\ u.degree = s.degree
  OBVIOUS
<1> HIDE DEF u, r, w, h, O
<1>4. /\ h \in IDs(plan) /\ h \in Range(s.ready) /\ Tail(s.ready) \in Seq(IDs(plan))
      /\ IsInjective(Tail(s.ready)) /\ Range(Tail(s.ready)) = Range(s.ready) \ {h}
  BY <1>1, TakeFirst DEF h
<1>5. h \notin O /\ s.degree[h] = 0
  BY <1>1, <1>4
<1>6. /\ w \in Seq(IDs(plan)) /\ IsInjective(w) /\ Range(w) = O \cup {h} /\ Len(w) = Len(s.out) + 1
  BY <1>1, <1>4, <1>5, AppendNew DEF w, O
<1>7. Queued(plan, O \cup {h}, u)
  BY <1>1, <1>3, <1>4, <1>5 DEF Queued
<1>8. Counted(plan, O, h, u, 0)
  <2>1. \A l \in 1 .. Len(plan) : ~(l <= 0) /\ plan[l].id \in IDs(plan)
    BY <1>0, PlanNodes
  <2> QED
    BY <1>1, <1>3, <2>1 DEF Counted
<1>9. /\ r.out = w /\ Queued(plan, O \cup {h}, r)
      /\ \A i \in IDs(plan) : r.degree[i] = Cardinality(Pending(plan, i, O \cup {h}))
  <2>1. Settled(plan, O, h, u, r)
    BY <1>5, <1>7, <1>8, ReleasedStep DEF r
  <2> QED
    BY <1>3, <2>1 DEF Settled
<1>10. OrderedOnce(plan, w)
  <2>1. Range(DepsOf(plan, h)) \subseteq O
    BY <1>0, <1>1, <1>4, <1>5, PendingCount
  <2>2. /\ Len(s.out) \in Nat /\ DOMAIN w = 1 .. Len(s.out) + 1 /\ w[Len(s.out) + 1] = h
        /\ DOMAIN s.out = 1 .. Len(s.out) /\ \A k \in 1 .. Len(s.out) : w[k] = s.out[k]
    BY <1>1, <1>4 DEF w
  <2>3. ASSUME NEW k \in DOMAIN w, NEW j \in DOMAIN DepsOf(plan, w[k])
        PROVE  \E i \in 1 .. (k - 1) : w[i] = DepsOf(plan, w[k])[j]
    <3>1. CASE k = Len(s.out) + 1
      <4>1. DepsOf(plan, w[k])[j] \in O
        BY <2>1, <2>2, <2>3, <3>1 DEF Range
      <4>2. PICK i \in 1 .. Len(s.out) : s.out[i] = DepsOf(plan, w[k])[j]
        BY <2>2, <4>1 DEF O, Range
      <4>3. i \in 1 .. k - 1 /\ w[i] = s.out[i]
        BY <2>2, <3>1
      <4> QED
        BY <4>2, <4>3
    <3>2. CASE k # Len(s.out) + 1
      <4>1. k \in 1 .. Len(s.out) /\ w[k] = s.out[k]
        BY <2>2, <3>2
      <4>2. PICK i \in 1 .. (k - 1) : s.out[i] = DepsOf(plan, s.out[k])[j]
        BY <1>1, <2>2, <2>3, <4>1 DEF OrderedOnce
      <4>3. w[i] = s.out[i]
        BY <2>2, <4>1
      <4> QED
        BY <4>1, <4>2, <4>3
    <3> QED
      BY <3>1, <3>2
  <2> QED
    BY <1>6, <2>3 DEF OrderedOnce
<1> QED
  BY <1>2, <1>6, <1>9, <1>10 DEF Kahn

Start(plan) == [out |-> <<>>, ready |-> Roots(plan),
                degree |-> [i \in IDs(plan) |-> Len(DepsOf(plan, i))]]

Rounds(after, plan, n) ==
    after = [k \in 0 .. n |-> IF k = 0 THEN Start(plan) ELSE Round(plan, after[k - 1])]

LEMMA RoundsExist ==
    ASSUME NEW plan, NEW n \in Nat
    PROVE  \E after : Rounds(after, plan, n)
<1> DEFINE P == {k \in 0 .. n : \E t : Rounds(t, plan, k)}
<1>1. 0 \in P
  <2> DEFINE t == [i \in 0 .. 0 |-> Start(plan)]
  <2>1. Rounds(t, plan, 0)
    BY DEF Rounds
  <2> QED
    BY <2>1
<1>2. ASSUME NEW k \in 0 .. n - 1, k \in P PROVE k + 1 \in P
  <2>1. PICK t : Rounds(t, plan, k)
    BY <1>2
  <2> DEFINE next == Round(plan, t[k])
             u == [i \in 0 .. k + 1 |-> IF i = k + 1 THEN next ELSE t[i]]
  <2>2. \A i \in 0 .. k + 1 : u[i] = IF i = 0 THEN Start(plan) ELSE Round(plan, u[i - 1])
    <3> SUFFICES ASSUME NEW i \in 0 .. k + 1
                 PROVE  u[i] = IF i = 0 THEN Start(plan) ELSE Round(plan, u[i - 1])
      OBVIOUS
    <3>1. CASE i = k + 1
      <4>1. i - 1 = k /\ u[i] = next /\ u[i - 1] = t[k] /\ i # 0
        BY <3>1
      <4> QED
        BY <3>1, <4>1
    <3>2. CASE i # k + 1
      <4>1. i \in 0 .. k /\ u[i] = t[i] /\ (i # 0 => i - 1 \in 0 .. k /\ u[i - 1] = t[i - 1])
        BY <3>2
      <4>2. t[i] = IF i = 0 THEN Start(plan) ELSE Round(plan, t[i - 1])
        BY <2>1, <4>1 DEF Rounds
      <4> QED
        BY <4>1, <4>2
    <3> QED
      BY <3>1, <3>2
  <2>3. Rounds(u, plan, k + 1)
    BY <2>2 DEF Rounds
  <2>4. k + 1 \in 0 .. n
    OBVIOUS
  <2> QED
    BY <2>3, <2>4
<1> HIDE DEF P
<1>3. 0 .. n \subseteq P
  BY <1>1, <1>2, CountUp
<1>4. n \in P
  BY <1>3
<1> QED
  BY <1>4 DEF P

LEMMA TopoSortUnfolds ==
    ASSUME NEW plan \in Seq(Nodes)
    PROVE  \E after : /\ TopoSort(plan) = after[Len(plan)].out
                      /\ after[0] = Start(plan)
                      /\ \A k \in 0 .. Len(plan) - 1 : after[k + 1] = Round(plan, after[k])
<1> DEFINE n == Len(plan)
<1>1. n \in Nat
  BY PlanNodes
<1>2. \E after : Rounds(after, plan, n)
  BY <1>1, RoundsExist
<1>3. \E after : Rounds(after, plan, n) /\ TopoSort(plan) = after[n].out
  BY <1>2 DEF Rounds, TopoSort, Round, Start
<1>4. PICK after : Rounds(after, plan, n) /\ TopoSort(plan) = after[n].out
  BY <1>3
<1> HIDE DEF n
<1>5. after[0] = Start(plan)
  BY <1>1, <1>4 DEF Rounds
<1>6. ASSUME NEW k \in 0 .. n - 1 PROVE after[k + 1] = Round(plan, after[k])
  <2> DEFINE m == k + 1
  <2>1. m \in 0 .. n /\ m # 0 /\ m - 1 = k
    BY <1>1
  <2> HIDE DEF m
  <2>2. after[m] = Round(plan, after[m - 1])
    BY <1>4, <2>1 DEF Rounds
  <2>3. after[m] = Round(plan, after[k])
    BY <2>1, <2>2
  <2> QED
    BY <2>3 DEF m
<1> QED
  BY <1>4, <1>5, <1>6 DEF n

LEMMA StartIsKahn ==
    ASSUME NEW plan, Formed(plan)
    PROVE  Kahn(plan, Start(plan)) /\ Len(Start(plan).out) = 0
<1> DEFINE s == Start(plan)
<1>0. plan \in Seq(Nodes)
  BY DEF Formed
<1>1. s.out = <<>> /\ s.ready = Roots(plan) /\ s.degree = [i \in IDs(plan) |-> Len(DepsOf(plan, i))]
  BY DEF Start
<1> HIDE DEF s
<1>2. /\ Roots(plan) \in Seq(IDs(plan)) /\ IsInjective(Roots(plan))
      /\ \A x : x \in Range(Roots(plan)) <=> x \in IDs(plan) /\ DepsOf(plan, x) = <<>>
  BY RootsOf
<1>3. \A S : <<>> \in Seq(S) /\ Range(<<>>) = {} /\ IsInjective(<<>>)
  BY NoSeq
<1>4. DOMAIN <<>> = {} /\ Len(<<>>) = 0
  OBVIOUS
<1>5. OrderedOnce(plan, <<>>)
  BY <1>3, <1>4 DEF OrderedOnce
<1>6. ASSUME NEW i \in IDs(plan)
      PROVE  /\ s.degree[i] \in Int
             /\ s.degree[i] = Cardinality(Pending(plan, i, {}))
             /\ s.degree[i] = 0 <=> i \in {} \cup Range(s.ready)
  <2> DEFINE e == DepsOf(plan, i)
  <2>1. e \in Seq(NodeIDs)
    BY <1>0, DepsOfAny
  <2>2. s.degree[i] = Len(e) /\ (i \in Range(s.ready) <=> e = <<>>)
    BY <1>1, <1>2
  <2>3. Pending(plan, i, {}) = DOMAIN e
    BY DEF Pending
  <2> HIDE DEF e
  <2> DEFINE z == Len(e)
  <2>4. DOMAIN e = 1 .. z /\ z \in Nat /\ 1 \in Int /\ z \in Int /\ (z = 0 <=> e = <<>>)
    BY <2>1
  <2> HIDE DEF z
  <2>5. Cardinality(1 .. z) = IF 1 > z THEN 0 ELSE z - 1 + 1
    BY <2>4, FS_Interval
  <2>6. Cardinality(1 .. z) = z
    BY <2>4, <2>5
  <2> QED
    BY <2>2, <2>3, <2>4, <2>6 DEF z
<1>7. s.degree \in [IDs(plan) -> Int]
  BY <1>1, <1>6
<1>8. Queued(plan, {}, s)
  BY <1>1, <1>2, <1>6, <1>7 DEF Queued
<1>9. Range(s.out) = {} /\ s.out \in Seq(IDs(plan)) /\ OrderedOnce(plan, s.out) /\ Len(s.out) = 0
  BY <1>1, <1>3, <1>4, <1>5
<1>10. Kahn(plan, s)
  BY <1>6, <1>8, <1>9 DEF Kahn
<1> QED
  BY <1>9, <1>10 DEF s

LEMMA InjectiveLength ==
    ASSUME NEW S, NEW s \in Seq(S), IsInjective(s)
    PROVE  Cardinality(Range(s)) = Len(s)
<1> DEFINE z == Len(s)
<1>1. z \in Nat /\ DOMAIN s = 1 .. z /\ 1 \in Int /\ z \in Int
  OBVIOUS
<1>2. s \in Bijection(1 .. z, Range(s))
  <2>1. s \in [1 .. z -> Range(s)]
    BY <1>1 DEF Range
  <2>2. \A t \in Range(s) : \E k \in 1 .. z : s[k] = t
    BY <1>1 DEF Range
  <2> QED
    BY <2>1, <2>2 DEF Bijection, Injection, Surjection
<1> HIDE DEF z
<1>3. IsFiniteSet(1 .. z) /\ Cardinality(1 .. z) = IF 1 > z THEN 0 ELSE z - 1 + 1
  BY <1>1, FS_Interval
<1>4. Cardinality(1 .. z) = z
  BY <1>1, <1>3
<1>5. ExistsBijection(1 .. z, Range(s))
  BY <1>2 DEF ExistsBijection
<1>6. Cardinality(Range(s)) = Cardinality(1 .. z)
  BY <1>3, <1>5, FS_Bijection
<1> QED
  BY <1>4, <1>6 DEF z

LEMMA PlanLength ==
    ASSUME NEW plan, Formed(plan)
    PROVE  Cardinality(IDs(plan)) = Len(plan)
<1> DEFINE s == IDList(plan)
<1>0. plan \in Seq(Nodes)
  BY DEF Formed
<1>1. /\ Len(plan) \in Nat /\ DOMAIN plan = 1 .. Len(plan)
      /\ \A k \in 1 .. Len(plan) : plan[k].id \in IDs(plan)
  BY <1>0, PlanNodes
<1>2. s = [k \in 1 .. Len(plan) |-> plan[k].id]
  BY <1>1 DEF IDList
<1> HIDE DEF s
<1>3. s \in Seq(IDs(plan)) /\ Len(s) = Len(plan) /\ DOMAIN s = 1 .. Len(plan)
  BY <1>1, <1>2
<1>4. IsInjective(s)
  BY <1>1, <1>2, <1>3 DEF IsInjective, Formed
<1>5. Range(s) = IDs(plan)
  BY <1>1, <1>2, <1>3 DEF Range, IDs
<1> QED
  BY <1>3, <1>4, <1>5, InjectiveLength

\* Kahn's algorithm on a plan without cycles: every node once, each after its
\* dependencies.
THEOREM TopoSortOrders ==
    ASSUME NEW plan \in Seq(Nodes), WellFormed(plan)
    PROVE  /\ TopoSort(plan) \in Seq(NodeIDs)
           /\ OrderedOnce(plan, TopoSort(plan))
           /\ Len(TopoSort(plan)) = Len(plan)
           /\ Range(TopoSort(plan)) = IDs(plan)
<1> DEFINE n == Len(plan)
<1>0. Formed(plan) /\ Acyclic(plan) /\ n \in Nat /\ IDs(plan) \subseteq NodeIDs
  BY WellFormedMeans, PlanNodes
<1>1. PICK after : /\ TopoSort(plan) = after[n].out
                   /\ after[0] = Start(plan)
                   /\ \A k \in 0 .. n - 1 : after[k + 1] = Round(plan, after[k])
  BY TopoSortUnfolds
<1> DEFINE P == {k \in 0 .. n : Kahn(plan, after[k]) /\ (Len(after[k].out) = k \/ after[k].ready = <<>>)}
<1>2. 0 \in P
  BY <1>0, <1>1, StartIsKahn
<1>3. ASSUME NEW k \in 0 .. n - 1, k \in P PROVE k + 1 \in P
  <2>1. after[k + 1] = Round(plan, after[k]) /\ k + 1 \in 0 .. n
    BY <1>0, <1>1
  <2>2. CASE after[k].ready = <<>>
    <3>1. after[k + 1] = after[k]
      BY <2>1, <2>2 DEF Round
    <3> QED
      BY <1>3, <2>1, <2>2, <3>1
  <2>3. CASE after[k].ready # <<>>
    <3>1. Kahn(plan, after[k]) /\ Len(after[k].out) = k
      BY <1>3, <2>3
    <3>2. Kahn(plan, Round(plan, after[k])) /\ Len(Round(plan, after[k]).out) = Len(after[k].out) + 1
      BY <1>0, <2>3, <3>1, RoundStep
    <3> QED
      BY <2>1, <3>1, <3>2
  <2> QED
    BY <2>2, <2>3
<1>4. n \in P
  <2> HIDE DEF P, n
  <2>1. 0 .. n \subseteq P
    BY <1>0, <1>2, <1>3, CountUp
  <2> QED
    BY <1>0, <2>1
<1> DEFINE s == after[n]
           out == TopoSort(plan)
<1>5. Kahn(plan, s) /\ (Len(s.out) = n \/ s.ready = <<>>) /\ out = s.out
  BY <1>1, <1>4
<1> HIDE DEF s, out, n
<1>6. /\ out \in Seq(IDs(plan)) /\ OrderedOnce(plan, out) /\ IsInjective(out)
  BY <1>5 DEF Kahn, OrderedOnce
<1>7. Cardinality(Range(out)) = Len(out) /\ Range(out) \subseteq IDs(plan)
  BY <1>6, InjectiveLength, EmptyRange
<1>8. Cardinality(IDs(plan)) = n /\ IsFiniteSet(IDs(plan))
  BY <1>0, PlanLength, PlanNodes DEF n
<1>9. Range(out) = IDs(plan)
  <2>1. CASE Len(s.out) = n
    <3>1. Cardinality(IDs(plan)) = Cardinality(Range(out)) /\ Range(out) \in SUBSET IDs(plan)
      BY <1>5, <1>7, <1>8, <2>1
    <3> QED
      BY <1>8, <3>1, FS_Subset
  <2>2. CASE s.ready = <<>>
    <3> DEFINE T == IDs(plan) \ Range(out)
    <3>1. SUFFICES ASSUME T # {} PROVE FALSE
      BY <1>7
    <3>2. T \in SUBSET IDs(plan)
      OBVIOUS
    <3> HIDE DEF T
    <3>3. PICK i \in T : \A d \in Range(DepsOf(plan, i)) : d \in IDs(plan) \ T
      BY <1>0, <3>1, <3>2, Lowest
    <3>4. Range(DepsOf(plan, i)) \subseteq Range(out) /\ i \in IDs(plan) /\ i \notin Range(out)
      BY <3>3 DEF T
    <3>5. Cardinality(Pending(plan, i, Range(out))) = 0
      BY <3>4, PendingCount
    <3>6. s.degree[i] = 0
      BY <1>5, <3>4, <3>5 DEF Kahn
    <3>7. i \in Range(out) \cup Range(<<>>)
      BY <1>5, <2>2, <3>4, <3>6 DEF Kahn, Queued
    <3>8. Range(<<>>) = {}
      BY NoSeq
    <3> QED
      BY <3>4, <3>7, <3>8
  <2> QED
    BY <1>5, <2>1, <2>2
<1>10. Len(out) = n
  BY <1>7, <1>8, <1>9
<1>11. out \in Seq(NodeIDs)
  BY <1>0, <1>6
<1> QED
  BY <1>6, <1>9, <1>10, <1>11 DEF out, n
==============================================================================
