--------------------------- MODULE ObserverProofs ---------------------------
(***************************************************************************)
(* Proofs about the observers of the event bus, for any number of runs and *)
(* any capacities: what the state cache holds is exact, its eviction       *)
(* spares runs in flight while it can, the tracker of the metrics drops a  *)
(* start only when more runs are under way than it has room for, and the   *)
(* families of the metrics and every page rendered from them add up.       *)
(***************************************************************************)
EXTENDS Observers, TLAPS, FiniteSetTheorems, WellFoundedInduction

-----------------------------------------------------------------------------
(* Lists of runs in the order of their insertion *)

\* Something comes first.
LEMMA Least ==
    ASSUME NEW T \in SUBSET Nat, T # {}
    PROVE  Min(T) \in T /\ \A m \in T : Min(T) <= m
<1> DEFINE R == OpToRel(<, Nat)
<1>1. IsWellFoundedOn(R, Nat)
  BY NatLessThanWellFounded
<1>2. \A x, y \in Nat : <<y, x>> \in R <=> y < x
  BY DEF OpToRel
<1> HIDE DEF R
<1>3. PICK n \in T : \A y \in T : ~(<<y, n>> \in R)
  BY <1>1, WFMin
<1>4. ASSUME NEW m \in T PROVE n <= m
  <2>1. ~(m < n) /\ m \in Nat /\ n \in Nat
    BY <1>2, <1>3
  <2> QED
    BY <2>1
<1> QED
  BY <1>4 DEF Min

\* A run that is not listed goes to the end.
LEMMA Appended ==
    ASSUME NEW s \in Seq(RunIDs), IsInjective(s), NEW r \in RunIDs \ Range(s)
    PROVE  /\ Append(s, r) \in Seq(RunIDs) /\ IsInjective(Append(s, r))
           /\ Len(Append(s, r)) = Len(s) + 1
           /\ Range(Append(s, r)) = Range(s) \cup {r}
           /\ Append(s, r)[Len(s) + 1] = r
           /\ \A i \in 1 .. Len(s) : Append(s, r)[i] = s[i]
<1> DEFINE t == Append(s, r)
<1>1. /\ t \in Seq(RunIDs) /\ Len(t) = Len(s) + 1 /\ Len(s) \in Nat /\ DOMAIN s = 1 .. Len(s)
      /\ DOMAIN t = 1 .. Len(t) /\ t[Len(s) + 1] = r /\ \A i \in 1 .. Len(s) : t[i] = s[i]
  OBVIOUS
<1> HIDE DEF t
<1>2. \A i \in 1 .. Len(s) : s[i] \in Range(s)
  BY <1>1 DEF Range
<1>3. IsInjective(t)
  BY <1>1, <1>2 DEF IsInjective
<1>4. Range(t) = Range(s) \cup {r}
  <2>1. ASSUME NEW x \in Range(t) PROVE x \in Range(s) \cup {r}
    BY <1>1, <2>1 DEF Range
  <2>2. ASSUME NEW x \in Range(s) PROVE x \in Range(t)
    <3>1. PICK i \in 1 .. Len(s) : x = s[i]
      BY <1>1, <2>2 DEF Range
    <3>2. i \in 1 .. Len(t) /\ t[i] = x
      BY <3>1, <1>1
    <3> QED
      BY <3>2, <1>1 DEF Range
  <2>3. r \in Range(t)
    <3>1. Len(t) \in 1 .. Len(t) /\ t[Len(t)] = r
      BY <1>1
    <3> QED
      BY <3>1, <1>1 DEF Range
  <2> QED
    BY <2>1, <2>2, <2>3
<1> QED
  BY <1>1, <1>3, <1>4 DEF t

\* What comes after a place in a list.
LEMMA Rest ==
    ASSUME NEW s \in Seq(RunIDs), NEW i \in 1 .. Len(s)
    PROVE  /\ SubSeq(s, i + 1, Len(s)) \in Seq(RunIDs)
           /\ Len(SubSeq(s, i + 1, Len(s))) = Len(s) - i
           /\ \A k \in 1 .. Len(s) - i : SubSeq(s, i + 1, Len(s))[k] = s[i + k]
<1>1. /\ SubSeq(s, i + 1, Len(s)) \in Seq(RunIDs)
      /\ Len(SubSeq(s, i + 1, Len(s))) = Len(s) - i
      /\ Len(s) \in Nat /\ i \in Nat /\ i <= Len(s) /\ i >= 1
  OBVIOUS
<1>2. \A k \in 1 .. Len(s) - i : SubSeq(s, i + 1, Len(s))[k] = s[i + k]
  BY <1>1
<1> QED
  BY <1>1, <1>2

\* The loop that looks for a run and cuts it out: the others stay, in order.
LEMMA Removed ==
    ASSUME NEW s \in Seq(RunIDs), IsInjective(s), NEW r \in Range(s)
    PROVE  /\ RemoveFirst(s, r) \in Seq(RunIDs) /\ IsInjective(RemoveFirst(s, r))
           /\ Len(RemoveFirst(s, r)) = Len(s) - 1
           /\ Range(RemoveFirst(s, r)) = Range(s) \ {r}
<1>0. PICK i \in 1 .. Len(s) : s[i] = r
  BY DEF Range
<1>00. Len(s) \in Nat /\ i \in Nat /\ i <= Len(s) /\ i >= 1 /\ DOMAIN s = 1 .. Len(s)
  BY <1>0
<1> DEFINE a == SubSeq(s, 1, i - 1)  b == SubSeq(s, i + 1, Len(s))  t == a \o b
<1>1. RemoveFirst(s, r) = t
  <2>1. {j \in 1 .. Len(s) : s[j] = r} = {i}
    BY <1>0, <1>00 DEF IsInjective
  <2>2. Min({i}) = i
    BY <1>00, Least
  <2>3. SelectInSeq(s, LAMBDA v : v = r) = i
    BY <2>1, <2>2 DEF SelectInSeq
  <2> QED
    BY <1>0, <2>3 DEF RemoveFirst, RemoveAt
<1>2. a \in Seq(RunIDs) /\ Len(a) = i - 1 /\ \A k \in 1 .. i - 1 : a[k] = s[k]
  BY <1>00
<1>3. b \in Seq(RunIDs) /\ Len(b) = Len(s) - i /\ \A k \in 1 .. Len(s) - i : b[k] = s[i + k]
  BY <1>0, Rest
<1> HIDE DEF a, b
<1>4. t \in Seq(RunIDs) /\ Len(t) = Len(s) - 1 /\ DOMAIN t = 1 .. Len(t)
  <2>1. \A u, v \in Seq(RunIDs) : /\ u \o v \in Seq(RunIDs) /\ Len(u \o v) = Len(u) + Len(v)
                                  /\ DOMAIN (u \o v) = 1 .. Len(u \o v)
    OBVIOUS
  <2>2. t \in Seq(RunIDs) /\ Len(t) = Len(a) + Len(b) /\ DOMAIN t = 1 .. Len(t)
    BY <2>1, <1>2, <1>3
  <2> QED
    BY <2>2, <1>2, <1>3, <1>00
<1>5. \A k \in 1 .. Len(s) - 1 : t[k] = IF k < i THEN s[k] ELSE s[k + 1]
  <2> SUFFICES ASSUME NEW k \in 1 .. Len(s) - 1 PROVE t[k] = IF k < i THEN s[k] ELSE s[k + 1]
    OBVIOUS
  <2>1. CASE k < i
    BY <2>1, <1>00, <1>2, <1>3
  <2>2. CASE ~(k < i)
    <3>1. t[k] = b[k - (i - 1)]
      BY <2>2, <1>00, <1>2, <1>3
    <3>2. k - (i - 1) \in 1 .. Len(s) - i /\ i + (k - (i - 1)) = k + 1
      BY <2>2, <1>00
    <3> QED
      BY <3>1, <3>2, <1>3, <2>2
  <2> QED
    BY <2>1, <2>2
<1> HIDE DEF t
<1>6. IsInjective(t)
  <2> SUFFICES ASSUME NEW j \in 1 .. Len(s) - 1, NEW k \in 1 .. Len(s) - 1, t[j] = t[k] PROVE j = k
    BY <1>4 DEF IsInjective
  <2> DEFINE At(x) == IF x < i THEN x ELSE x + 1
  <2>1. /\ At(j) \in 1 .. Len(s) /\ t[j] = s[At(j)]
        /\ At(k) \in 1 .. Len(s) /\ t[k] = s[At(k)]
    BY <1>00, <1>5
  <2>2. At(j) = At(k)
    BY <2>1, <1>00 DEF IsInjective
  <2> QED
    BY <2>2, <1>00
<1>7. ASSUME NEW x \in Range(t) PROVE x \in Range(s) \ {r}
  <2>1. PICK k \in 1 .. Len(t) : x = t[k]
    BY <1>4, <1>7 DEF Range
  <2>2. PICK m \in 1 .. Len(s) : x = s[m] /\ m # i
    BY <2>1, <1>00, <1>4, <1>5
  <2> QED
    BY <2>2, <1>0, <1>00 DEF Range, IsInjective
<1>8. ASSUME NEW x \in Range(s) \ {r} PROVE x \in Range(t)
  <2>1. PICK k \in 1 .. Len(s) : s[k] = x /\ k # i
    BY <1>0, <1>00 DEF Range
  <2>2. CASE k < i
    <3>1. k \in 1 .. Len(t) /\ t[k] = x
      BY <2>1, <2>2, <1>00, <1>4, <1>5
    <3> QED
      BY <3>1, <1>4 DEF Range
  <2>3. CASE k > i
    <3>1. k - 1 \in 1 .. Len(t) /\ t[k - 1] = x
      BY <2>1, <2>3, <1>00, <1>4, <1>5
    <3> QED
      BY <3>1, <1>4 DEF Range
  <2> QED
    BY <2>1, <2>2, <2>3, <1>00
<1> QED
  BY <1>1, <1>4, <1>6, <1>7, <1>8

\* A list without repetitions is as long as the set it lists is large.
LEMMA Counted ==
    ASSUME NEW s \in Seq(RunIDs), IsInjective(s)
    PROVE  IsFiniteSet(Range(s)) /\ Cardinality(Range(s)) = Len(s)
<1>1. s \in [1 .. Len(s) -> Range(s)] /\ Len(s) \in Nat /\ DOMAIN s = 1 .. Len(s)
  BY DEF Range
<1>2. s \in Bijection(1 .. Len(s), Range(s))
  <2>1. s \in Injection(1 .. Len(s), Range(s))
    BY <1>1 DEF Injection
  <2>2. s \in Surjection(1 .. Len(s), Range(s))
    BY <1>1 DEF Surjection, Range
  <2> QED
    BY <2>1, <2>2 DEF Bijection
<1>3. ExistsBijection(1 .. Len(s), Range(s))
  BY <1>2 DEF ExistsBijection
<1> QED
  BY <1>1, <1>3, FS_CountingElements, FS_NatBijection

-----------------------------------------------------------------------------
(* The state cache *)

\* What CacheExact needs to be inductive: the runs that have never been in the
\* cache have published nothing, and without the subscription it stays empty.
CacheInvariant ==
    /\ order \in Seq(RunIDs)
    /\ DOMAIN truth = RunIDs
    /\ OrderListsStates
    /\ SnapshotIsExact
    /\ "cache" \in attached =>
          \A r \in RunIDs \ (DOMAIN states \cup gone) : truth[r] = NewExecutionState(r)
    /\ "cache" \notin attached => DOMAIN states = {}

\* The choice of evictIfFull is listed, and has ended unless nothing has.
LEMMA EvictChoice ==
    ASSUME NEW sts, NEW ord \in Seq(RunIDs), Len(ord) > 0
    PROVE  LET v == Evict(sts, ord)
           IN  /\ v \in Range(ord)
               /\ \/ IsTerminal(sts[v].phase)
                  \/ v = ord[1] /\ \A q \in Range(ord) : ~IsTerminal(sts[q].phase)
<1> DEFINE ended == {i \in DOMAIN ord : IsTerminal(sts[ord[i]].phase)}
<1>1. ended \in SUBSET Nat /\ DOMAIN ord = 1 .. Len(ord) /\ 1 \in DOMAIN ord
  OBVIOUS
<1>2. CASE ended = {}
  <2>1. Evict(sts, ord) = ord[1]
    BY <1>2 DEF Evict
  <2>2. \A q \in Range(ord) : ~IsTerminal(sts[q].phase)
    BY <1>2 DEF Range
  <2> QED
    BY <1>1, <2>1, <2>2 DEF Range
<1>3. CASE ended # {}
  <2>1. Min(ended) \in ended
    BY <1>1, <1>3, Least
  <2>2. Evict(sts, ord) = ord[Min(ended)]
    BY <1>3 DEF Evict
  <2> QED
    BY <2>1, <2>2 DEF Range
<1> QED
  BY <1>2, <1>3

\* What apply does with the entries: it may drop one that was there, the run
\* itself stays, and the others are left alone.
Kept(r, type, dropped) ==
    /\ DOMAIN states' = (DOMAIN states \cup {r}) \ dropped
    /\ gone' = gone \cup dropped
    /\ \A q \in DOMAIN states' \ {r} : states'[q] = states[q]
    /\ states'[r] = Apply(IF r \in DOMAIN states THEN states[r] ELSE NewExecutionState(r),
                         [type |-> type, run |-> r])
    /\ order' \in Seq(RunIDs) /\ IsInjective(order') /\ Range(order') = DOMAIN states'
    /\ Len(order') <= Capacity

Spared(dropped) ==
    \A v \in dropped :
       \/ IsTerminal(states[v].phase)
       \/ v = Head(order) /\ \A q \in DOMAIN states : ~IsTerminal(states[q].phase)

LEMMA CacheKeeps ==
    ASSUME CacheInvariant, NEW r \in RunIDs, NEW type, CacheApply(r, type)
    PROVE  \E dropped \in SUBSET (DOMAIN states \ {r}) : Kept(r, type, dropped) /\ Spared(dropped)
<1> USE CapacityAssumption
<1> DEFINE known == r \in DOMAIN states
           sts == [q \in DOMAIN states \cup {r} |->
                      IF q \in DOMAIN states THEN states[q] ELSE NewExecutionState(q)]
           ord == IF known THEN order ELSE Append(order, r)
           ev == [type |-> type, run |-> r]
           v == Evict(sts, ord)
<1>1. /\ order \in Seq(RunIDs) /\ IsInjective(order) /\ Range(order) = DOMAIN states
      /\ Len(order) <= Capacity /\ Len(order) \in Nat
  BY DEF CacheInvariant, OrderListsStates
<1>2. /\ ord \in Seq(RunIDs) /\ IsInjective(ord) /\ Range(ord) = DOMAIN sts
      /\ Len(ord) = IF known THEN Len(order) ELSE Len(order) + 1
  BY <1>1, Appended
<1>3. Cardinality(DOMAIN sts) = Len(ord)
  BY <1>2, Counted
<1>4. CASE ~(~known /\ OverCapacity(sts))
  <2>1. states' = ApplyTo(sts, r, type) /\ order' = ord /\ gone' = gone
    BY <1>4 DEF CacheApply
  <2>2. Len(ord) <= Capacity
    BY <1>1, <1>2, <1>3, <1>4 DEF OverCapacity
  <2>3. /\ DOMAIN states' = DOMAIN states \cup {r}
        /\ \A q \in DOMAIN states' \ {r} : states'[q] = states[q]
        /\ states'[r] = Apply(sts[r], ev)
    BY <2>1 DEF ApplyTo
  <2>4. Kept(r, type, {}) /\ Spared({})
    BY <1>2, <2>1, <2>2, <2>3 DEF Kept, Spared
  <2> QED
    BY <2>4
<1>5. CASE ~known /\ OverCapacity(sts)
  <2>1. /\ states' = ApplyTo(Restrict(sts, DOMAIN sts \ {v}), r, type)
        /\ order' = RemoveFirst(ord, v)
        /\ gone' = gone \cup {v}
    BY <1>5 DEF CacheApply
  <2>2. Len(order) = Capacity /\ Len(order) > 0
    BY <1>1, <1>2, <1>3, <1>5 DEF OverCapacity
  <2>3. /\ v \in Range(ord)
        /\ \/ IsTerminal(sts[v].phase)
           \/ v = ord[1] /\ \A q \in Range(ord) : ~IsTerminal(sts[q].phase)
    <3>1. Len(ord) > 0
      BY <1>1, <1>2, <1>5, <2>2
    <3> HIDE DEF sts, ord
    <3> QED
      BY <1>2, <3>1, EvictChoice
  <2>4. ord[1] = Head(order) /\ Head(order) \in DOMAIN states
    BY <1>1, <1>5, <2>2, Appended DEF Range
  <2>5. ~IsTerminal(sts[r].phase)
    BY <1>5 DEF NewExecutionState, IsTerminal
  <2>6. v \in DOMAIN states \ {r} /\ v \in DOMAIN sts
    BY <1>2, <1>5, <2>3, <2>4, <2>5
  <2>7. Spared({v})
    BY <1>2, <2>3, <2>4, <2>6 DEF Spared
  <2>8. /\ DOMAIN states' = (DOMAIN states \cup {r}) \ {v}
        /\ \A q \in DOMAIN states' \ {r} : states'[q] = states[q]
        /\ states'[r] = Apply(sts[r], ev)
    BY <2>1, <2>6 DEF ApplyTo, Restrict
  <2>9. /\ order' \in Seq(RunIDs) /\ IsInjective(order') /\ Range(order') = DOMAIN states'
        /\ Len(order') <= Capacity
    <3> HIDE DEF sts, ord, v
    <3>1. /\ order' \in Seq(RunIDs) /\ IsInjective(order') /\ Range(order') = Range(ord) \ {v}
          /\ Len(order') = Len(ord) - 1
      BY <1>2, <2>1, <2>3, Removed
    <3>2. Len(ord) = Capacity + 1
      BY <1>2, <1>5, <2>2
    <3>3. DOMAIN sts = DOMAIN states \cup {r}
      BY DEF sts
    <3>4. Len(order') <= Capacity
      BY <3>1, <3>2
    <3> QED
      BY <1>2, <2>8, <3>1, <3>3, <3>4
  <2>10. Kept(r, type, {v})
    BY <1>5, <2>1, <2>8, <2>9 DEF Kept
  <2> QED
    BY <2>6, <2>7, <2>10
<1> QED
  BY <1>4, <1>5

\* An event of a run, seen by the cache.
LEMMA CachePublishes ==
    ASSUME CacheInvariant, "cache" \in attached, NEW r \in RunIDs, NEW type,
           CacheApply(r, type), Advance(r, type), UNCHANGED attached
    PROVE  /\ CacheInvariant'
           /\ Spared(DOMAIN states \ DOMAIN states')
<1>1. PICK dropped \in SUBSET (DOMAIN states \ {r}) : Kept(r, type, dropped) /\ Spared(dropped)
  BY CacheKeeps
<1>2. DOMAIN states \ DOMAIN states' = dropped
  BY <1>1 DEF Kept
<1>3. /\ DOMAIN truth = RunIDs /\ DOMAIN truth' = RunIDs
      /\ truth'[r] = Apply(truth[r], [type |-> type, run |-> r])
      /\ \A q \in RunIDs \ {r} : truth'[q] = truth[q]
  BY DEF Advance, CacheInvariant
<1>4. DOMAIN states \subseteq RunIDs
  <2>1. \A i \in DOMAIN order : order[i] \in RunIDs
    BY DEF CacheInvariant
  <2> QED
    BY <2>1 DEF CacheInvariant, OrderListsStates, Range
<1>5. SnapshotIsExact'
  <2> SUFFICES ASSUME NEW q \in DOMAIN states' \ gone' PROVE states'[q] = truth'[q]
    BY DEF SnapshotIsExact
  <2>1. CASE q # r
    BY <1>1, <1>3, <1>4, <2>1 DEF Kept, CacheInvariant, SnapshotIsExact
  <2>2. CASE q = r
    <3>1. (IF r \in DOMAIN states THEN states[r] ELSE NewExecutionState(r)) = truth[r]
      BY <1>1, <2>2 DEF Kept, CacheInvariant, SnapshotIsExact
    <3> QED
      BY <1>1, <1>3, <2>2, <3>1 DEF Kept
  <2> QED
    BY <2>1, <2>2
<1>6. \A q \in RunIDs \ (DOMAIN states' \cup gone') : truth'[q] = NewExecutionState(q)
  BY <1>1, <1>3 DEF Kept, CacheInvariant
<1>7. OrderListsStates' /\ order' \in Seq(RunIDs)
  BY <1>1 DEF Kept, OrderListsStates
<1> QED
  BY <1>1, <1>2, <1>3, <1>5, <1>6, <1>7 DEF CacheInvariant

\* A run is forgotten.
LEMMA CacheForgets ==
    ASSUME CacheInvariant, NEW r \in RunIDs, Forget(r), UNCHANGED attached
    PROVE  CacheInvariant'
<1>1. /\ order \in Seq(RunIDs) /\ IsInjective(order) /\ Range(order) = DOMAIN states
      /\ Len(order) <= Capacity /\ Len(order) \in Nat /\ Capacity \in Nat
  BY CapacityAssumption DEF CacheInvariant, OrderListsStates
<1>2. /\ r \in DOMAIN states /\ states' = Restrict(states, DOMAIN states \ {r})
      /\ order' = RemoveFirst(order, r) /\ gone' = gone \cup {r} /\ UNCHANGED <<pos, truth>>
  BY DEF Forget
<1>3. DOMAIN states' = DOMAIN states \ {r} /\ \A q \in DOMAIN states' : states'[q] = states[q]
  BY <1>2 DEF Restrict
<1>4. order' \in Seq(RunIDs) /\ OrderListsStates'
  <2>1. /\ order' \in Seq(RunIDs) /\ IsInjective(order') /\ Range(order') = Range(order) \ {r}
        /\ Len(order') = Len(order) - 1
    BY <1>1, <1>2, Removed
  <2>2. Len(order') <= Capacity
    BY <1>1, <2>1
  <2> QED
    BY <1>1, <1>3, <2>1, <2>2 DEF OrderListsStates
<1>5. SnapshotIsExact'
  BY <1>2, <1>3 DEF SnapshotIsExact, CacheInvariant
<1> QED
  BY <1>2, <1>3, <1>4, <1>5 DEF CacheInvariant

LEMMA CacheInductive ==
    ASSUME CacheInvariant, [ObserversNext]_ovars
    PROVE  /\ CacheInvariant'
           /\ \A r \in DOMAIN states \ DOMAIN states' :
                 \/ IsTerminal(states[r].phase)
                 \/ pos' = pos
                 \/ r = Head(order) /\ \A q \in DOMAIN states : ~IsTerminal(states[q].phase)
<1>1. ASSUME NEW r \in RunIDs, NEW type \in Emits(r), Deliver(r, type), UNCHANGED attached,
             "cache" \in attached
      PROVE  CacheInvariant' /\ Spared(DOMAIN states \ DOMAIN states')
  BY <1>1, CachePublishes DEF Deliver, Publish
<1>2. ASSUME NEW r \in RunIDs, NEW type \in Emits(r), Deliver(r, type), UNCHANGED attached,
             "cache" \notin attached
      PROVE  CacheInvariant' /\ DOMAIN states' = DOMAIN states
  <2>1. UNCHANGED <<states, order, gone>> /\ DOMAIN states = {}
    BY <1>2 DEF Deliver, CacheInvariant
  <2>2. DOMAIN truth' = RunIDs
    BY <1>2 DEF Deliver, Advance, CacheInvariant
  <2> QED
    BY <1>2, <2>1, <2>2 DEF CacheInvariant, OrderListsStates, SnapshotIsExact
<1>3. ASSUME NEW r \in RunIDs, Forget(r), UNCHANGED attached
      PROVE  CacheInvariant' /\ pos' = pos
  BY <1>3, CacheForgets DEF Forget
<1>4. ASSUME UNCHANGED <<vars, attached>>
      PROVE  CacheInvariant' /\ pos' = pos
  BY <1>4 DEF vars, CacheInvariant, OrderListsStates, SnapshotIsExact
<1>5. \/ \E r \in RunIDs : \E type \in Emits(r) : Deliver(r, type) /\ UNCHANGED attached
      \/ \E r \in RunIDs : Forget(r) /\ UNCHANGED attached
      \/ UNCHANGED <<vars, attached>>
  BY DEF ObserversNext, AllQuiet, ovars
<1> QED
  BY <1>1, <1>2, <1>3, <1>4, <1>5 DEF Spared

LEMMA CacheInitially == ObserversInit => CacheInvariant
<1> SUFFICES ASSUME ObserversInit PROVE CacheInvariant
  OBVIOUS
<1>1. DOMAIN states = {} /\ order = <<>> /\ truth = [r \in RunIDs |-> NewExecutionState(r)]
  BY DEF ObserversInit, Init
<1>2. order \in Seq(RunIDs) /\ DOMAIN order = {} /\ Len(order) = 0
  BY <1>1
<1>3. OrderListsStates
  BY <1>1, <1>2, CapacityAssumption DEF OrderListsStates, IsInjective, Range
<1> QED
  BY <1>1, <1>2, <1>3 DEF CacheInvariant, SnapshotIsExact

\* For any number of runs, any capacity and however their events, evictions and
\* calls of Forget interleave, the eviction queue lists what the cache holds,
\* and the snapshot of a run that never left it is what its events imply.
THEOREM CacheIsExact == ObserversSpec => []CacheExact
<1>1. CacheInvariant => CacheExact
  BY DEF CacheInvariant, CacheExact
<1> QED
  BY <1>1, CacheInitially, CacheInductive, PTL DEF ObserversSpec

\* An event drops a run in flight only when no cached run has ended, and then
\* the oldest.
THEOREM EvictionSpares == ObserversSpec => EvictionSparesLive
<1>1. CacheInvariant /\ [ObserversNext]_ovars =>
        [\A r \in DOMAIN states \ DOMAIN states' :
            \/ IsTerminal(states[r].phase)
            \/ pos' = pos
            \/ r = Head(order) /\ \A q \in DOMAIN states : ~IsTerminal(states[q].phase)]_vars
  BY CacheInductive
<1>2. CacheInvariant /\ [ObserversNext]_ovars => CacheInvariant'
  BY CacheInductive
<1> QED
  BY <1>1, <1>2, CacheInitially, PTL DEF ObserversSpec, EvictionSparesLive

-----------------------------------------------------------------------------
(* The tracker of the runs' starts *)

\* Without its head a list lists the others.
LEMMA HeadDropped ==
    ASSUME NEW s \in Seq(RunIDs), IsInjective(s), Len(s) > 0
    PROVE  /\ Tail(s) \in Seq(RunIDs) /\ IsInjective(Tail(s))
           /\ Head(s) = s[1]
           /\ Range(Tail(s)) = Range(s) \ {Head(s)}
<1> DEFINE t == Tail(s)
<1>1. /\ t \in Seq(RunIDs) /\ Len(t) = Len(s) - 1 /\ Len(s) \in Nat /\ DOMAIN s = 1 .. Len(s)
      /\ DOMAIN t = 1 .. Len(t) /\ Head(s) = s[1] /\ \A i \in 1 .. Len(s) - 1 : t[i] = s[i + 1]
  OBVIOUS
<1> HIDE DEF t
<1>2. IsInjective(t)
  <2> SUFFICES ASSUME NEW j \in 1 .. Len(s) - 1, NEW k \in 1 .. Len(s) - 1, t[j] = t[k] PROVE j = k
    BY <1>1 DEF IsInjective
  <2>1. j + 1 \in 1 .. Len(s) /\ k + 1 \in 1 .. Len(s) /\ s[j + 1] = s[k + 1]
    BY <1>1
  <2>2. j + 1 = k + 1
    BY <1>1, <2>1 DEF IsInjective
  <2> QED
    BY <2>2
<1>3. ASSUME NEW x \in Range(t) PROVE x \in Range(s) \ {s[1]}
  <2>1. PICK k \in 1 .. Len(s) - 1 : x = t[k]
    BY <1>1, <1>3 DEF Range
  <2>2. k + 1 \in 1 .. Len(s) /\ 1 \in 1 .. Len(s) /\ x = s[k + 1] /\ k + 1 # 1
    BY <1>1, <2>1
  <2> QED
    BY <1>1, <2>2 DEF Range, IsInjective
<1>4. ASSUME NEW x \in Range(s) \ {s[1]} PROVE x \in Range(t)
  <2>1. PICK k \in 1 .. Len(s) : x = s[k] /\ k # 1
    BY <1>1 DEF Range
  <2>2. k - 1 \in 1 .. Len(t) /\ t[k - 1] = x
    BY <1>1, <2>1
  <2> QED
    BY <1>1, <2>2 DEF Range
<1> QED
  BY <1>1, <1>2, <1>3, <1>4 DEF t

Steps == {"idle", "start", "result", "take", "observe"}

\* What the bound needs: the tracker's list is its map, a start that is held
\* belongs to a run under way, and only finitely many runs are.
TrackerInvariant ==
    /\ startOrder \in Seq(RunIDs) /\ IsInjective(startOrder) /\ Range(startOrder) = DOMAIN starts
    /\ DOMAIN pos = RunIDs /\ DOMAIN observing = RunIDs
    /\ \A r \in RunIDs : pos[r] \in 0 .. Len(Script) /\ observing[r].at \in Steps
    /\ \A r \in RunIDs : "at" \in DOMAIN observing[r]
    /\ \A r \in RunIDs : observing[r].at = "start" => pos[r] = 3
    /\ \A r \in DOMAIN starts : UnderWay(r)
    /\ "metrics" \notin attached =>
          DOMAIN starts = {} /\ \A r \in RunIDs : observing[r].at = "idle"
    /\ IsFiniteSet({r \in RunIDs : UnderWay(r)})

LEMMA EndTypes == Range(EndOf) = {"run.completed", "run.failed", "run.cancelled"}
<1>1. /\ DOMAIN EndOf = {"completed", "failed", "cancelled"}
      /\ EndOf["completed"] = "run.completed" /\ EndOf["failed"] = "run.failed"
      /\ EndOf["cancelled"] = "run.cancelled"
  BY DEF EndOf
<1> QED
  BY <1>1 DEF Range

\* Where a run is after an event: its start is recorded at the third, and until
\* it ends it is under way.
LEMMA RunGoesOn ==
    ASSUME NEW p \in 0 .. Len(Script), NEW r, pos[r] = p, NEW type \in Emits(r)
    PROVE  LET n == IF type = Script[p + 1] THEN p + 1 ELSE Len(Script)
           IN  /\ n \in 0 .. Len(Script)
               /\ type = "run.submitted" => p = 2 /\ n = 3
               /\ p \in 3 .. 6 => n \in 3 .. 6 \/ type \in Range(EndOf)
<1>1. Len(Script) = 8 /\ DOMAIN Script = 1 .. 8
  BY DEF Script
<1>2. /\ Script[1] = "run.scheduled" /\ Script[2] = "run.dequeued" /\ Script[3] = "run.submitted"
      /\ Script[4] = "sandbox.created" /\ Script[5] = "agent.executing"
      /\ Script[6] = "agent.completed" /\ Script[7] = "run.completed"
      /\ Script[8] = "brain.lesson_extracted"
  BY DEF Script
<1>3. Range(EndOf) = {"run.completed", "run.failed", "run.cancelled"}
  BY EndTypes
<1>4. \/ p + 1 \in 1 .. 8 /\ type = Script[p + 1]
      \/ p \in {1, 6} /\ type = "run.cancelled"
      \/ p \in 3 .. 6 /\ type = "run.failed"
  BY <1>1 DEF Emits
<1>5. p \in {0, 1, 2, 3, 4, 5, 6, 7, 8}
  BY <1>1
<1> HIDE DEF Script
<1> QED
  BY <1>1, <1>2, <1>3, <1>4, <1>5

\* A step of one run adds at most that run to those under way.
LEMMA FewUnderWay ==
    ASSUME IsFiniteSet({q \in RunIDs : UnderWay(q)}), NEW r \in RunIDs,
           \A q \in RunIDs \ {r} : pos'[q] = pos[q] /\ observing'[q] = observing[q]
    PROVE  IsFiniteSet({q \in RunIDs : UnderWay(q)'})
<1> DEFINE W == {q \in RunIDs : UnderWay(q)}
<1>1. {q \in RunIDs : UnderWay(q)'} \subseteq W \cup {r}
  BY DEF UnderWay
<1>2. IsFiniteSet(W \cup {r})
  BY FS_AddElement
<1> QED
  BY <1>1, <1>2, FS_Subset

\* An event is published and counted.
LEMMA TrackerDelivers ==
    ASSUME TrackerInvariant, NEW r \in RunIDs, NEW type \in Emits(r), Deliver(r, type),
           UNCHANGED attached
    PROVE  TrackerInvariant' /\ UNCHANGED crowded
<1> DEFINE n == IF type = Script[pos[r] + 1] THEN pos[r] + 1 ELSE Len(Script)
<1>0. /\ pos[r] \in 0 .. Len(Script) /\ observing[r].at = "idle"
      /\ pos' = [pos EXCEPT ![r] = n]
  BY DEF TrackerInvariant, Deliver, Publish, Advance
<1>1. /\ n \in 0 .. Len(Script)
      /\ type = "run.submitted" => pos[r] = 2 /\ n = 3
      /\ pos[r] \in 3 .. 6 => n \in 3 .. 6 \/ type \in Range(EndOf)
  BY <1>0, RunGoesOn
<1> HIDE DEF n
<1>2. DOMAIN pos' = RunIDs /\ pos'[r] = n /\ \A q \in RunIDs \ {r} : pos'[q] = pos[q]
  BY <1>0 DEF TrackerInvariant
<1>3. UNCHANGED <<starts, startOrder, crowded>>
  BY DEF Deliver, BeginObserve, metricVars
<1>4. "metrics" \notin attached => UNCHANGED observing
  BY DEF Deliver, metricVars
<1>5. \/ "metrics" \notin attached
      \/ /\ DOMAIN observing' = RunIDs
         /\ \A q \in RunIDs \ {r} : observing'[q] = observing[q]
         /\ "at" \in DOMAIN observing'[r]
         /\ observing'[r].at = IF type = "run.submitted" THEN "start"
                               ELSE IF type \in Range(EndOf) THEN "result" ELSE "idle"
  <2> SUFFICES ASSUME "metrics" \in attached
               PROVE  /\ DOMAIN observing' = RunIDs
                      /\ \A q \in RunIDs \ {r} : observing'[q] = observing[q]
                      /\ "at" \in DOMAIN observing'[r]
                      /\ observing'[r].at = IF type = "run.submitted" THEN "start"
                                            ELSE IF type \in Range(EndOf) THEN "result" ELSE "idle"
    OBVIOUS
  <2>1. PICK ts : BeginObserve(r, type, ts)
    BY DEF Deliver
  <2> QED
    <3> DEFINE job == CASE type = "run.submitted" -> [at |-> "start", type |-> type, stamp |-> ts]
                        [] type \in Range(EndOf) -> [at |-> "result", type |-> type, stamp |-> ts]
                        [] OTHER -> Idle
    <3>1. observing' = [observing EXCEPT ![r] = job]
      BY <2>1 DEF BeginObserve
    <3>2. "run.submitted" \notin Range(EndOf)
      BY EndTypes
    <3>3. /\ "at" \in DOMAIN job
          /\ job.at = IF type = "run.submitted" THEN "start"
                      ELSE IF type \in Range(EndOf) THEN "result" ELSE "idle"
      <4>1. CASE type = "run.submitted"
        BY <3>2, <4>1
      <4>2. CASE type \in Range(EndOf)
        BY <3>2, <4>2
      <4>3. CASE type # "run.submitted" /\ type \notin Range(EndOf)
        BY <4>3 DEF Idle
      <4> QED
        BY <4>1, <4>2, <4>3
    <3> HIDE DEF job
    <3> QED
      BY <3>1, <3>3 DEF TrackerInvariant
<1>6. /\ DOMAIN observing' = RunIDs /\ \A q \in RunIDs \ {r} : observing'[q] = observing[q]
      /\ \A q \in RunIDs : "at" \in DOMAIN observing'[q]
      /\ "metrics" \notin attached => \A q \in RunIDs : observing'[q].at = "idle"
  BY <1>4, <1>5 DEF TrackerInvariant
<1>7. \A q \in RunIDs : pos'[q] \in 0 .. Len(Script) /\ observing'[q].at \in Steps
  <2>1. observing'[r].at \in Steps
    BY <1>0, <1>4, <1>5 DEF Steps
  <2> QED
    BY <1>1, <1>2, <1>6, <2>1 DEF TrackerInvariant
<1>8. \A q \in RunIDs : observing'[q].at = "start" => pos'[q] = 3
  <2>1. observing'[r].at = "start" => n = 3
    BY <1>0, <1>1, <1>4, <1>5
  <2> QED
    BY <1>2, <1>6, <2>1 DEF TrackerInvariant
<1>9. ASSUME NEW q \in DOMAIN starts PROVE UnderWay(q)'
  <2>1. q \in RunIDs /\ UnderWay(q) /\ "metrics" \in attached
    <3>1. \A i \in DOMAIN startOrder : startOrder[i] \in RunIDs
      BY DEF TrackerInvariant
    <3> QED
      BY <1>9, <3>1 DEF TrackerInvariant, Range
  <2>2. CASE q # r
    BY <1>2, <1>6, <2>1, <2>2 DEF UnderWay
  <2>3. CASE q = r
    <3>1. pos[r] \in 3 .. 6
      BY <1>0, <2>1, <2>3 DEF UnderWay
    <3>2. type # "run.submitted"
      BY <1>1, <3>1
    <3> QED
      BY <1>1, <1>2, <1>5, <2>1, <2>3, <3>1, <3>2 DEF UnderWay
  <2> QED
    BY <2>2, <2>3
<1>10. IsFiniteSet({q \in RunIDs : UnderWay(q)'})
  BY <1>2, <1>6, FewUnderWay DEF TrackerInvariant
<1> QED
  BY <1>2, <1>3, <1>6, <1>7, <1>8, <1>9, <1>10 DEF TrackerInvariant

\* A start is recorded, and another one dropped if there are too many.
LEMMA TrackerRecords ==
    ASSUME TrackerInvariant, NEW r \in RunIDs, RecordStart(r), UNCHANGED <<pos, attached>>
    PROVE  /\ TrackerInvariant'
           /\ crowded' # crowded => Cardinality({q \in RunIDs : UnderWay(q)}) > StartCapacity
<1>0. "metrics" \in attached
  BY DEF RecordStart, TrackerInvariant
<1> DEFINE new == r \notin DOMAIN starts
           ord == IF new THEN Append(startOrder, r) ELSE startOrder
           full == new /\ Len(ord) > StartCapacity
           kept == (DOMAIN starts \cup {r}) \ (IF full THEN {Head(ord)} ELSE {})
<1>1. /\ observing[r].at = "start" /\ pos[r] = 3 /\ UnderWay(r)
      /\ observing' = [observing EXCEPT ![r] = Idle]
      /\ DOMAIN starts' = kept \cup {r}
      /\ startOrder' = IF full THEN Tail(ord) ELSE ord
      /\ crowded' = IF full THEN crowded \cup {Head(ord)} ELSE crowded
  BY DEF RecordStart, SetStart, TrackerInvariant, UnderWay
<1>2. /\ startOrder \in Seq(RunIDs) /\ IsInjective(startOrder) /\ Range(startOrder) = DOMAIN starts
      /\ Len(startOrder) \in Nat /\ StartCapacity \in Nat \ {0}
  BY MetricsAssumption DEF TrackerInvariant
<1>3. /\ ord \in Seq(RunIDs) /\ IsInjective(ord) /\ Range(ord) = DOMAIN starts \cup {r}
      /\ Len(ord) = IF new THEN Len(startOrder) + 1 ELSE Len(startOrder)
      /\ new => \A i \in 1 .. Len(startOrder) : ord[i] = startOrder[i]
  BY <1>2, Appended
<1> HIDE DEF ord
<1>4. full => Head(ord) # r
  <2> SUFFICES ASSUME full PROVE Head(ord) # r
    OBVIOUS
  <2>1. Len(startOrder) > 0 /\ Len(ord) > 0
    BY <1>2, <1>3
  <2>2. Head(ord) = ord[1] /\ ord[1] = startOrder[1] /\ startOrder[1] \in Range(startOrder)
    BY <1>2, <1>3, <2>1, HeadDropped DEF Range
  <2> QED
    BY <1>2, <2>2
<1>5. DOMAIN starts' = (DOMAIN starts \cup {r}) \ (IF full THEN {Head(ord)} ELSE {})
  BY <1>1, <1>4
<1>6. startOrder' \in Seq(RunIDs) /\ IsInjective(startOrder') /\ Range(startOrder') = DOMAIN starts'
  <2>1. CASE full
    <3>1. Len(ord) > 0
      BY <1>2, <1>3, <2>1
    <3> QED
      BY <1>1, <1>3, <1>5, <2>1, <3>1, HeadDropped
  <2>2. CASE ~full
    BY <1>1, <1>3, <1>5, <2>2
  <2> QED
    BY <2>1, <2>2
<1>7. /\ DOMAIN observing' = RunIDs /\ observing'[r].at = "idle"
      /\ \A q \in RunIDs : "at" \in DOMAIN observing'[q]
      /\ \A q \in RunIDs \ {r} : observing'[q] = observing[q]
  BY <1>1 DEF TrackerInvariant, Idle
<1>8. \A q \in RunIDs : UnderWay(q) => UnderWay(q)'
  BY <1>1, <1>7 DEF UnderWay
<1>9. DOMAIN starts \cup {r} \subseteq {q \in RunIDs : UnderWay(q)}
  <2>1. \A i \in DOMAIN ord : ord[i] \in RunIDs
    BY <1>3
  <2>2. DOMAIN starts \cup {r} \subseteq RunIDs
    BY <1>3, <2>1 DEF Range
  <2> QED
    BY <1>1, <2>2 DEF TrackerInvariant
<1>10. TrackerInvariant'
  <2>1. IsFiniteSet({q \in RunIDs : UnderWay(q)'})
    BY <1>7, FewUnderWay DEF TrackerInvariant
  <2>2. \A q \in RunIDs : pos'[q] \in 0 .. Len(Script) /\ observing'[q].at \in Steps
    BY <1>7 DEF TrackerInvariant, Steps
  <2>3. \A q \in RunIDs : observing'[q].at = "start" => pos'[q] = 3
    BY <1>7 DEF TrackerInvariant
  <2>4. \A q \in DOMAIN starts' : UnderWay(q)'
    BY <1>5, <1>8, <1>9
  <2> QED
    BY <1>0, <1>6, <1>7, <2>1, <2>2, <2>3, <2>4 DEF TrackerInvariant
<1>11. crowded' # crowded => Cardinality({q \in RunIDs : UnderWay(q)}) > StartCapacity
  <2> SUFFICES ASSUME full PROVE Cardinality({q \in RunIDs : UnderWay(q)}) > StartCapacity
    BY <1>1
  <2> DEFINE W == {q \in RunIDs : UnderWay(q)}
  <2>1. IsFiniteSet(W) /\ Range(ord) \subseteq W
    BY <1>3, <1>9 DEF TrackerInvariant
  <2> HIDE DEF W
  <2>2. Cardinality(W) \in Nat /\ Cardinality(Range(ord)) <= Cardinality(W)
    BY <2>1, FS_Subset, FS_CardinalityType
  <2>3. Cardinality(Range(ord)) = Len(ord)
    BY <1>3, Counted
  <2>4. Cardinality(W) > StartCapacity
    BY <1>2, <1>3, <2>2, <2>3
  <2> QED
    BY <2>4 DEF W
<1> QED
  BY <1>10, <1>11

\* The other steps of observe: a start is taken when its run ends.
LEMMA TrackerObserves ==
    ASSUME TrackerInvariant, NEW r \in RunIDs, UNCHANGED <<pos, attached>>,
           CountResult(r) \/ TakeForDuration(r) \/ ObserveDuration(r)
    PROVE  TrackerInvariant' /\ UNCHANGED crowded
<1>1. /\ DOMAIN observing' = RunIDs /\ \A q \in RunIDs \ {r} : observing'[q] = observing[q]
      /\ \A q \in RunIDs : "at" \in DOMAIN observing'[q]
      /\ observing'[r].at \in {"idle", "take", "observe"}
      /\ observing[r].at \in {"result", "take", "observe"}
      /\ observing[r].at = "result" => observing'[r].at = "take"
      /\ "metrics" \in attached
  <2>1. CASE CountResult(r)
    <3>1. /\ observing' = [observing EXCEPT ![r] = [@ EXCEPT !.at = "take"]]
          /\ "at" \in DOMAIN observing[r] /\ observing[r].at = "result"
      BY <2>1 DEF CountResult, TrackerInvariant
    <3> DEFINE job == [observing[r] EXCEPT !.at = "take"]
    <3>2. "at" \in DOMAIN job /\ job.at = "take"
      BY <3>1
    <3>3. observing' = [observing EXCEPT ![r] = job]
      BY <3>1
    <3> HIDE DEF job
    <3> QED
      BY <3>1, <3>2, <3>3 DEF TrackerInvariant
  <2>2. CASE TakeForDuration(r)
    <3>1. \E job : /\ observing' = [observing EXCEPT ![r] = job]
                   /\ "at" \in DOMAIN job /\ job.at \in {"idle", "observe"}
      <4> DEFINE timing == [at |-> "observe", type |-> observing[r].type,
                            stamp |-> observing[r].stamp - starts[r]]
      <4>1. /\ "at" \in DOMAIN Idle /\ Idle.at = "idle"
            /\ "at" \in DOMAIN timing /\ timing.at = "observe"
        BY DEF Idle
      <4>2. \/ observing' = [observing EXCEPT ![r] = Idle]
            \/ observing' = [observing EXCEPT ![r] = timing]
        BY <2>2 DEF TakeForDuration
      <4> HIDE DEF timing
      <4> QED
        BY <4>1, <4>2
    <3> QED
      BY <2>2, <3>1 DEF TakeForDuration, TrackerInvariant
  <2>3. CASE ObserveDuration(r)
    BY <2>3 DEF ObserveDuration, TrackerInvariant, Idle
  <2> QED
    BY <2>1, <2>2, <2>3
<1>2. UNCHANGED crowded
  BY DEF CountResult, TakeForDuration, ObserveDuration
<1>3. /\ startOrder \in Seq(RunIDs) /\ IsInjective(startOrder) /\ Range(startOrder) = DOMAIN starts
  BY DEF TrackerInvariant
<1>4. /\ startOrder' \in Seq(RunIDs) /\ IsInjective(startOrder') /\ Range(startOrder') = DOMAIN starts'
      /\ DOMAIN starts' \subseteq DOMAIN starts
      /\ observing[r].at = "take" => r \notin DOMAIN starts'
  <2>1. CASE TakeForDuration(r) /\ r \in DOMAIN starts
    <3>1. DOMAIN starts' = DOMAIN starts \ {r} /\ startOrder' = RemoveFirst(startOrder, r)
      BY <2>1 DEF TakeForDuration, TakeStart
    <3> QED
      BY <1>3, <2>1, <3>1, Removed
  <2>2. CASE ~(TakeForDuration(r) /\ r \in DOMAIN starts)
    BY <1>3, <2>2 DEF CountResult, TakeForDuration, ObserveDuration
  <2> QED
    BY <2>1, <2>2
<1>5. DOMAIN starts \subseteq RunIDs
  <2>1. \A i \in DOMAIN startOrder : startOrder[i] \in RunIDs
    BY <1>3
  <2> QED
    BY <1>3, <2>1 DEF Range
<1>6. ASSUME NEW q \in DOMAIN starts' PROVE UnderWay(q)'
  <2>1. q \in RunIDs /\ UnderWay(q)
    BY <1>4, <1>5 DEF TrackerInvariant
  <2>2. CASE q # r
    BY <1>1, <2>1, <2>2 DEF UnderWay
  <2>3. CASE q = r
    BY <1>1, <1>4, <2>1, <2>3 DEF UnderWay
  <2> QED
    BY <2>2, <2>3
<1>7. IsFiniteSet({q \in RunIDs : UnderWay(q)'})
  BY <1>1, FewUnderWay DEF TrackerInvariant
<1>8. \A q \in RunIDs : pos'[q] \in 0 .. Len(Script) /\ observing'[q].at \in Steps
  BY <1>1 DEF TrackerInvariant, Steps
<1>9. \A q \in RunIDs : observing'[q].at = "start" => pos'[q] = 3
  BY <1>1 DEF TrackerInvariant
<1> QED
  BY <1>1, <1>2, <1>4, <1>6, <1>7, <1>8, <1>9 DEF TrackerInvariant

LEMMA TrackerInductive ==
    ASSUME TrackerInvariant, [ObserversNext]_ovars
    PROVE  /\ TrackerInvariant'
           /\ crowded' # crowded => Cardinality({q \in RunIDs : UnderWay(q)}) > StartCapacity
<1>1. ASSUME NEW r \in RunIDs, RecordStart(r), UNCHANGED <<pos, attached>>
      PROVE  /\ TrackerInvariant'
             /\ crowded' # crowded => Cardinality({q \in RunIDs : UnderWay(q)}) > StartCapacity
  BY <1>1, TrackerRecords
<1>2. ASSUME UNCHANGED <<pos, starts, startOrder, observing, crowded, attached>>
      PROVE  TrackerInvariant' /\ UNCHANGED crowded
  BY <1>2 DEF TrackerInvariant, UnderWay
<1>3. \/ \E r \in RunIDs : \E type \in Emits(r) : Deliver(r, type) /\ UNCHANGED attached
      \/ \E r \in RunIDs : RecordStart(r) /\ UNCHANGED <<pos, attached>>
      \/ \E r \in RunIDs : /\ CountResult(r) \/ TakeForDuration(r) \/ ObserveDuration(r)
                           /\ UNCHANGED <<pos, attached>>
      \/ UNCHANGED <<pos, starts, startOrder, observing, crowded, attached>>
  BY DEF ObserversNext, ObserveStep, Scrape, Forget, AllQuiet, ovars, vars, metricVars
<1> QED
  BY <1>1, <1>2, <1>3, TrackerDelivers, TrackerObserves

LEMMA TrackerInitially == ObserversInit => TrackerInvariant
<1> SUFFICES ASSUME ObserversInit PROVE TrackerInvariant
  OBVIOUS
<1>1. /\ startOrder = <<>> /\ DOMAIN starts = {}
      /\ pos = [r \in RunIDs |-> 0] /\ observing = [r \in RunIDs |-> Idle]
  BY DEF ObserversInit, Init, MetricsInit
<1>2. startOrder \in Seq(RunIDs) /\ DOMAIN startOrder = {}
  BY <1>1
<1>3. IsInjective(startOrder) /\ Range(startOrder) = {}
  BY <1>2 DEF IsInjective, Range
<1>4. Idle.at = "idle" /\ "at" \in DOMAIN Idle
  BY DEF Idle
<1>5. \A r \in RunIDs : pos[r] = 0 /\ observing[r] = Idle
  BY <1>1
<1>6. {r \in RunIDs : UnderWay(r)} = {}
  BY <1>4, <1>5 DEF UnderWay
<1>7. IsFiniteSet({r \in RunIDs : UnderWay(r)})
  BY <1>6, FS_EmptySet
<1>8. 0 \in 0 .. Len(Script)
  BY DEF Script
<1> QED
  BY <1>1, <1>2, <1>3, <1>4, <1>5, <1>7, <1>8 DEF TrackerInvariant, Steps

\* The tracker of any capacity drops the start of a run, and so loses its
\* duration, only while more runs are under way than it can hold.
THEOREM StartsDropWhenCrowded == ObserversSpec => DropsOnlyWhenCrowded
<1>1. TrackerInvariant /\ [ObserversNext]_ovars =>
        [crowded' # crowded => Cardinality({r \in RunIDs : UnderWay(r)}) > StartCapacity]_ovars
  BY TrackerInductive
<1>2. TrackerInvariant /\ [ObserversNext]_ovars => TrackerInvariant'
  BY TrackerInductive
<1> QED
  BY <1>1, <1>2, TrackerInitially, PTL DEF ObserversSpec, DropsOnlyWhenCrowded

-----------------------------------------------------------------------------
(* The metrics: running totals, observations, and the page *)


\* Induction up to a bound.
LEMMA CountUp ==
    ASSUME NEW n \in Nat, NEW P, 0 \in P, \A k \in 0 .. n - 1 : k \in P => k + 1 \in P
    PROVE  0 .. n \subseteq P
<1> DEFINE T == {k \in 0 .. n : k \notin P}
<1>1. SUFFICES ASSUME T # {} PROVE FALSE
  OBVIOUS
<1>2. T \in SUBSET Nat
  OBVIOUS
<1> DEFINE k == Min(T)
<1>3. k \in T /\ \A m \in T : k <= m
  BY <1>1, <1>2, Least
<1> HIDE DEF k
<1>4. k \in 0 .. n /\ k # 0 /\ k \notin P
  BY <1>3
<1>5. k - 1 \in 0 .. n - 1 /\ k - 1 \in 0 .. n /\ ~(k <= k - 1) /\ k - 1 + 1 = k
  BY <1>4
<1>6. k - 1 \in P
  BY <1>3, <1>5
<1> QED
  BY <1>4, <1>5, <1>6

\* t holds the running totals of the numbers in s.
Totals(t, s, n) == t = [i \in 0 .. n |-> IF i = 0 THEN 0 ELSE t[i - 1] + s[i]]

LEMMA TotalsExist ==
    ASSUME NEW s, NEW n \in Nat
    PROVE  \E t : Totals(t, s, n)
<1> DEFINE P == {k \in 0 .. n : \E t : Totals(t, s, k)}
<1>1. 0 \in P
  <2> DEFINE t == [i \in 0 .. 0 |-> 0]
  <2>1. Totals(t, s, 0)
    BY DEF Totals
  <2> QED
    BY <2>1
<1>2. ASSUME NEW k \in 0 .. n - 1, k \in P PROVE k + 1 \in P
  <2>1. PICK t : Totals(t, s, k)
    BY <1>2
  <2> DEFINE u == [i \in 0 .. k + 1 |-> IF i = k + 1 THEN t[k] + s[k + 1] ELSE t[i]]
  <2>2. \A i \in 0 .. k + 1 : u[i] = IF i = 0 THEN 0 ELSE u[i - 1] + s[i]
    <3> SUFFICES ASSUME NEW i \in 0 .. k + 1
                 PROVE  u[i] = IF i = 0 THEN 0 ELSE u[i - 1] + s[i]
      OBVIOUS
    <3>1. CASE i = k + 1
      BY <3>1
    <3>2. CASE i # k + 1
      <4>1. i \in 0 .. k /\ (i # 0 => i - 1 \in 0 .. k /\ i - 1 # k + 1)
        BY <3>2
      <4>2. t[i] = IF i = 0 THEN 0 ELSE t[i - 1] + s[i]
        BY <2>1, <4>1 DEF Totals
      <4> QED
        BY <4>1, <4>2
    <3> QED
      BY <3>1, <3>2
  <2>3. Totals(u, s, k + 1)
    BY <2>2 DEF Totals
  <2>4. k + 1 \in 0 .. n
    OBVIOUS
  <2> QED
    BY <2>3, <2>4
<1> HIDE DEF P
<1>3. 0 .. n \subseteq P
  BY <1>1, <1>2, CountUp
<1>4. n \in P
  BY <1>3
<1> QED
  BY <1>4 DEF P

\* What Snapshot computes.
LEMMA Accumulated ==
    ASSUME NEW child
    PROVE  \E t : /\ Totals(t, child.counts, Len(Bounds))
                  /\ Cumulative(child) = [i \in DOMAIN Bounds |-> t[i]]
<1>1. Len(Bounds) \in Nat
  BY MetricsAssumption
<1>2. \E t : Totals(t, child.counts, Len(Bounds))
  BY <1>1, TotalsExist
<1>3. \E t : t = [i \in 0 .. Len(Bounds) |-> IF i = 0 THEN 0 ELSE t[i - 1] + child.counts[i]]
  BY <1>2 DEF Totals
<1> QED
  BY <1>3 DEF Totals, Cumulative

Children == [counts : [DOMAIN Bounds -> Nat], sum : Int, count : Nat]

LEMMA BoundsAscend ==
    ASSUME NEW i \in DOMAIN Bounds, NEW j \in 1 .. i
    PROVE  /\ Bounds[j] \in Int /\ Bounds[i] \in Int
           /\ Bounds[j] <= Bounds[i]
<1> DEFINE n == Len(Bounds)
<1>0. n \in Nat /\ DOMAIN Bounds = 1 .. n /\ \A k \in 1 .. n : Bounds[k] \in Int
  BY MetricsAssumption
<1> DEFINE P == {k \in 0 .. n : \A m \in 1 .. k : Bounds[m] <= Bounds[k]}
<1>1. 0 \in P
  BY <1>0
<1>2. ASSUME NEW k \in 0 .. n - 1, k \in P PROVE k + 1 \in P
  <2>1. k \in 0 .. n /\ k + 1 \in 0 .. n /\ k + 1 \in 1 .. n /\ k + 1 \in Int
    BY <1>0
  <2>2. ASSUME NEW m \in 1 .. k + 1 PROVE Bounds[m] <= Bounds[k + 1]
    <3>1. CASE m = k + 1
      BY <1>0, <2>1, <3>1
    <3>2. CASE m # k + 1
      <4>1. m \in 1 .. k /\ k \in 1 .. n - 1 /\ m \in 1 .. n /\ k \in 1 .. n
        BY <1>0, <2>1, <3>2
      <4>2. Bounds[m] <= Bounds[k] /\ Bounds[k] < Bounds[k + 1]
        BY <1>2, <4>1, MetricsAssumption
      <4>3. Bounds[m] \in Int /\ Bounds[k] \in Int /\ Bounds[k + 1] \in Int
        BY <1>0, <2>1, <4>1
      <4> QED
        BY <4>2, <4>3
    <3> QED
      BY <3>1, <3>2
  <2> QED
    BY <2>1, <2>2
<1> HIDE DEF P
<1>3. 0 .. n \subseteq P
  BY <1>0, <1>1, <1>2, CountUp
<1>4. i \in P /\ j \in 1 .. n
  BY <1>0, <1>3
<1> QED
  BY <1>0, <1>4 DEF P

\* An observation is counted in the running totals from its bucket on.
LEMMA ObservedOnce ==
    ASSUME NEW child \in Children, NEW v \in Int, NEW i \in DOMAIN Bounds
    PROVE  /\ Cumulative(child)[i] \in Nat
           /\ Cumulative(Observe(child, v))[i] =
                 Cumulative(child)[i] + (IF v <= Bounds[i] THEN 1 ELSE 0)
<1> DEFINE n == Len(Bounds)
           d == Observe(child, v)
<1>0. n \in Nat /\ DOMAIN Bounds = 1 .. n /\ \A k \in 1 .. n : Bounds[k] \in Int
  BY MetricsAssumption
<1>1. PICK t : Totals(t, child.counts, n) /\ Cumulative(child) = [k \in DOMAIN Bounds |-> t[k]]
  BY Accumulated
<1>2. PICK u : Totals(u, d.counts, n) /\ Cumulative(d) = [k \in DOMAIN Bounds |-> u[k]]
  BY Accumulated
<1>3. \A k \in 1 .. n : /\ child.counts[k] \in Nat
                        /\ d.counts[k] = child.counts[k]
                              + (IF v <= Bounds[k] /\ \A j \in 1 .. k - 1 : Bounds[j] < v
                                 THEN 1 ELSE 0)
  BY <1>0 DEF Children, Observe
<1> HIDE DEF d
<1> DEFINE In(k) == IF k # 0 /\ v <= Bounds[k] THEN 1 ELSE 0
           P == {k \in 0 .. n : t[k] \in Nat /\ u[k] = t[k] + In(k)}
<1>4. 0 \in P
  BY <1>0, <1>1, <1>2 DEF Totals
<1>5. ASSUME NEW k \in 0 .. n - 1, k \in P PROVE k + 1 \in P
  <2>1. k \in 0 .. n /\ k + 1 \in 0 .. n /\ k + 1 \in 1 .. n /\ k + 1 # 0 /\ k + 1 - 1 = k
    BY <1>0
  <2>2. t[k + 1] = t[k] + child.counts[k + 1] /\ u[k + 1] = u[k] + d.counts[k + 1]
    BY <1>1, <1>2, <2>1 DEF Totals
  <2> DEFINE first == v <= Bounds[k + 1] /\ \A j \in 1 .. k : Bounds[j] < v
  <2>3. /\ child.counts[k + 1] \in Nat
        /\ d.counts[k + 1] = child.counts[k + 1] + (IF first THEN 1 ELSE 0)
    BY <1>3, <2>1
  <2>4. In(k + 1) = In(k) + (IF first THEN 1 ELSE 0)
    <3>1. CASE k = 0
      BY <3>1
    <3>2. CASE k # 0
      <4>1. k \in 1 .. k /\ k \in DOMAIN Bounds /\ k + 1 \in DOMAIN Bounds /\ k \in 1 .. k + 1
        BY <1>0, <3>2
      <4>2. /\ Bounds[k] \in Int /\ Bounds[k + 1] \in Int /\ Bounds[k] <= Bounds[k + 1]
            /\ \A j \in 1 .. k : Bounds[j] \in Int /\ Bounds[j] <= Bounds[k]
        BY <4>1, BoundsAscend
      <4>3. (\A j \in 1 .. k : Bounds[j] < v) <=> Bounds[k] < v
        BY <4>1, <4>2
      <4> HIDE DEF first
      <4>4. first <=> v <= Bounds[k + 1] /\ Bounds[k] < v
        BY <4>3 DEF first
      <4> QED
        BY <2>1, <3>2, <4>2, <4>4
    <3> QED
      BY <3>1, <3>2
  <2>5. t[k] \in Nat /\ u[k] = t[k] + In(k) /\ In(k) \in Nat
    BY <1>5
  <2> DEFINE a == In(k)
             b == In(k + 1)
             one == IF first THEN 1 ELSE 0
  <2> HIDE DEF In, first
  <2>6. one \in Nat
    OBVIOUS
  <2>7. t[k] \in Nat /\ u[k] = t[k] + a /\ a \in Nat /\ b = a + one
        /\ d.counts[k + 1] = child.counts[k + 1] + one
    BY <2>3, <2>4, <2>5
  <2> HIDE DEF a, b, one
  <2>8. t[k + 1] \in Nat /\ u[k + 1] = t[k + 1] + b
    BY <2>2, <2>3, <2>6, <2>7
  <2> QED
    BY <2>1, <2>8 DEF b
<1> HIDE DEF P
<1>6. 0 .. n \subseteq P
  BY <1>0, <1>4, <1>5, CountUp
<1>7. i \in P /\ i # 0
  BY <1>0, <1>6
<1> QED
  BY <1>1, <1>2, <1>7 DEF P, d

\* Running totals do not decrease.
LEMMA TotalsAscend ==
    ASSUME NEW child \in Children, NEW i \in DOMAIN Bounds, NEW j \in 1 .. i
    PROVE  Cumulative(child)[j] <= Cumulative(child)[i]
<1> DEFINE n == Len(Bounds)
<1>0. n \in Nat /\ DOMAIN Bounds = 1 .. n
  BY MetricsAssumption
<1>1. PICK t : Totals(t, child.counts, n) /\ Cumulative(child) = [k \in DOMAIN Bounds |-> t[k]]
  BY Accumulated
<1>2. \A k \in 1 .. n : child.counts[k] \in Nat
  BY <1>0 DEF Children
<1> DEFINE P == {k \in 0 .. n : t[k] \in Nat /\ \A m \in 0 .. k : t[m] \in Nat /\ t[m] <= t[k]}
<1>3. 0 \in P
  <2>1. t[0] = 0
    BY <1>0, <1>1 DEF Totals
  <2>2. \A m \in 0 .. 0 : m = 0
    OBVIOUS
  <2> QED
    BY <1>0, <2>1, <2>2
<1>4. ASSUME NEW k \in 0 .. n - 1, k \in P PROVE k + 1 \in P
  <2>1. k \in 0 .. n /\ k + 1 \in 0 .. n /\ k + 1 \in 1 .. n /\ k + 1 # 0 /\ k + 1 - 1 = k
    BY <1>0
  <2>2. t[k + 1] = t[k] + child.counts[k + 1] /\ child.counts[k + 1] \in Nat /\ t[k] \in Nat
    BY <1>1, <1>2, <1>4, <2>1 DEF Totals
  <2>3. ASSUME NEW m \in 0 .. k + 1 PROVE t[m] \in Nat /\ t[m] <= t[k + 1]
    <3>1. CASE m = k + 1
      BY <2>2, <3>1
    <3>2. CASE m # k + 1
      <4>1. t[m] \in Nat /\ t[m] <= t[k]
        BY <1>4, <3>2
      <4> QED
        BY <2>2, <4>1
    <3> QED
      BY <3>1, <3>2
  <2> QED
    BY <2>1, <2>2, <2>3
<1> HIDE DEF P
<1>5. 0 .. n \subseteq P
  BY <1>0, <1>3, <1>4, CountUp
<1>6. i \in P /\ j \in 0 .. i /\ j \in DOMAIN Bounds
  BY <1>0, <1>5
<1> QED
  BY <1>1, <1>6 DEF P

\* What observe is doing with each run's event, and what it has timed: a run
\* that has ended is counted and timed once.
JobTypes == {"", "run.submitted"} \cup Range(EndOf)

JobsInvariant ==
    /\ observing \in [RunIDs -> [at : Steps, type : JobTypes, stamp : Int]]
    /\ \A r \in RunIDs : observing[r].at \in {"result", "take", "observe"} =>
          pos[r] \in {7, 8} /\ observing[r].type \in Range(EndOf)
    /\ \A r \in RunIDs : observing[r].at = "observe" => observing[r].stamp >= 0
    /\ \A r \in DOMAIN starts : starts[r] \in Int
    /\ timed \in [RunIDs -> Int]
    /\ \A r \in RunIDs : timed[r] # -1 => observing[r].at = "idle" /\ pos[r] \in {7, 8}
    /\ IsFiniteSet({r \in RunIDs : timed[r] # -1})

\* A run ends once: after its end it has a lesson to publish, or nothing.
LEMMA EndsOnce ==
    ASSUME NEW p \in 0 .. Len(Script), NEW r, pos[r] = p, NEW type \in Emits(r)
    PROVE  LET n == IF type = Script[p + 1] THEN p + 1 ELSE Len(Script)
           IN  /\ type \in Range(EndOf) => p \notin {7, 8} /\ n \in {7, 8}
               /\ p \in {7, 8} => n \in {7, 8} /\ type \notin JobTypes
<1>1. Len(Script) = 8 /\ DOMAIN Script = 1 .. 8
  BY DEF Script
<1>2. /\ Script[1] = "run.scheduled" /\ Script[2] = "run.dequeued" /\ Script[3] = "run.submitted"
      /\ Script[4] = "sandbox.created" /\ Script[5] = "agent.executing"
      /\ Script[6] = "agent.completed" /\ Script[7] = "run.completed"
      /\ Script[8] = "brain.lesson_extracted"
  BY DEF Script
<1>3. Range(EndOf) = {"run.completed", "run.failed", "run.cancelled"}
  BY EndTypes
<1>4. \/ p + 1 \in 1 .. 8 /\ type = Script[p + 1]
      \/ p \in {1, 6} /\ type = "run.cancelled"
      \/ p \in 3 .. 6 /\ type = "run.failed"
  BY <1>1 DEF Emits
<1>5. p \in {0, 1, 2, 3, 4, 5, 6, 7, 8}
  BY <1>1
<1>6. JobTypes = {"", "run.submitted", "run.completed", "run.failed", "run.cancelled"}
  BY <1>3 DEF JobTypes
<1> DEFINE n == IF type = Script[p + 1] THEN p + 1 ELSE Len(Script)
           Ended == {"run.completed", "run.failed", "run.cancelled"}
<1> HIDE DEF Script
<1>7. ASSUME type = Script[p + 1], p \in 0 .. 7
      PROVE  /\ type \in Ended => p \notin {7, 8} /\ n \in {7, 8}
             /\ p \in {7, 8} => n \in {7, 8} /\ type = "brain.lesson_extracted"
  <2>1. n = p + 1
    BY <1>7
  <2>2. type \in Ended => p = 6
    BY <1>2, <1>5, <1>7
  <2>3. p \in {7, 8} => p = 7 /\ type = "brain.lesson_extracted"
    BY <1>2, <1>7
  <2> HIDE DEF n, Ended
  <2>4. type \in Ended => p \notin {7, 8} /\ n \in {7, 8}
    BY <2>1, <2>2
  <2>5. p \in {7, 8} => n \in {7, 8}
    BY <2>1, <2>3
  <2> QED
    BY <2>3, <2>4, <2>5
<1>8. ASSUME p \in {1, 3, 4, 5, 6}, type \in {"run.cancelled", "run.failed"}
      PROVE  /\ type \in Ended => p \notin {7, 8} /\ n \in {7, 8}
             /\ p \in {7, 8} => n \in {7, 8} /\ type = "brain.lesson_extracted"
  <2>1. type # Script[p + 1]
    BY <1>2, <1>8
  <2>2. n = 8
    BY <1>1, <2>1
  <2> HIDE DEF n
  <2> QED
    BY <1>8, <2>2
<1> HIDE DEF n
<1>9. \/ type = Script[p + 1] /\ p \in 0 .. 7
      \/ p \in {1, 3, 4, 5, 6} /\ type \in {"run.cancelled", "run.failed"}
  BY <1>4, <1>5
<1>10. /\ type \in Ended => p \notin {7, 8} /\ n \in {7, 8}
       /\ p \in {7, 8} => n \in {7, 8} /\ type = "brain.lesson_extracted"
  BY <1>7, <1>8, <1>9
<1>11. "brain.lesson_extracted" \notin JobTypes
  BY <1>6
<1>12. /\ type \in Range(EndOf) => p \notin {7, 8} /\ n \in {7, 8}
       /\ p \in {7, 8} => n \in {7, 8} /\ type \notin JobTypes
  BY <1>3, <1>10, <1>11 DEF Ended
<1> QED
  BY <1>12 DEF n

LEMMA JobsDelivered ==
    ASSUME TrackerInvariant, JobsInvariant, NEW r \in RunIDs, NEW type \in Emits(r),
           Deliver(r, type)
    PROVE  /\ JobsInvariant'
           /\ observing[r].at = "idle" /\ observing'[r].at \in {"idle", "start", "result"}
           /\ \A q \in RunIDs \ {r} : observing'[q] = observing[q]
           /\ UNCHANGED <<runsTotal, runDuration, page, timed>>
<1> DEFINE n == IF type = Script[pos[r] + 1] THEN pos[r] + 1 ELSE Len(Script)
<1>0. /\ pos[r] \in 0 .. Len(Script) /\ observing[r].at = "idle"
      /\ pos' = [pos EXCEPT ![r] = n] /\ DOMAIN pos = RunIDs
  BY DEF TrackerInvariant, Deliver, Publish, Advance
<1>1. /\ type \in Range(EndOf) => pos[r] \notin {7, 8} /\ n \in {7, 8}
      /\ pos[r] \in {7, 8} => n \in {7, 8} /\ type \notin JobTypes
  BY <1>0, EndsOnce
<1> HIDE DEF n
<1>2. pos'[r] = n /\ \A q \in RunIDs \ {r} : pos'[q] = pos[q]
  BY <1>0
<1>3. UNCHANGED <<runsTotal, runDuration, page, timed, starts>>
  BY DEF Deliver, BeginObserve, metricVars
<1>4. \E job \in [at : Steps, type : JobTypes, stamp : Int] :
         /\ observing' = [observing EXCEPT ![r] = job]
         /\ job.at \in {"idle", "start", "result"}
         /\ job.at = "result" => job.type = type /\ type \in Range(EndOf)
         /\ job.at # "idle" => type \in JobTypes
  <2>1. CASE "metrics" \notin attached
    <3>1. observing' = [observing EXCEPT ![r] = observing[r]]
      BY <2>1 DEF Deliver, metricVars, JobsInvariant
    <3> QED
      BY <1>0, <3>1 DEF JobsInvariant
  <2>2. CASE "metrics" \in attached
    <3>1. PICK ts \in (IF type = "run.submitted" THEN StartStamps
                       ELSE IF IsTerminalEvent(type) THEN EndStamps ELSE {0}) :
                 BeginObserve(r, type, ts)
      BY <2>2 DEF Deliver
    <3>2. ts \in Int
      BY MetricsAssumption
    <3> DEFINE job == CASE type = "run.submitted" -> [at |-> "start", type |-> type, stamp |-> ts]
                        [] type \in Range(EndOf) -> [at |-> "result", type |-> type, stamp |-> ts]
                        [] OTHER -> Idle
    <3>3. observing' = [observing EXCEPT ![r] = job]
      BY <3>1 DEF BeginObserve
    <3>4. "run.submitted" \notin Range(EndOf)
      BY EndTypes
    <3>5. /\ job \in [at : Steps, type : JobTypes, stamp : Int]
          /\ job.at \in {"idle", "start", "result"}
          /\ job.at = "result" => job.type = type /\ type \in Range(EndOf)
          /\ job.at # "idle" => type \in JobTypes
      <4>1. CASE type = "run.submitted"
        BY <3>2, <3>4, <4>1 DEF Steps, JobTypes
      <4>2. CASE type \in Range(EndOf)
        BY <3>2, <3>4, <4>2 DEF Steps, JobTypes
      <4>3. CASE type # "run.submitted" /\ type \notin Range(EndOf)
        <5>1. job = Idle
          BY <4>3
        <5>2. Idle \in [at : Steps, type : JobTypes, stamp : Int] /\ Idle.at = "idle"
          BY DEF Idle, Steps, JobTypes
        <5> HIDE DEF job
        <5> QED
          BY <5>1, <5>2
      <4> QED
        BY <4>1, <4>2, <4>3
    <3> HIDE DEF job
    <3> QED
      BY <3>3, <3>5
  <2> QED
    BY <2>1, <2>2
<1>5. PICK job \in [at : Steps, type : JobTypes, stamp : Int] :
         /\ observing' = [observing EXCEPT ![r] = job]
         /\ job.at \in {"idle", "start", "result"}
         /\ job.at = "result" => job.type = type /\ type \in Range(EndOf)
         /\ job.at # "idle" => type \in JobTypes
  BY <1>4
<1>6. /\ observing' \in [RunIDs -> [at : Steps, type : JobTypes, stamp : Int]]
      /\ observing'[r] = job /\ \A q \in RunIDs \ {r} : observing'[q] = observing[q]
  BY <1>5 DEF JobsInvariant
<1>7. \A q \in RunIDs : observing'[q].at \in {"result", "take", "observe"} =>
         pos'[q] \in {7, 8} /\ observing'[q].type \in Range(EndOf)
  BY <1>1, <1>2, <1>5, <1>6 DEF JobsInvariant
<1>8. \A q \in RunIDs : observing'[q].at = "observe" => observing'[q].stamp >= 0
  BY <1>5, <1>6 DEF JobsInvariant
<1>9. \A q \in RunIDs : timed[q] # -1 => observing'[q].at = "idle" /\ pos'[q] \in {7, 8}
  BY <1>1, <1>2, <1>5, <1>6 DEF JobsInvariant
<1>10. JobsInvariant'
  BY <1>3, <1>6, <1>7, <1>8, <1>9 DEF JobsInvariant
<1> QED
  BY <1>0, <1>3, <1>5, <1>6, <1>10

LEMMA JobsObserved ==
    ASSUME TrackerInvariant, JobsInvariant, NEW r \in RunIDs, ObserveStep(r), UNCHANGED pos
    PROVE  JobsInvariant'
<1>0. /\ observing \in [RunIDs -> [at : Steps, type : JobTypes, stamp : Int]]
      /\ observing[r] \in [at : Steps, type : JobTypes, stamp : Int]
      /\ timed \in [RunIDs -> Int]
  BY DEF JobsInvariant
<1>1. Idle \in [at : Steps, type : JobTypes, stamp : Int] /\ Idle.at = "idle"
  BY DEF Idle, Steps, JobTypes
<1>2. CASE RecordStart(r)
  <2>1. /\ observing' = [observing EXCEPT ![r] = Idle] /\ UNCHANGED timed
        /\ observing[r].at = "start"
    BY <1>2 DEF RecordStart
  <2>2. \A q \in DOMAIN starts' : starts'[q] \in Int
    <3>1. \A q \in DOMAIN starts' : starts'[q] = observing[r].stamp \/ (q \in DOMAIN starts /\ starts'[q] = starts[q])
      BY <1>2 DEF RecordStart, SetStart
    <3> QED
      BY <1>0, <3>1 DEF JobsInvariant
  <2> QED
    BY <1>0, <1>1, <2>1, <2>2 DEF JobsInvariant
<1>3. CASE CountResult(r)
  <2> DEFINE job == [observing[r] EXCEPT !.at = "take"]
  <2>1. /\ observing' = [observing EXCEPT ![r] = job] /\ UNCHANGED <<timed, starts>>
        /\ observing[r].at = "result"
    BY <1>0, <1>3 DEF CountResult
  <2>2. /\ job \in [at : Steps, type : JobTypes, stamp : Int]
        /\ job.at = "take" /\ job.type = observing[r].type
    BY <1>0 DEF Steps
  <2> HIDE DEF job
  <2> QED
    BY <1>0, <2>1, <2>2 DEF JobsInvariant
<1>4. CASE TakeForDuration(r)
  <2> DEFINE timing == [at |-> "observe", type |-> observing[r].type,
                        stamp |-> observing[r].stamp - starts[r]]
  <2>1. /\ \/ observing' = [observing EXCEPT ![r] = Idle]
           \/ /\ r \in DOMAIN starts /\ ~(observing[r].stamp < starts[r])
              /\ observing' = [observing EXCEPT ![r] = timing]
        /\ observing[r].at = "take" /\ UNCHANGED timed
        /\ \A q \in DOMAIN starts' : q \in DOMAIN starts /\ starts'[q] = starts[q]
    BY <1>4 DEF TakeForDuration, TakeStart
  <2>2. /\ timing.at = "observe" /\ timing.type = observing[r].type
        /\ timing.stamp = observing[r].stamp - starts[r]
    OBVIOUS
  <2>3. r \in DOMAIN starts /\ ~(observing[r].stamp < starts[r]) =>
           timing \in [at : Steps, type : JobTypes, stamp : Int] /\ timing.stamp >= 0
    BY <1>0 DEF JobsInvariant, Steps
  <2> HIDE DEF timing
  <2> QED
    BY <1>0, <1>1, <2>1, <2>2, <2>3 DEF JobsInvariant
<1>5. CASE ObserveDuration(r)
  <2>1. /\ observing' = [observing EXCEPT ![r] = Idle] /\ UNCHANGED starts
        /\ timed' = [timed EXCEPT ![r] = observing[r].stamp]
        /\ observing[r].at = "observe" /\ pos[r] \in {7, 8}
    BY <1>5 DEF ObserveDuration, JobsInvariant
  <2>2. IsFiniteSet({q \in RunIDs : timed'[q] # -1})
    <3> DEFINE T == {q \in RunIDs : timed[q] # -1}
    <3>1. {q \in RunIDs : timed'[q] # -1} \subseteq T \cup {r}
      BY <1>0, <2>1
    <3>2. IsFiniteSet(T \cup {r})
      BY FS_AddElement DEF JobsInvariant
    <3> QED
      BY <3>1, <3>2, FS_Subset
  <2> QED
    BY <1>0, <1>1, <2>1, <2>2 DEF JobsInvariant
<1> QED
  BY <1>2, <1>3, <1>4, <1>5 DEF ObserveStep


LEMMA JobsInductive ==
    ASSUME TrackerInvariant, JobsInvariant, [ObserversNext]_ovars
    PROVE  JobsInvariant'
<1>1. \/ \E r \in RunIDs : \E type \in Emits(r) : Deliver(r, type)
      \/ \E r \in RunIDs : ObserveStep(r) /\ UNCHANGED pos
      \/ UNCHANGED <<pos, starts, observing, timed>>
  BY DEF ObserversNext, Scrape, Forget, AllQuiet, ovars, vars, metricVars
<1>2. CASE UNCHANGED <<pos, starts, observing, timed>>
  BY <1>2 DEF JobsInvariant
<1> QED
  BY <1>1, <1>2, JobsDelivered, JobsObserved

LEMMA JobsInitially == ObserversInit => JobsInvariant
<1> SUFFICES ASSUME ObserversInit PROVE JobsInvariant
  OBVIOUS
<1>1. /\ DOMAIN starts = {} /\ timed = [r \in RunIDs |-> -1]
      /\ observing = [r \in RunIDs |-> Idle]
  BY DEF ObserversInit, MetricsInit
<1>2. Idle \in [at : Steps, type : JobTypes, stamp : Int] /\ Idle.at = "idle"
  BY DEF Idle, Steps, JobTypes
<1>3. {r \in RunIDs : timed[r] # -1} = {}
  BY <1>1
<1>4. IsFiniteSet({r \in RunIDs : timed[r] # -1})
  BY <1>3, FS_EmptySet
<1>5. /\ observing \in [RunIDs -> [at : Steps, type : JobTypes, stamp : Int]]
      /\ timed \in [RunIDs -> Int]
      /\ \A r \in RunIDs : timed[r] = -1 /\ observing[r].at = "idle"
  BY <1>1, <1>2
<1> QED
  BY <1>1, <1>4, <1>5 DEF JobsInvariant

LEMMA ResultOfEnd ==
    ASSUME NEW type \in Range(EndOf)
    PROVE  ResultOf(type) \in Results /\ EndOf[ResultOf(type)] = type
<1>1. DOMAIN EndOf = Results
  BY DEF EndOf, Results
<1>2. \E x \in Results : EndOf[x] = type
  BY <1>1 DEF Range
<1> QED
  BY <1>2 DEF ResultOf

LEMMA NothingObserved ==
    /\ NoChild \in Children
    /\ \A i \in DOMAIN Bounds : Cumulative(NoChild)[i] = 0
<1> DEFINE n == Len(Bounds)
<1>0. n \in Nat /\ DOMAIN Bounds = 1 .. n
  BY MetricsAssumption
<1>1. PICK t : Totals(t, NoChild.counts, n) /\ Cumulative(NoChild) = [k \in DOMAIN Bounds |-> t[k]]
  BY Accumulated
<1>2. \A k \in 1 .. n : NoChild.counts[k] = 0
  BY <1>0 DEF NoChild
<1> DEFINE P == {k \in 0 .. n : t[k] = 0}
<1>3. 0 \in P
  BY <1>0, <1>1 DEF Totals
<1>4. ASSUME NEW k \in 0 .. n - 1, k \in P PROVE k + 1 \in P
  <2>1. k \in 0 .. n /\ k + 1 \in 0 .. n /\ k + 1 \in 1 .. n /\ k + 1 # 0 /\ k + 1 - 1 = k
    BY <1>0
  <2>2. t[k + 1] = t[k] + NoChild.counts[k + 1]
    BY <1>1, <2>1 DEF Totals
  <2> QED
    BY <1>2, <1>4, <2>1, <2>2
<1> HIDE DEF P
<1>5. 0 .. n \subseteq P
  BY <1>0, <1>3, <1>4, CountUp
<1>6. \A i \in 1 .. n : Cumulative(NoChild)[i] = 0
  BY <1>0, <1>1, <1>5 DEF P
<1>7. NoChild \in Children
  BY DEF NoChild, Children
<1> QED
  BY <1>0, <1>6, <1>7

LEMMA ObserveKeeps ==
    ASSUME NEW child \in Children, NEW v \in Int
    PROVE  /\ Observe(child, v) \in Children
           /\ Observe(child, v).count = child.count + 1
  BY DEF Children, Observe

\* The histogram: no bucket line of a result exceeds its count, and together
\* the lines are the runs that were timed.
DurationsInvariant ==
    /\ runDuration \in [Results -> Children]
    /\ \A x \in Results : \A i \in DOMAIN Bounds :
          Cumulative(runDuration[x])[i] <= runDuration[x].count
    /\ DurationsAddUp

LEMMA DurationObserved ==
    ASSUME JobsInvariant, DurationsInvariant, NEW r \in RunIDs, ObserveDuration(r)
    PROVE  DurationsInvariant'
<1> DEFINE v == observing[r].stamp
           x == ResultOf(observing[r].type)
<1>1. /\ observing[r].at = "observe" /\ v \in Int /\ v >= 0 /\ timed[r] = -1
      /\ observing[r].type \in Range(EndOf)
  BY DEF ObserveDuration, JobsInvariant
<1>2. x \in Results
  BY <1>1, ResultOfEnd
<1>3. /\ runDuration' = [runDuration EXCEPT ![x] = Observe(runDuration[x], v)]
      /\ timed' = [timed EXCEPT ![r] = v] /\ timed \in [RunIDs -> Int]
      /\ runDuration \in [Results -> Children]
  BY DEF ObserveDuration, DurationsInvariant, JobsInvariant
<1> HIDE DEF v, x
<1>4. /\ Observe(runDuration[x], v) \in Children
      /\ Observe(runDuration[x], v).count = runDuration[x].count + 1
      /\ runDuration[x] \in Children
  BY <1>1, <1>2, <1>3, ObserveKeeps
<1>5. /\ runDuration' \in [Results -> Children]
      /\ runDuration'[x] = Observe(runDuration[x], v)
      /\ \A y \in Results \ {x} : runDuration'[y] = runDuration[y]
  BY <1>2, <1>3, <1>4
<1>6. ASSUME NEW i \in DOMAIN Bounds
      PROVE  /\ \A y \in Results : /\ Cumulative(runDuration[y])[i] \in Nat
                                   /\ runDuration[y].count \in Nat
             /\ Cumulative(runDuration'[x])[i] =
                   Cumulative(runDuration[x])[i] + (IF v <= Bounds[i] THEN 1 ELSE 0)
  <2>1. \A y \in Results : runDuration[y] \in Children
    BY <1>3
  <2>2. \A y \in Results : Cumulative(runDuration[y])[i] \in Nat
    BY <1>1, <2>1, ObservedOnce
  <2>3. \A y \in Results : runDuration[y].count \in Nat
    BY <2>1 DEF Children
  <2> QED
    BY <1>1, <1>4, <1>5, <2>2, <2>3, ObservedOnce
<1>7. ASSUME NEW y \in Results, NEW i \in DOMAIN Bounds
      PROVE  Cumulative(runDuration'[y])[i] <= runDuration'[y].count
  <2>1. Cumulative(runDuration[y])[i] <= runDuration[y].count
    BY DEF DurationsInvariant
  <2>2. CASE y # x
    BY <1>5, <2>1, <2>2
  <2>3. CASE y = x
    <3>1. Cumulative(runDuration'[x])[i] =
             Cumulative(runDuration[x])[i] + (IF v <= Bounds[i] THEN 1 ELSE 0)
      BY <1>6
    <3>2. Cumulative(runDuration[x])[i] \in Nat /\ runDuration[x].count \in Nat
      BY <1>2, <1>6
    <3>3. runDuration'[x].count = runDuration[x].count + 1
      BY <1>4, <1>5
    <3> QED
      BY <2>1, <2>3, <3>1, <3>2, <3>3
  <2> QED
    BY <2>2, <2>3
<1>8. ASSUME NEW i \in DOMAIN Bounds
      PROVE  Cumulative(runDuration'["completed"])[i] + Cumulative(runDuration'["failed"])[i]
                + Cumulative(runDuration'["cancelled"])[i]
             = Cardinality({q \in RunIDs : timed'[q] >= 0 /\ timed'[q] <= Bounds[i]})
  <2> DEFINE S == {q \in RunIDs : timed[q] >= 0 /\ timed[q] <= Bounds[i]}
             one == IF v <= Bounds[i] THEN 1 ELSE 0
             C(y) == Cumulative(runDuration[y])[i]
             D(y) == Cumulative(runDuration'[y])[i]
  <2>1. C("completed") + C("failed") + C("cancelled") = Cardinality(S)
    BY DEF DurationsInvariant, DurationsAddUp
  <2>2. IsFiniteSet(S) /\ r \notin S
    <3>1. S \subseteq {q \in RunIDs : timed[q] # -1}
      OBVIOUS
    <3>2. r \notin S
      BY <1>1
    <3> QED
      BY <3>1, <3>2, FS_Subset DEF JobsInvariant
  <2>3. {q \in RunIDs : timed'[q] >= 0 /\ timed'[q] <= Bounds[i]} =
           IF v <= Bounds[i] THEN S \cup {r} ELSE S
    BY <1>1, <1>3
  <2>4. Cardinality(S \cup {r}) = Cardinality(S) + 1 /\ Cardinality(S) \in Nat
    BY <2>2, FS_AddElement, FS_CardinalityType
  <2>5. /\ D(x) = C(x) + one
        /\ \A y \in Results \ {x} : D(y) = C(y)
        /\ \A y \in Results : C(y) \in Nat
    BY <1>5, <1>6
  <2>6. one \in {0, 1} /\ Results = {"completed", "failed", "cancelled"}
    BY DEF Results
  <2>7. Cardinality({q \in RunIDs : timed'[q] >= 0 /\ timed'[q] <= Bounds[i]}) = Cardinality(S) + one
    <3>1. CASE v <= Bounds[i]
      BY <2>3, <2>4, <3>1
    <3>2. CASE ~(v <= Bounds[i])
      <4>1. {q \in RunIDs : timed'[q] >= 0 /\ timed'[q] <= Bounds[i]} = S /\ one = 0
        BY <2>3, <3>2
      <4> HIDE DEF S, one
      <4> QED
        BY <2>4, <4>1
    <3> QED
      BY <3>1, <3>2
  <2> HIDE DEF C, D, S, one
  <2>8. D("completed") + D("failed") + D("cancelled") = Cardinality(S) + one
    <3>1. /\ C("completed") \in Nat /\ C("failed") \in Nat /\ C("cancelled") \in Nat
      BY <2>5, <2>6
    <3>2. \/ x = "completed" /\ D("completed") = C("completed") + one
             /\ D("failed") = C("failed") /\ D("cancelled") = C("cancelled")
          \/ x = "failed" /\ D("completed") = C("completed")
             /\ D("failed") = C("failed") + one /\ D("cancelled") = C("cancelled")
          \/ x = "cancelled" /\ D("completed") = C("completed")
             /\ D("failed") = C("failed") /\ D("cancelled") = C("cancelled") + one
      BY <1>2, <2>5, <2>6
    <3> QED
      BY <2>1, <2>6, <3>1, <3>2
  <2> QED
    BY <2>7, <2>8 DEF D
<1> QED
  BY <1>5, <1>7, <1>8 DEF DurationsInvariant, DurationsAddUp

LEMMA DurationsInductive ==
    ASSUME JobsInvariant, DurationsInvariant, [ObserversNext]_ovars
    PROVE  DurationsInvariant'
<1>1. \/ \E r \in RunIDs : ObserveDuration(r)
      \/ UNCHANGED <<runDuration, timed>>
  BY DEF ObserversNext, Deliver, BeginObserve, ObserveStep, RecordStart, CountResult,
         TakeForDuration, Scrape, Forget, AllQuiet, ovars, vars, metricVars
<1>2. CASE UNCHANGED <<runDuration, timed>>
  BY <1>2 DEF DurationsInvariant, DurationsAddUp
<1> QED
  BY <1>1, <1>2, DurationObserved

LEMMA DurationsInitially == ObserversInit => DurationsInvariant
<1> SUFFICES ASSUME ObserversInit PROVE DurationsInvariant
  OBVIOUS
<1>1. timed = [r \in RunIDs |-> -1] /\ runDuration = [x \in Results |-> NoChild]
  BY DEF ObserversInit, MetricsInit
<1>2. NoChild \in Children /\ \A i \in DOMAIN Bounds : Cumulative(NoChild)[i] = 0
  BY NothingObserved
<1>3. NoChild.count = 0
  BY DEF NoChild
<1>4. "completed" \in Results /\ "failed" \in Results /\ "cancelled" \in Results
  BY DEF Results
<1>5. \A x \in Results : runDuration[x] = NoChild
  BY <1>1
<1>6. ASSUME NEW i \in DOMAIN Bounds
      PROVE  Cardinality({r \in RunIDs : timed[r] >= 0 /\ timed[r] <= Bounds[i]}) = 0
  <2>1. {r \in RunIDs : timed[r] >= 0 /\ timed[r] <= Bounds[i]} = {}
    BY <1>1
  <2> QED
    BY <2>1, FS_EmptySet
<1>7. ASSUME NEW i \in DOMAIN Bounds
      PROVE  Cumulative(runDuration["completed"])[i] + Cumulative(runDuration["failed"])[i]
                + Cumulative(runDuration["cancelled"])[i] = 0
  <2>1. \A x \in Results : Cumulative(runDuration[x])[i] = 0
    BY <1>2, <1>5
  <2> QED
    BY <1>4, <2>1
<1>8. DurationsAddUp
  BY <1>6, <1>7 DEF DurationsAddUp
<1> QED
  BY <1>1, <1>2, <1>3, <1>5, <1>8 DEF DurationsInvariant


\* The runs that ended with result x, are counted and not timed yet.
Pending(x) == {r \in RunIDs : observing[r].at \in {"take", "observe"} /\ observing[r].type = EndOf[x]}

\* A run is counted before it is timed, and is timed once.
CountsInvariant ==
    /\ runsTotal \in [Results -> Nat]
    /\ \A x \in Results :
          IsFiniteSet(Pending(x)) /\ runDuration[x].count + Cardinality(Pending(x)) <= runsTotal[x]

Pages == [at : 0 .. 2, result : Results, cum : [DOMAIN Bounds -> Nat], count : Nat, runs : Nat]

\* A page holds one snapshot of the histogram and a later count of the runs.
PageInvariant ==
    /\ page \in Pages
    /\ \A i \in DOMAIN Bounds :
          page.cum[i] <= page.count /\ \A j \in 1 .. i : page.cum[j] <= page.cum[i]
    /\ page.at = 1 => page.count <= runDuration[page.result].count
    /\ page.at = 2 => page.count <= page.runs

LEMMA PendingKept ==
    ASSUME NEW x \in Results,
           \A q \in RunIDs : observing'[q].at \in {"take", "observe"} =>
              observing[q].at \in {"take", "observe"} /\ observing'[q].type = observing[q].type,
           IsFiniteSet(Pending(x))
    PROVE  /\ IsFiniteSet(Pending(x)') /\ Cardinality(Pending(x)') \in Nat
           /\ Cardinality(Pending(x)) \in Nat
           /\ Cardinality(Pending(x)') <= Cardinality(Pending(x))
<1>1. Pending(x)' \subseteq Pending(x)
  BY DEF Pending
<1> QED
  BY <1>1, FS_Subset, FS_CardinalityType

LEMMA ResultCounted ==
    ASSUME JobsInvariant, DurationsInvariant, CountsInvariant, NEW r \in RunIDs, CountResult(r)
    PROVE  CountsInvariant'
<1> DEFINE y == ResultOf(observing[r].type)
<1>1. /\ observing[r].at = "result" /\ observing[r].type \in Range(EndOf)
      /\ observing[r] \in [at : Steps, type : JobTypes, stamp : Int]
      /\ observing \in [RunIDs -> [at : Steps, type : JobTypes, stamp : Int]]
  BY DEF CountResult, JobsInvariant
<1>2. y \in Results /\ EndOf[y] = observing[r].type
  BY <1>1, ResultOfEnd
<1>3. /\ runsTotal' = [runsTotal EXCEPT ![y] = runsTotal[y] + 1] /\ UNCHANGED runDuration
      /\ observing' = [observing EXCEPT ![r] = [observing[r] EXCEPT !.at = "take"]]
  BY <1>1 DEF CountResult
<1>4. /\ observing'[r].at = "take" /\ observing'[r].type = observing[r].type
      /\ \A q \in RunIDs \ {r} : observing'[q] = observing[q]
  BY <1>1, <1>3
<1> HIDE DEF y
<1>5. runsTotal \in [Results -> Nat]
  BY DEF CountsInvariant
<1>6. /\ runsTotal' \in [Results -> Nat] /\ runsTotal'[y] = runsTotal[y] + 1
      /\ \A x \in Results \ {y} : runsTotal'[x] = runsTotal[x]
  BY <1>2, <1>3, <1>5
<1>7. ASSUME NEW x \in Results
      PROVE  /\ IsFiniteSet(Pending(x)')
             /\ runDuration'[x].count + Cardinality(Pending(x)') <= runsTotal'[x]
  <2>1. /\ IsFiniteSet(Pending(x)) /\ Cardinality(Pending(x)) \in Nat
        /\ runDuration[x].count + Cardinality(Pending(x)) <= runsTotal[x]
    BY FS_CardinalityType DEF CountsInvariant
  <2>2. runDuration[x].count \in Nat /\ runsTotal[x] \in Nat
    BY <1>5 DEF DurationsInvariant, Children
  <2>3. CASE x = y
    <3>1. r \notin Pending(x)
      BY <1>1 DEF Pending
    <3>2. Pending(x)' = Pending(x) \cup {r}
      BY <1>2, <1>4, <2>3 DEF Pending
    <3>3. IsFiniteSet(Pending(x)') /\ Cardinality(Pending(x)') = Cardinality(Pending(x)) + 1
      BY <2>1, <3>1, <3>2, FS_AddElement
    <3> QED
      BY <1>3, <1>6, <2>1, <2>2, <2>3, <3>3
  <2>4. CASE x # y
    <3>1. EndOf[x] # EndOf[y]
      BY <1>2, <2>4 DEF EndOf, Results
    <3>2. Pending(x)' = Pending(x)
      BY <1>1, <1>2, <1>4, <3>1 DEF Pending
    <3> QED
      BY <1>3, <1>6, <2>1, <2>4, <3>2
  <2> QED
    BY <2>3, <2>4
<1> QED
  BY <1>6, <1>7 DEF CountsInvariant

LEMMA DurationCounted ==
    ASSUME JobsInvariant, DurationsInvariant, CountsInvariant, NEW r \in RunIDs, ObserveDuration(r)
    PROVE  /\ CountsInvariant'
           /\ \A x \in Results : /\ runDuration[x].count \in Nat /\ runDuration'[x].count \in Nat
                                 /\ runDuration[x].count <= runDuration'[x].count
<1> DEFINE y == ResultOf(observing[r].type)
           v == observing[r].stamp
<1>1. /\ observing[r].at = "observe" /\ observing[r].type \in Range(EndOf) /\ v \in Int
      /\ DOMAIN observing = RunIDs
  BY DEF ObserveDuration, JobsInvariant
<1>2. y \in Results /\ EndOf[y] = observing[r].type
  BY <1>1, ResultOfEnd
<1>3. /\ runDuration' = [runDuration EXCEPT ![y] = Observe(runDuration[y], v)]
      /\ observing' = [observing EXCEPT ![r] = Idle] /\ UNCHANGED runsTotal
      /\ runDuration \in [Results -> Children]
  BY DEF ObserveDuration, DurationsInvariant
<1>4. Idle.at = "idle"
  BY DEF Idle
<1>5. /\ observing'[r].at = "idle" /\ \A q \in RunIDs \ {r} : observing'[q] = observing[q]
  BY <1>1, <1>3, <1>4
<1> HIDE DEF y, v
<1>6. /\ Observe(runDuration[y], v).count = runDuration[y].count + 1
  BY <1>1, <1>2, <1>3, ObserveKeeps
<1>7. /\ runDuration'[y].count = runDuration[y].count + 1
      /\ \A x \in Results \ {y} : runDuration'[x] = runDuration[x]
      /\ \A x \in Results : runDuration[x].count \in Nat
  BY <1>2, <1>3, <1>6 DEF Children
<1>8. ASSUME NEW x \in Results
      PROVE  /\ IsFiniteSet(Pending(x)')
             /\ runDuration'[x].count + Cardinality(Pending(x)') <= runsTotal'[x]
  <2>1. /\ IsFiniteSet(Pending(x)) /\ Cardinality(Pending(x)) \in Nat
        /\ runDuration[x].count + Cardinality(Pending(x)) <= runsTotal[x]
        /\ runsTotal[x] \in Nat
    BY FS_CardinalityType DEF CountsInvariant
  <2>2. CASE x = y
    <3>1. r \in Pending(x)
      BY <1>1, <1>2, <2>2 DEF Pending
    <3>2. Pending(x)' = Pending(x) \ {r}
      BY <1>5 DEF Pending
    <3>3. IsFiniteSet(Pending(x)') /\ Cardinality(Pending(x)') = Cardinality(Pending(x)) - 1
      BY <2>1, <3>1, <3>2, FS_RemoveElement
    <3> QED
      BY <1>3, <1>7, <2>1, <2>2, <3>3
  <2>3. CASE x # y
    <3>1. EndOf[x] # EndOf[y]
      BY <1>2, <2>3 DEF EndOf, Results
    <3>2. Pending(x)' = Pending(x)
      BY <1>2, <1>5, <3>1 DEF Pending
    <3> QED
      BY <1>3, <1>7, <2>1, <2>3, <3>2
  <2> QED
    BY <2>2, <2>3
<1>9. CountsInvariant'
  BY <1>3, <1>8 DEF CountsInvariant
<1>10. ASSUME NEW x \in Results
       PROVE  /\ runDuration[x].count \in Nat /\ runDuration'[x].count \in Nat
              /\ runDuration[x].count <= runDuration'[x].count
  <2>1. CASE x = y
    BY <1>7, <2>1
  <2>2. CASE x # y
    BY <1>7, <2>2
  <2> QED
    BY <2>1, <2>2
<1> QED
  BY <1>9, <1>10

LEMMA CountsInductive ==
    ASSUME TrackerInvariant, JobsInvariant, DurationsInvariant, CountsInvariant,
           [ObserversNext]_ovars
    PROVE  CountsInvariant'
<1>1. ASSUME UNCHANGED <<runsTotal, runDuration>>,
             \A q \in RunIDs : observing'[q].at \in {"take", "observe"} =>
                observing[q].at \in {"take", "observe"} /\ observing'[q].type = observing[q].type
      PROVE  CountsInvariant'
  <2> SUFFICES ASSUME NEW x \in Results
               PROVE  /\ IsFiniteSet(Pending(x)')
                      /\ runDuration[x].count + Cardinality(Pending(x)') <= runsTotal[x]
    BY <1>1 DEF CountsInvariant
  <2>1. /\ IsFiniteSet(Pending(x)) /\ runsTotal[x] \in Nat
        /\ runDuration[x].count + Cardinality(Pending(x)) <= runsTotal[x]
    BY DEF CountsInvariant
  <2>2. runDuration[x].count \in Nat
    BY DEF DurationsInvariant, Children
  <2>3. /\ IsFiniteSet(Pending(x)') /\ Cardinality(Pending(x)') \in Nat
        /\ Cardinality(Pending(x)) \in Nat
        /\ Cardinality(Pending(x)') <= Cardinality(Pending(x))
    BY <1>1, <2>1, PendingKept
  <2> QED
    BY <2>1, <2>2, <2>3
<1>2. \/ \E r \in RunIDs : \E type \in Emits(r) : Deliver(r, type)
      \/ \E r \in RunIDs : RecordStart(r) \/ TakeForDuration(r)
      \/ \E r \in RunIDs : CountResult(r)
      \/ \E r \in RunIDs : ObserveDuration(r)
      \/ UNCHANGED <<runsTotal, runDuration, observing>>
  BY DEF ObserversNext, ObserveStep, Scrape, Forget, AllQuiet, ovars, vars, metricVars
<1>3. ASSUME NEW r \in RunIDs, NEW type \in Emits(r), Deliver(r, type) PROVE CountsInvariant'
  <2>1. /\ observing'[r].at \in {"idle", "start", "result"}
        /\ \A q \in RunIDs \ {r} : observing'[q] = observing[q]
        /\ UNCHANGED <<runsTotal, runDuration>>
    BY <1>3, JobsDelivered
  <2> QED
    BY <1>1, <2>1
<1>4. ASSUME NEW r \in RunIDs, RecordStart(r) \/ TakeForDuration(r) PROVE CountsInvariant'
  <2>1. Idle.at = "idle" /\ DOMAIN observing = RunIDs
    BY DEF Idle, JobsInvariant
  <2>2. CASE RecordStart(r)
    <3>1. observing' = [observing EXCEPT ![r] = Idle] /\ UNCHANGED <<runsTotal, runDuration>>
      BY <2>2 DEF RecordStart
    <3> QED
      BY <1>1, <2>1, <3>1
  <2>3. CASE TakeForDuration(r)
    <3>1. /\ \/ observing' = [observing EXCEPT ![r] = Idle]
             \/ observing' = [observing EXCEPT ![r] =
                   [at |-> "observe", type |-> observing[r].type,
                    stamp |-> observing[r].stamp - starts[r]]]
          /\ observing[r].at = "take" /\ UNCHANGED <<runsTotal, runDuration>>
      BY <2>3 DEF TakeForDuration
    <3> QED
      BY <1>1, <2>1, <3>1
  <2> QED
    BY <1>4, <2>2, <2>3
<1>5. CASE UNCHANGED <<runsTotal, runDuration, observing>>
  BY <1>1, <1>5
<1> QED
  BY <1>2, <1>3, <1>4, <1>5, ResultCounted, DurationCounted

LEMMA PageInductive ==
    ASSUME JobsInvariant, DurationsInvariant, CountsInvariant, PageInvariant,
           [ObserversNext]_ovars
    PROVE  PageInvariant'
<1>0. Len(FamilyOrder) = 2 /\ FamilyOrder[1] = "sandcode_run_duration_seconds"
      /\ FamilyOrder[2] = "sandcode_runs_total"
  BY DEF FamilyOrder
<1> HIDE DEF FamilyOrder
<1>1. \/ \E r \in RunIDs : ObserveDuration(r) /\ UNCHANGED page
      \/ (\E x \in Results : WriteFamily(x)) /\ UNCHANGED runDuration
      \/ SendPage /\ UNCHANGED runDuration
      \/ UNCHANGED <<runDuration, page>>
  BY DEF ObserversNext, Deliver, BeginObserve, ObserveStep, RecordStart, CountResult,
         TakeForDuration, ObserveDuration, Scrape, Forget, AllQuiet, ovars, vars, metricVars
<1>2. page \in Pages /\ page.result \in Results /\ page.count \in Nat
  BY DEF PageInvariant, Pages
<1>3. ASSUME NEW r \in RunIDs, ObserveDuration(r), UNCHANGED page PROVE PageInvariant'
  <2>1. \A x \in Results : /\ runDuration[x].count \in Nat /\ runDuration'[x].count \in Nat
                           /\ runDuration[x].count <= runDuration'[x].count
    BY <1>3, DurationCounted
  <2>2. page.at = 1 => page.count <= runDuration'[page.result].count
    <3> SUFFICES ASSUME page.at = 1 PROVE page.count <= runDuration'[page.result].count
      OBVIOUS
    <3>1. page.count <= runDuration[page.result].count
      BY DEF PageInvariant
    <3> QED
      BY <1>2, <2>1, <3>1
  <2> QED
    BY <1>3, <2>2 DEF PageInvariant
<1>4. ASSUME NEW x \in Results, WriteFamily(x), UNCHANGED runDuration PROVE PageInvariant'
  <2> DEFINE child == runDuration[x]
  <2>1. child \in Children /\ child.count \in Nat
    BY DEF DurationsInvariant, Children
  <2>2. page.at \in 0 .. 2 /\ page.at < 2
    BY <1>0, <1>2, <1>4 DEF WriteFamily, Pages
  <2>3. CASE page.at = 0
    <3>1. page' = [page EXCEPT !.at = 1, !.result = x, !.cum = Cumulative(child),
                               !.count = child.count]
      BY <1>0, <1>2, <1>4, <2>3 DEF WriteFamily, Pages
    <3>2. \A i \in DOMAIN Bounds :
             /\ Cumulative(child)[i] \in Nat /\ Cumulative(child)[i] <= child.count
             /\ \A j \in 1 .. i : Cumulative(child)[j] <= Cumulative(child)[i]
      <4>1. \A i \in DOMAIN Bounds : Cumulative(child)[i] \in Nat
        <5>1. 0 \in Int
          OBVIOUS
        <5> QED
          BY <2>1, <5>1, ObservedOnce
      <4>2. \A i \in DOMAIN Bounds : Cumulative(child)[i] <= child.count
        BY DEF DurationsInvariant
      <4>3. \A i \in DOMAIN Bounds : \A j \in 1 .. i : Cumulative(child)[j] <= Cumulative(child)[i]
        BY <2>1, TotalsAscend
      <4> QED
        BY <4>1, <4>2, <4>3
    <3>3. Cumulative(child) \in [DOMAIN Bounds -> Nat]
      <4>1. Cumulative(child) = [i \in DOMAIN Bounds |-> Cumulative(child)[i]]
        BY Accumulated
      <4> QED
        BY <3>2, <4>1
    <3> HIDE DEF child
    <3>4. page' \in Pages /\ page'.at = 1 /\ page'.result = x /\ page'.cum = Cumulative(child)
          /\ page'.count = child.count
      <4>1. page' = [at |-> 1, result |-> x, cum |-> Cumulative(child), count |-> child.count,
                     runs |-> page.runs]
        BY <1>2, <3>1 DEF Pages
      <4>2. page.runs \in Nat
        BY <1>2 DEF Pages
      <4> QED
        BY <2>1, <3>3, <4>1, <4>2 DEF Pages
    <3>5. runDuration'[page'.result].count = child.count
      BY <1>4, <3>4 DEF child
    <3> QED
      BY <2>1, <3>2, <3>4, <3>5 DEF PageInvariant
  <2>4. CASE page.at = 1
    <3>1. page' = [page EXCEPT !.at = 2, !.result = x, !.runs = runsTotal[x]] /\ x = page.result
      BY <1>0, <1>2, <1>4, <2>4 DEF WriteFamily, Pages
    <3>2. runsTotal[x] \in Nat /\ child.count <= runsTotal[x]
      <4>1. /\ IsFiniteSet(Pending(x)) /\ runsTotal[x] \in Nat
            /\ child.count + Cardinality(Pending(x)) <= runsTotal[x]
        BY DEF CountsInvariant
      <4>2. Cardinality(Pending(x)) \in Nat
        BY <4>1, FS_CardinalityType
      <4> QED
        BY <2>1, <4>1, <4>2
    <3>3. page.count <= child.count
      BY <2>4, <3>1 DEF PageInvariant
    <3>4. /\ page' \in Pages /\ page'.at = 2 /\ page'.cum = page.cum /\ page'.count = page.count
          /\ page'.runs = runsTotal[x]
      <4>1. page' = [at |-> 2, result |-> x, cum |-> page.cum, count |-> page.count,
                     runs |-> runsTotal[x]]
        BY <1>2, <3>1 DEF Pages
      <4>2. page.cum \in [DOMAIN Bounds -> Nat]
        BY <1>2 DEF Pages
      <4> QED
        BY <1>2, <3>2, <4>1, <4>2 DEF Pages
    <3>5. page'.count <= page'.runs
      BY <1>2, <2>1, <3>2, <3>3, <3>4
    <3> QED
      BY <3>4, <3>5 DEF PageInvariant
  <2> QED
    BY <2>2, <2>3, <2>4
<1>5. ASSUME SendPage PROVE PageInvariant'
  <2>1. page' = NoPage
    BY <1>5 DEF SendPage
  <2>2. NoPage \in Pages /\ NoPage.at = 0 /\ NoPage.count = 0 /\ \A i \in DOMAIN Bounds : NoPage.cum[i] = 0
    BY DEF NoPage, Pages, Results
  <2>3. \A i \in DOMAIN Bounds : \A j \in 1 .. i : j \in DOMAIN Bounds
    BY MetricsAssumption
  <2> QED
    BY <2>1, <2>2, <2>3 DEF PageInvariant
<1>6. CASE UNCHANGED <<runDuration, page>>
  BY <1>6 DEF PageInvariant
<1> QED
  BY <1>1, <1>3, <1>4, <1>5, <1>6

LEMMA CountsInitially == ObserversInit => CountsInvariant /\ PageInvariant
<1> SUFFICES ASSUME ObserversInit PROVE CountsInvariant /\ PageInvariant
  OBVIOUS
<1>1. /\ runsTotal = [x \in Results |-> 0] /\ runDuration = [x \in Results |-> NoChild]
      /\ page = NoPage /\ observing = [r \in RunIDs |-> Idle]
  BY DEF ObserversInit, MetricsInit
<1>2. Idle.at = "idle" /\ NoChild.count = 0
  BY DEF Idle, NoChild
<1>3. \A x \in Results : Pending(x) = {}
  BY <1>1, <1>2 DEF Pending
<1>4. IsFiniteSet({}) /\ Cardinality({}) = 0
  BY FS_EmptySet
<1>5. CountsInvariant
  BY <1>1, <1>2, <1>3, <1>4 DEF CountsInvariant
<1>6. NoPage \in Pages /\ NoPage.at = 0 /\ NoPage.count = 0 /\ \A i \in DOMAIN Bounds : NoPage.cum[i] = 0
  BY DEF NoPage, Pages, Results
<1>7. \A i \in DOMAIN Bounds : \A j \in 1 .. i : j \in DOMAIN Bounds
  BY MetricsAssumption
<1> QED
  BY <1>1, <1>5, <1>6, <1>7 DEF PageInvariant

\* For any number of runs, bounds and timestamps: the buckets of the histogram
\* are the durations that were observed, and a page put together while events
\* are counted has ascending buckets below its count and times no more runs
\* than it says ended.
THEOREM MetricsAreTruthful == ObserversSpec => []MetricsTruthful
<1> DEFINE I == TrackerInvariant /\ JobsInvariant /\ DurationsInvariant /\ CountsInvariant /\ PageInvariant
<1>1. ObserversInit => I
  BY TrackerInitially, JobsInitially, DurationsInitially, CountsInitially
<1>2. I /\ [ObserversNext]_ovars => I'
  BY TrackerInductive, JobsInductive, DurationsInductive, CountsInductive, PageInductive
<1>3. I => MetricsTruthful
  <2>1. Len(FamilyOrder) = 2
    BY DEF FamilyOrder
  <2> QED
    BY <2>1 DEF DurationsInvariant, PageInvariant, MetricsTruthful, ScrapeConsistent
<1> HIDE DEF I
<1> QED
  BY <1>1, <1>2, <1>3, PTL DEF ObserversSpec
=============================================================================
