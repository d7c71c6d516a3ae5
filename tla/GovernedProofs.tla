--------------------------- MODULE GovernedProofs ---------------------------
(***************************************************************************)
(* The rate limiter, for every rate, burst, ttl and set of client keys,    *)
(* and the governed server around it, whatever its configuration, its      *)
(* clients and its runs: it keeps the promises of its limiter, since every *)
(* step is one of the limiter's or leaves it alone; its policy engine      *)
(* answers the strongest verdict of all its policies; and an inductive     *)
(* invariant, GInvariant, gives who may do what, which attempts are made   *)
(* and what the audit log tells.                                           *)
(***************************************************************************)
EXTENDS GovernedServer, TLAPS, WellFoundedInduction

-----------------------------------------------------------------------------
(* The rate limiter by itself: arithmetic *)

\* What flows into a bucket grows with the time it is given.
LEMMA InflowGrows ==
    ASSUME NEW a \in Int, NEW b \in Int, NEW c \in Nat, a <= b
    PROVE  a * c <= b * c
<1>1. b * c = a * c + (b - a) * c
  BY SMT
<1>2. (b - a) * c >= 0
  BY SMT
<1> QED
  BY <1>1, <1>2, SMT

\* One more tick brings Rate more grains.
LEMMA InflowOfATick ==
    ASSUME NEW a \in Int, NEW c \in Nat
    PROVE  (a + 1) * c = a * c + c
BY SMT

\* Rounding a quotient up loses nothing.
LEMMA RoundedUpSuffices ==
    ASSUME NEW a \in Nat, NEW b \in Nat \ {0}
    PROVE  CeilDiv(a, b) \in Nat /\ CeilDiv(a, b) * b >= a
<1> DEFINE n == a + b - 1
<1>1. n \in Nat
  BY SMT
<1>2. n \div b \in Nat /\ n < (n \div b) * b + b
  BY <1>1, Z3
<1> QED
  BY <1>2 DEF CeilDiv

-----------------------------------------------------------------------------
(* The inductive invariant *)

\* A bucket was last touched in the past, and the measurement began there.
ClockLeads == since <= clock /\ \A k \in Keys : last[k] <= clock

\* A promised moment lies where the bucket, left alone, holds a token.
PromiseKept ==
    \A k \in Keys : promise[k] >= 0 =>
        /\ Rate > 0
        /\ k \in buckets => tokens[k] + (promise[k] - last[k]) * Rate >= Token

LimiterInvariant == LimiterTypeOK /\ ClockLeads /\ RateBound /\ PromiseKept

LEMMA CapHoldsAToken == Cap \in Nat /\ Cap >= Token
<1>1. CASE Burst < 1
  BY <1>1, LimiterAssumption DEF Cap
<1>2. CASE Burst >= 1
  <2>1. 1 * Token <= Burst * Token
    BY <1>2, LimiterAssumption, InflowGrows
  <2> QED
    BY <1>2, <2>1, LimiterAssumption, SMT DEF Cap
<1> QED
  BY <1>1, <1>2, LimiterAssumption

LEMMA RefilledType ==
    ASSUME LimiterTypeOK, ClockLeads, NEW k \in Keys
    PROVE  /\ Refilled(k) \in 0..Cap
           /\ (clock - last[k]) * Rate \in Nat
<1>1. clock - last[k] \in Nat
  BY DEF LimiterTypeOK, ClockLeads
<1>2. (clock - last[k]) * Rate \in Nat
  BY <1>1, LimiterAssumption, SMT
<1> QED
  BY <1>2, CapHoldsAToken DEF Refilled, Least, LimiterTypeOK

LEMMA FoundType ==
    ASSUME LimiterTypeOK, ClockLeads, NEW k \in Keys
    PROVE  Found(k) \in 0..Cap /\ Level(k) \in 0..Cap
BY RefilledType, CapHoldsAToken DEF Found, Level

\* A bucket that is swept would have been full: the sweep gives nothing away.
LEMMA SweepIsFair ==
    ASSUME LimiterTypeOK, ClockLeads, RefillsWithinTTL, NEW k \in Keys
    PROVE  Found(k) = Level(k)
<1>1. CASE k \in Swept
  BY <1>1 DEF Swept, Found, Level
<1>2. CASE k \notin buckets
  BY <1>2 DEF Swept, Found, Level
<1>3. CASE k \in buckets /\ k \notin Swept
  <2>1. TTL > 0 /\ TTL <= clock - last[k]
    BY <1>3, LimiterAssumption DEF Swept, SweepDue, LimiterTypeOK
  <2>2. TTL * Rate <= (clock - last[k]) * Rate
    BY <2>1, LimiterAssumption, InflowGrows DEF LimiterTypeOK
  <2>3. TTL * Rate >= Cap
    BY <2>1, LimiterAssumption DEF RefillsWithinTTL
  <2>4. TTL * Rate \in Int
    BY LimiterAssumption, SMT
  <2>5. tokens[k] + (clock - last[k]) * Rate >= Cap
    BY <2>2, <2>3, <2>4, RefilledType, CapHoldsAToken DEF LimiterTypeOK
  <2>6. Refilled(k) = Cap
    BY <2>5, RefilledType, CapHoldsAToken DEF Refilled, Least, LimiterTypeOK
  <2> QED
    BY <1>3, <2>6 DEF Found, Level
<1> QED
  BY <1>1, <1>2, <1>3

LEMMA LimiterInitially == LimiterInit => LimiterInvariant
<1> SUFFICES ASSUME LimiterInit PROVE LimiterInvariant
  OBVIOUS
<1>1. LimiterTypeOK
  BY LimiterAssumption, CapHoldsAToken DEF LimiterInit, LimiterTypeOK
<1>2. ClockLeads
  BY DEF LimiterInit, ClockLeads
<1>5. PromiseKept
  <2>1. ~(-1 >= 0)
    OBVIOUS
  <2> QED
    BY <2>1 DEF LimiterInit, PromiseKept
<1>3. Rate * (clock - since) = 0
  BY LimiterAssumption DEF LimiterInit
<1>4. RateBound
  <2>1. \A k \in Keys : spent[k] = 0 /\ Level(k) = Cap
    BY DEF LimiterInit, Level
  <2>2. 0 + Cap <= Cap + 0
    BY CapHoldsAToken
  <2> QED
    BY <1>3, <2>1, <2>2 DEF RateBound
<1> QED
  BY <1>1, <1>2, <1>4, <1>5 DEF LimiterInvariant

-----------------------------------------------------------------------------
(* Every step preserves it *)

\* A step of Allow for a key leaves the buckets of the others as they are, or
\* sweeps them.
LEMMA OthersLevel ==
    ASSUME LimiterInvariant, RefillsWithinTTL, NEW k \in Keys, NEW j \in Keys, j # k,
           NEW n \in 0..Cap,
           tokens' = [tokens EXCEPT ![k] = n], last' = [last EXCEPT ![k] = clock],
           buckets' = Swept \cup {k}, clock' = clock
    PROVE  Level(j)' = Level(j)
<1>1. tokens'[j] = tokens[j] /\ last'[j] = last[j]
  BY DEF LimiterInvariant, LimiterTypeOK
<1>2. Level(j)' = Found(j)
  BY <1>1 DEF Level, Found, Refilled
<1> QED
  BY <1>2, SweepIsFair DEF LimiterInvariant

LEMMA AdmitsPreserves ==
    ASSUME LimiterInvariant, NEW k \in Keys, Admits(k)
    PROVE  LimiterInvariant'
<1> USE LimiterAssumption DEF LimiterInvariant
<1>1. Found(k) \in 0..Cap
  BY FoundType
<1>2. LimiterTypeOK'
  BY <1>1, CapHoldsAToken DEF Admits, LimiterTypeOK, Swept, bucketVars
<1>3. ClockLeads'
  BY DEF Admits, ClockLeads, LimiterTypeOK, bucketVars
<1>4. RateBound'
  <2> SUFFICES ASSUME Rate > 0, RefillsWithinTTL, NEW j \in Keys
               PROVE  spent'[j] + Level(j)' <= Cap + Rate * (clock - since)
    BY DEF RateBound, RefillsWithinTTL, Admits, Cap
  <2>1. spent[j] + Level(j) <= Cap + Rate * (clock - since)
    BY DEF RateBound
  <2>2. Level(j) \in Nat /\ Rate * (clock - since) \in Int /\ Cap \in Nat
    BY FoundType, CapHoldsAToken, SMT DEF LimiterTypeOK
  <2>3. CASE j # k
    <3>1. Level(j)' = Level(j)
      BY <1>1, <2>3, OthersLevel, CapHoldsAToken DEF Admits
    <3> QED
      BY <2>1, <2>3, <3>1 DEF Admits, LimiterTypeOK
  <2>4. CASE j = k
    <3>1. (clock - clock) * Rate = 0
      BY DEF LimiterTypeOK
    <3>2. Level(k)' = Found(k) - Token
      BY <1>1, <3>1, CapHoldsAToken DEF Admits, Level, Refilled, Least, LimiterTypeOK, Cap
    <3>3. Found(k) = Level(k)
      BY SweepIsFair
    <3> QED
      BY <1>1, <2>1, <2>2, <2>4, <3>2, <3>3 DEF Admits, LimiterTypeOK
  <2> QED
    BY <2>3, <2>4
<1>5. PromiseKept'
  BY DEF PromiseKept, Admits, LimiterTypeOK, Swept, bucketVars
<1> QED
  BY <1>2, <1>3, <1>4, <1>5

LEMMA RefusesPreserves ==
    ASSUME LimiterInvariant, NEW k \in Keys, Refuses(k)
    PROVE  LimiterInvariant'
<1> USE LimiterAssumption DEF LimiterInvariant
<1> DEFINE wait == CeilDiv(Token - Found(k), Rate)
<1>1. Found(k) \in 0..Cap /\ Found(k) < Token /\ Rate \in Nat \ {0}
  BY FoundType DEF Refuses
<1>2. wait \in Nat /\ wait * Rate >= Token - Found(k)
  BY <1>1, RoundedUpSuffices
<1>3. LimiterTypeOK'
  BY <1>1, <1>2, CapHoldsAToken DEF Refuses, RetryAfter, LimiterTypeOK, Swept
<1>4. ClockLeads'
  BY DEF Refuses, ClockLeads, LimiterTypeOK
<1>5. RateBound'
  <2> SUFFICES ASSUME RefillsWithinTTL, NEW j \in Keys
               PROVE  spent[j] + Level(j)' <= Cap + Rate * (clock - since)
    BY <1>1 DEF RateBound, RefillsWithinTTL, Refuses, Cap
  <2>1. spent[j] + Level(j) <= Cap + Rate * (clock - since)
    BY <1>1 DEF RateBound
  <2>2. CASE j # k
    BY <1>1, <2>1, <2>2, OthersLevel DEF Refuses
  <2>3. CASE j = k
    <3>1. (clock - clock) * Rate = 0
      BY DEF LimiterTypeOK
    <3>2. Level(k)' = Found(k)
      BY <1>1, <3>1, CapHoldsAToken DEF Refuses, Level, Refilled, Least, LimiterTypeOK, Cap
    <3> QED
      BY <2>1, <2>3, <3>2, SweepIsFair
  <2> QED
    BY <2>2, <2>3
<1>6. PromiseKept'
  <2> SUFFICES ASSUME NEW j \in Keys, promise'[j] >= 0, j \in buckets'
               PROVE  tokens'[j] + (promise'[j] - last'[j]) * Rate >= Token
    BY <1>1 DEF PromiseKept
  <2>1. CASE j # k
    BY <2>1 DEF PromiseKept, Refuses, LimiterTypeOK, Swept
  <2>2. CASE j = k
    <3>1. promise'[k] - last'[k] = wait /\ tokens'[k] = Found(k)
      BY <1>1, <1>2 DEF Refuses, RetryAfter, LimiterTypeOK
    <3>2. wait * Rate \in Int
      BY <1>1, <1>2, SMT
    <3> QED
      BY <1>1, <1>2, <2>2, <3>1, <3>2
  <2> QED
    BY <2>1, <2>2
<1> QED
  BY <1>3, <1>4, <1>5, <1>6

LEMMA TickPreserves ==
    ASSUME LimiterInvariant, Tick
    PROVE  LimiterInvariant'
<1> USE LimiterAssumption DEF LimiterInvariant, Tick, bucketVars, measureVars
<1>1. LimiterTypeOK' /\ ClockLeads' /\ PromiseKept'
  BY DEF LimiterTypeOK, ClockLeads, PromiseKept, Cap
<1>2. RateBound'
  <2> SUFFICES ASSUME Rate > 0, RefillsWithinTTL, NEW k \in Keys
               PROVE  spent'[k] + Level(k)' <= Cap + Rate * (clock' - since')
    BY DEF RateBound, RefillsWithinTTL, Cap
  <2>0. clock' = clock + 1 /\ since' = since /\ spent' = spent
    OBVIOUS
  <2>1. spent[k] + Level(k) <= Cap + Rate * (clock - since)
    BY DEF RateBound
  <2>2. Rate * (clock + 1 - since) = Rate * (clock - since) + Rate
    BY InflowOfATick, SMT DEF LimiterTypeOK
  <2>3. (clock + 1 - last[k]) * Rate = (clock - last[k]) * Rate + Rate
    BY InflowOfATick, SMT DEF LimiterTypeOK
  <2>4. Level(k)' <= Level(k) + Rate
    BY <2>3, CapHoldsAToken, RefilledType DEF Level, Refilled, Least, LimiterTypeOK, Cap
  <2>5. Level(k) \in Nat /\ Level(k)' \in Int /\ Rate * (clock - since) \in Int /\ Cap \in Nat
    BY <2>3, FoundType, RefilledType, CapHoldsAToken
       DEF LimiterTypeOK, Level, Refilled, Least, Cap
  <2> QED
    BY <2>0, <2>1, <2>2, <2>4, <2>5 DEF LimiterTypeOK
<1> QED
  BY <1>1, <1>2

LEMMA MeasurePreserves ==
    ASSUME LimiterInvariant, Measure
    PROVE  LimiterInvariant'
<1> USE LimiterAssumption DEF LimiterInvariant, Measure, bucketVars
<1>1. LimiterTypeOK' /\ ClockLeads' /\ PromiseKept'
  BY DEF LimiterTypeOK, ClockLeads, PromiseKept
<1>2. RateBound'
  <2>1. Rate * (clock - clock) = 0
    BY DEF LimiterTypeOK
  <2>2. \A k \in Keys : Level(k)' = Level(k)
    BY DEF Level, Refilled
  <2> QED
    BY <2>1, <2>2, FoundType, CapHoldsAToken DEF RateBound, RefillsWithinTTL, Cap
<1> QED
  BY <1>1, <1>2

LEMMA LimiterStep ==
    ASSUME LimiterInvariant, [LimiterNext]_lvars
    PROVE  LimiterInvariant'
<1>1. CASE UNCHANGED lvars
  BY <1>1 DEF LimiterInvariant, LimiterTypeOK, ClockLeads, RateBound, PromiseKept, Level,
     Refilled, lvars, bucketVars, measureVars
<1> QED
  BY <1>1, AdmitsPreserves, RefusesPreserves, TickPreserves, MeasurePreserves DEF LimiterNext

-----------------------------------------------------------------------------
(* The theorems *)

\* Every step of the limiter preserves its inductive invariant.
THEOREM LimiterInvariantHolds == LimiterSpec => []LimiterInvariant
BY LimiterInitially, LimiterStep, PTL DEF LimiterSpec

\* In every window of time a key is admitted at most a full bucket and what
\* flows into one meanwhile, whatever the sweeps did: for every rate, burst and
\* ttl in which a bucket refills.
THEOREM AdmissionIsBounded == LimiterSpec => []RateBound
<1>1. LimiterInvariant => RateBound
  BY DEF LimiterInvariant
<1> QED
  BY <1>1, LimiterInvariantHolds, PTL

LEMMA PromiseSuffices == LimiterInvariant => RetryAfterSuffices
<1> SUFFICES ASSUME LimiterInvariant, NEW k \in Keys, promise[k] >= 0, clock >= promise[k]
             PROVE  Level(k) >= Token
  BY DEF RetryAfterSuffices
<1> USE LimiterAssumption DEF LimiterInvariant
<1>1. CASE k \notin buckets
  BY <1>1, CapHoldsAToken DEF Level
<1>2. CASE k \in buckets
  <2>1. (promise[k] - last[k]) * Rate <= (clock - last[k]) * Rate
    BY InflowGrows DEF LimiterTypeOK
  <2>2. tokens[k] + (promise[k] - last[k]) * Rate >= Token
    BY <1>2 DEF PromiseKept
  <2>3. (promise[k] - last[k]) * Rate \in Int
    BY SMT DEF LimiterTypeOK
  <2> QED
    BY <1>2, <2>1, <2>2, <2>3, RefilledType, CapHoldsAToken
       DEF Level, Refilled, Least, LimiterTypeOK
<1> QED
  BY <1>1, <1>2

\* A client that waits as long as the refusal told it finds a token, for every
\* rate, and whether or not its bucket was swept meanwhile.
THEOREM RetryAfterIsEnough == LimiterSpec => []RetryAfterSuffices
BY LimiterInvariantHolds, PromiseSuffices, PTL

-----------------------------------------------------------------------------
(* The limiter inside the server *)

\* A request is counted against one of the keys, or not at all.
LEMMA RequestStep ==
    ASSUME opt \in Options, NEW req \in opt.requests, Request(req)
    PROVE  [LimiterNext]_lvars
<1>1. req.addr \in Keys
  BY GovernedAssumption
<1>2. CASE UNCHANGED lvars
  BY <1>2
<1>3. CASE Admits(req.addr) \/ Refuses(req.addr)
  BY <1>1, <1>3 DEF LimiterNext
<1> QED
  BY <1>2, <1>3 DEF Request, lvars

\* The server implements the limiter: no handler, run or configuration touches a
\* bucket but through Allow.
THEOREM ServerImplementsLimiter == GSpec => LimiterSpec
<1>1. GInit => LimiterInit /\ opt \in Options
  BY DEF GInit
<1>2. ASSUME opt \in Options, [GNext]_gvars
      PROVE  [LimiterNext]_lvars /\ (opt \in Options)'
  <2>1. CASE \E req \in opt.requests : Request(req)
    BY <1>2, <2>1, RequestStep DEF Request
  <2>2. CASE \E r \in RunIDs : RunStep(r)
    BY <1>2, <2>2 DEF RunStep
  <2>3. CASE TimePasses
    BY <1>2, <2>3 DEF TimePasses, LimiterNext
  <2>4. CASE UNCHANGED gvars
    BY <1>2, <2>4 DEF gvars
  <2> QED
    BY <1>2, <2>1, <2>2, <2>3, <2>4 DEF GNext
<1> QED
  BY <1>1, <1>2, PTL DEF GSpec, LimiterSpec

\* In every window of time a client address is admitted at most a full bucket
\* and what flows into one meanwhile, on every server.
THEOREM ServerAdmissionIsBounded == GSpec => []RateBound
BY ServerImplementsLimiter, AdmissionIsBounded, PTL

\* A client that waits for the Retry-After of its 429 finds a token.
THEOREM ServerRetryAfterIsEnough == GSpec => []RetryAfterSuffices
BY ServerImplementsLimiter, RetryAfterIsEnough, PTL

-----------------------------------------------------------------------------
(* The policy engine *)

\* A nonempty set of naturals has a least member: what induction needs.
LEMMA LeastMember ==
    ASSUME NEW T, T \subseteq Nat, T # {}
    PROVE  \E n \in T : \A m \in T : n <= m
<1> DEFINE R == OpToRel(<, Nat)
<1>1. IsWellFoundedOn(R, Nat)
  BY NatLessThanWellFounded
<1>2. \A x, y \in Nat : <<y, x>> \in R <=> y < x
  BY DEF OpToRel
<1> HIDE DEF R
<1>3. PICK n \in T : \A y \in T : ~(<<y, n>> \in R)
  BY <1>1, WFMin
<1>4. ASSUME NEW m \in T PROVE n <= m
  <2>1. ~(m < n) /\ m \in Nat /\ n \in Nat
    BY <1>2, <1>3
  <2> QED
    BY <2>1
<1> QED
  BY <1>4

\* asked is the decision after each policy.
IsAsked(f, n, policies, a) ==
    f = [i \in 0..n |-> IF i = 0 THEN [result |-> "allow", said |-> <<>>]
                                ELSE Ask(f[i - 1], policies[i], a)]

LEMMA AskedExists ==
    ASSUME NEW policies, NEW a, NEW n \in Nat
    PROVE  \E f : IsAsked(f, n, policies, a)
<1> DEFINE T == {k \in Nat : ~\E f : IsAsked(f, k, policies, a)}
<1>1. SUFFICES ASSUME T # {} PROVE FALSE
  OBVIOUS
<1>2. PICK k \in T : \A m \in T : k <= m
  BY <1>1, LeastMember
<1>3. CASE k = 0
  <2> DEFINE f == [i \in 0..0 |-> [result |-> "allow", said |-> <<>>]]
  <2>1. IsAsked(f, 0, policies, a)
    BY DEF IsAsked
  <2> QED
    BY <1>2, <1>3, <2>1
<1>4. CASE k # 0
  <2>1. k - 1 \in Nat /\ k - 1 \notin T
    BY <1>2, <1>4
  <2>2. PICK f : IsAsked(f, k - 1, policies, a)
    BY <2>1
  <2> DEFINE g == [i \in 0..k |-> IF i = k THEN Ask(f[k - 1], policies[k], a) ELSE f[i]]
  <2>3. \A i \in 0..k : g[i] = IF i = 0 THEN [result |-> "allow", said |-> <<>>]
                                     ELSE Ask(g[i - 1], policies[i], a)
    <3> SUFFICES ASSUME NEW i \in 0..k
                 PROVE  g[i] = IF i = 0 THEN [result |-> "allow", said |-> <<>>]
                                        ELSE Ask(g[i - 1], policies[i], a)
      OBVIOUS
    <3>1. CASE i = k
      BY <1>4, <2>1, <3>1
    <3>2. CASE i # k
      <4>1. i \in 0..(k - 1) /\ (i # 0 => i - 1 \in 0..(k - 1) /\ i - 1 # k) /\ i - 1 \in Int
        BY <2>1, <3>2
      <4>2. g[i] = f[i] /\ (i # 0 => g[i - 1] = f[i - 1])
        BY <3>2, <4>1
      <4>3. f[i] = IF i = 0 THEN [result |-> "allow", said |-> <<>>]
                            ELSE Ask(f[i - 1], policies[i], a)
        BY <2>2, <4>1 DEF IsAsked
      <4> QED
        BY <4>2, <4>3
    <3> QED
      BY <3>1, <3>2
  <2>4. IsAsked(g, k, policies, a)
    BY <2>3 DEF IsAsked
  <2> QED
    BY <1>2, <2>4
<1> QED
  BY <1>3, <1>4

LEMMA EvaluateAsks ==
    ASSUME NEW S, NEW policies \in Seq(S), NEW a
    PROVE  \E f : IsAsked(f, Len(policies), policies, a) /\ Evaluate(policies, a) = f[Len(policies)]
<1>1. \E f : f = [i \in 0..Len(policies) |-> IF i = 0 THEN [result |-> "allow", said |-> <<>>]
                                ELSE Ask(f[i - 1], policies[i], a)]
  <2>1. Len(policies) \in Nat
    OBVIOUS
  <2>2. \E f : IsAsked(f, Len(policies), policies, a)
    BY <2>1, AskedExists
  <2> QED
    BY <2>2 DEF IsAsked
<1> QED
  BY <1>1 DEF IsAsked, Evaluate

\* Induction up to a bound.
LEMMA CountUp ==
    ASSUME NEW n \in Nat, NEW P, 0 \in P, \A k \in 0..(n - 1) : k \in P => k + 1 \in P
    PROVE  0..n \subseteq P
<1> DEFINE T == {k \in 0..n : k \notin P}
<1>1. SUFFICES ASSUME T # {} PROVE FALSE
  OBVIOUS
<1>2. PICK k \in T : \A m \in T : k <= m
  <2>1. T \subseteq Nat
    OBVIOUS
  <2> HIDE DEF T
  <2> QED
    BY <1>1, <2>1, LeastMember
<1>3. k \in 0..n /\ k # 0 /\ k \notin P
  BY <1>2
<1>4. k - 1 \in 0..(n - 1) /\ k - 1 \in 0..n /\ ~(k <= k - 1) /\ k - 1 + 1 = k
  BY <1>3
<1>5. k - 1 \notin T
  BY <1>2, <1>4
<1>6. k - 1 \in P
  BY <1>4, <1>5
<1> QED
  BY <1>3, <1>4, <1>6

Breakdown(policies) ==
    [policy : {policies[i].name : i \in DOMAIN policies}, result : Results]

\* The first k policies deny or fail, or one of them asks for a review.
Deny(policies, a, k)   == \E i \in 1..k : Verdict(policies[i], a) \in {"deny", "error"}
Review(policies, a, k) == \E i \in 1..k : Verdict(policies[i], a) = "review"

\* A decision is the strongest verdict of the first k policies, with those behind it.
Told(d, policies, a, k) ==
    /\ d.result = IF Deny(policies, a, k) THEN "deny"
                  ELSE IF Review(policies, a, k) THEN "review" ELSE "allow"
    /\ d.said \in Seq(Breakdown(policies))
    /\ \A j \in DOMAIN d.said : d.result \in AtLeast(d.said[j].result)

Answers == {"allow", "noted", "deny", "review", "error"}

\* A stronger result stands over whatever a weaker one stands over.
LEMMA StrongerStands ==
    ASSUME NEW old \in Results \ {"deny"}, NEW x \in Results, NEW w \in Results,
           old \in AtLeast(w)
    PROVE  (IF x = "allow" THEN old ELSE x) \in AtLeast(w)
BY DEF Results, AtLeast

LEMMA AskTells ==
    ASSUME NEW policies, NEW a, NEW k \in Nat, k + 1 \in DOMAIN policies, NEW d,
           Verdict(policies[k + 1], a) \in Answers, Told(d, policies, a, k)
    PROVE  Told(Ask(d, policies[k + 1], a), policies, a, k + 1)
<1> DEFINE p == policies[k + 1]
<1> DEFINE v == Verdict(p, a)
<1> DEFINE x == ResultOf(v)
<1> DEFINE e == [policy |-> p.name, result |-> x]
<1>1. 1..(k + 1) = 1..k \cup {k + 1}
  OBVIOUS
<1>2. /\ Deny(policies, a, k + 1) <=> Deny(policies, a, k) \/ x = "deny"
      /\ Review(policies, a, k + 1) <=> Review(policies, a, k) \/ x = "review"
      /\ x \in Results
  BY <1>1 DEF Deny, Review, Answers, ResultOf, Results
<1>3. CASE d.result = "deny"
  <2>1. Ask(d, p, a) = d
    BY <1>3 DEF Ask
  <2>2. Deny(policies, a, k)
    BY <1>3 DEF Told
  <2> QED
    BY <1>2, <2>1, <2>2 DEF Told
<1>4. CASE d.result # "deny"
  <2> DEFINE y == IF x = "allow" THEN d.result ELSE x
  <2> DEFINE said == IF v = "allow" THEN d.said ELSE Append(d.said, e)
  <2>1. Ask(d, p, a) = [result |-> y, said |-> said]
    BY <1>4 DEF Ask
  <2>2. ~Deny(policies, a, k) /\ d.result \in Results \ {"deny"}
    BY <1>4 DEF Told, Results
  <2>3. e \in Breakdown(policies)
    BY <1>2 DEF Breakdown
  <2> HIDE DEF e, v, x
  <2>4. said \in Seq(Breakdown(policies))
    BY <2>3 DEF Told
  <2>5. ASSUME NEW j \in DOMAIN said
        PROVE  y \in AtLeast(said[j].result)
    <3>1. CASE j \in DOMAIN d.said
      <4>1. d.said[j] \in Breakdown(policies) /\ d.result \in AtLeast(d.said[j].result)
        BY <3>1 DEF Told
      <4>2. d.said[j].result \in Results
        BY <4>1 DEF Breakdown
      <4>3. said[j] = d.said[j]
        BY <3>1, <2>3 DEF Told
      <4> QED
        BY <1>2, <2>2, <4>1, <4>2, <4>3, StrongerStands
    <3>2. CASE j \notin DOMAIN d.said
      <4>1. said[j] = e
        BY <2>3, <3>2 DEF Told
      <4>2. e.result = x
        BY DEF e
      <4> QED
        BY <1>2, <2>2, <4>1, <4>2 DEF AtLeast, Results
    <3> QED
      BY <3>1, <3>2
  <2>6. y = IF Deny(policies, a, k + 1) THEN "deny"
            ELSE IF Review(policies, a, k + 1) THEN "review" ELSE "allow"
    BY <1>2, <2>2 DEF Told, Results
  <2> QED
    BY <2>1, <2>4, <2>5, <2>6 DEF Told
<1> QED
  BY <1>3, <1>4

\* Engine.Evaluate answers the strongest verdict of all the policies, those that it
\* no longer asks included, and its breakdown explains it.
LEMMA EvaluateTells ==
    ASSUME NEW S, NEW policies \in Seq(S), NEW a,
           \A i \in DOMAIN policies : Verdict(policies[i], a) \in Answers
    PROVE  Told(Evaluate(policies, a), policies, a, Len(policies))
<1> DEFINE n == Len(policies)
<1>0. n \in Nat /\ DOMAIN policies = 1..n
  OBVIOUS
<1>1. PICK f : IsAsked(f, n, policies, a) /\ Evaluate(policies, a) = f[n]
  BY EvaluateAsks
<1> DEFINE P == {k \in 0..n : Told(f[k], policies, a, k)}
<1>2. 0 \in P
  <2>1. f[0] = [result |-> "allow", said |-> <<>>]
    BY <1>0, <1>1 DEF IsAsked
  <2>2. ~Deny(policies, a, 0) /\ ~Review(policies, a, 0)
    BY DEF Deny, Review
  <2>3. Told(f[0], policies, a, 0)
    BY <2>1, <2>2 DEF Told
  <2> QED
    BY <1>0, <2>3
<1>3. ASSUME NEW k \in 0..(n - 1), k \in P PROVE k + 1 \in P
  <2>1. k \in Nat /\ k + 1 \in 1..n /\ k + 1 \in 0..n /\ k + 1 # 0 /\ k + 1 - 1 = k
    BY <1>0, <1>3
  <2>2. f[k + 1] = Ask(f[k], policies[k + 1], a)
    BY <1>1, <2>1 DEF IsAsked
  <2>3. Told(f[k + 1], policies, a, k + 1)
    BY <1>0, <1>3, <2>1, <2>2, AskTells
  <2> QED
    BY <2>1, <2>3
<1> HIDE DEF P
<1>4. 0..n \subseteq P
  BY <1>0, <1>2, <1>3, CountUp
<1>5. n \in P
  BY <1>0, <1>4
<1> QED
  BY <1>1, <1>5 DEF P

\* The aggregate of the engine, for every list of policies: the strongest verdict
\* of them all, an error counted as a denial.
THEOREM EvaluateIsStrongest ==
    ASSUME NEW S, NEW policies \in Seq(S), NEW a,
           \A i \in DOMAIN policies : Verdict(policies[i], a) \in Answers
    PROVE  Evaluate(policies, a).result = Strongest(policies, a)
<1>1. DOMAIN policies = 1..Len(policies)
  OBVIOUS
<1> QED
  BY <1>1, EvaluateTells DEF Told, Deny, Review, Strongest

-----------------------------------------------------------------------------
(* The inductive invariant of the governed runs *)

Tokens     == {""} \cup {req.token : req \in opt.requests}
Names      == {""} \cup {ApproverOf(opt.srv, req) : req \in opt.requests}
Principals == {Nobody} \cup {Authenticated(opt.srv, req) : req \in opt.requests}

AuditRows == [run : RunIDs, action : {"execute", "refine"},
              policy : {""} \cup {opt.policies[i].name : i \in DOMAIN opt.policies},
              result : Results \cup {"approved"}]

Launches == [phase : Phases, principal : Principals, tools : SUBSET opt.tools,
             gate : {"execute", "refine"}, result : Results, rows : Seq(AuditRows),
             attempts : Nat, token : Tokens,
             approval : [made : BOOLEAN, token : Tokens, name : Names], used : Nat \X Nat]

GTypeOK ==
    /\ opt \in Options
    /\ runs \in [RunIDs -> Launches]
    /\ auditLog \in [RunIDs -> Seq(AuditRows)]

\* Who created and who approved a run was allowed to; its principal and its tools
\* are those the file gives to its creator.
Within(run) ==
    /\ run.phase # "free" =>
          /\ MayDo(opt.srv, run.token, "run:create")
          /\ opt.srv.auth = "keyring" => run.principal = Lookup(opt.srv.config, run.token)
    /\ run.phase \in {"free", "staged"} => run.tools = {}
    /\ opt.srv.auth = "keyring" =>
          \A t \in run.tools : FileGrants(opt.srv.config, run.token, "tools", t)
    /\ run.approval.made =>
          /\ MayDo(opt.srv, run.approval.token, "approve")
          /\ opt.srv.auth = "keyring" =>
                \A i \in DOMAIN opt.srv.config.keys :
                   opt.srv.config.keys[i].token = run.approval.token =>
                      opt.srv.config.keys[i].id = run.approval.name

\* The decision a run waits on is that of the attempt it is about to make.
Allowed(run) ==
    /\ run.attempts <= opt.max
    /\ \A n \in 1..run.attempts : Says(n) # "deny"
    /\ run.phase \in {"free", "staged", "waiting", "approved", "ready"} => run.attempts = 0
    /\ run.phase = "running" => run.attempts > 0
    /\ run.phase = "logging" => /\ run.attempts < opt.max
                                /\ run.result = Says(run.attempts + 1)
                                /\ run.gate = "execute" <=> run.attempts = 0
    /\ run.phase \in {"waiting", "approved", "ready"} => Says(1) # "deny"
    /\ run.phase = "approved" => run.approval.made
    /\ (run.phase = "ready" \/ run.attempts > 0) /\ Says(1) = "review" => run.approval.made

\* A policy's row stands under the aggregate it belongs to.
Explained(log) ==
    \A i \in DOMAIN log : log[i].policy # "" =>
        \E j \in 1..(i - 1) :
           /\ log[j].policy = "" /\ log[j].action = log[i].action
           /\ \A k \in (j + 1)..i : log[k].policy # ""
           /\ log[j].result \in AtLeast(log[i].result)

\* The row i is a denial, and the last aggregate.
DeniedAt(log, i) == log[i].policy = "" /\ log[i].result = "deny"
DenialIsLast(log) ==
    \A i \in DOMAIN log : DeniedAt(log, i) => \A k \in (i + 1)..Len(log) : log[k].policy # ""

\* The aggregate of the decision being logged is in the log, with only policies'
\* rows behind it.
Headed(run, log) ==
    \E j \in DOMAIN log :
       /\ log[j].policy = "" /\ log[j].action = run.gate /\ log[j].result = run.result
       /\ \A k \in (j + 1)..Len(log) : log[k].policy # ""

\* The rows still to be written are those of the decision, in order.
Pending(run, log) ==
    /\ \A i \in DOMAIN run.rows :
          /\ run.rows[i].action = run.gate
          /\ run.rows[i].policy = "" => i = 1 /\ run.rows[i].result = run.result
          /\ run.rows[i].policy # "" => run.result \in AtLeast(run.rows[i].result)
    /\ run.rows # <<>> /\ run.rows[1].policy # "" => Headed(run, log)

Audited(run, log) ==
    /\ Explained(log) /\ DenialIsLast(log)
    /\ run.phase = "logging" => Pending(run, log)
    /\ (\E i \in DOMAIN log : DeniedAt(log, i)) =>
          \/ run.phase = "ended"
          \/ /\ run.phase = "logging" /\ run.result = "deny"
             /\ \A i \in DOMAIN run.rows : run.rows[i].policy # ""

\* The guard has a report of each run between its first attempt and its return.
Guarded ==
    /\ DOMAIN reports = {r \in RunIDs : opt.guard /\ runs[r].attempts > 0 /\ runs[r].phase # "ended"}
    /\ \A r \in DOMAIN reports : reports[r] = [attempts |-> runs[r].attempts, tokens |-> 0]

GInvariant ==
    /\ GTypeOK /\ Starts(opt.srv) /\ Guarded
    /\ \A r \in RunIDs : Within(runs[r]) /\ Allowed(runs[r]) /\ Audited(runs[r], auditLog[r])

-----------------------------------------------------------------------------
(* The gates *)

\* The options say the same before and after a step.
LEMMA SameOpt ==
    ASSUME opt' = opt
    PROVE  /\ Launches' = Launches /\ AuditRows' = AuditRows
           /\ \A run : Within(run)' <=> Within(run)
           /\ \A run : Allowed(run)' <=> Allowed(run)
<1>1. Launches' = Launches
  BY DEF Launches, Tokens, Names, Principals, AuditRows
<1>2. AuditRows' = AuditRows
  BY DEF AuditRows
<1>3. \A run : Within(run)' <=> Within(run)
  BY DEF Within
<1>4. \A n : Says(n)' = Says(n)
  BY DEF Says
<1>5. \A run : Allowed(run)' <=> Allowed(run)
  BY <1>4 DEF Allowed
<1> QED
  BY <1>1, <1>2, <1>3, <1>5

\* A step of one run that leaves the invariant of that run intact.
LEMMA OneRun ==
    ASSUME GInvariant, opt' = opt, NEW r \in RunIDs, NEW new \in Launches,
           NEW log \in Seq(AuditRows),
           runs' = [runs EXCEPT ![r] = new], auditLog' = [auditLog EXCEPT ![r] = log],
           Within(new), Allowed(new), Audited(new, log), Guarded'
    PROVE  GInvariant'
<1>1. GTypeOK'
  BY SameOpt DEF GInvariant, GTypeOK
<1>2. \A q \in RunIDs : /\ runs'[q] = IF q = r THEN new ELSE runs[q]
                        /\ auditLog'[q] = IF q = r THEN log ELSE auditLog[q]
  BY DEF GInvariant, GTypeOK
<1>3. ASSUME NEW q \in RunIDs
      PROVE  Within(runs'[q]) /\ Allowed(runs'[q]) /\ Audited(runs'[q], auditLog'[q])
  BY <1>2 DEF GInvariant
<1>4. \A q \in RunIDs : Within(runs[q])' /\ Allowed(runs[q])'
  BY <1>3, SameOpt
<1>5. \A q \in RunIDs : Audited(runs[q], auditLog[q])'
  BY <1>3
<1> QED
  BY <1>1, <1>4, <1>5 DEF GInvariant

LEMMA ConfiguredPolicies ==
    ASSUME opt \in Options
    PROVE  /\ opt.policies \in Seq({opt.policies[i] : i \in DOMAIN opt.policies})
           /\ \A i \in DOMAIN opt.policies : opt.policies[i].name # ""
           /\ \A i \in DOMAIN opt.policies : opt.policies[i].kind = "custom" =>
                 \A type \in {"execute", "refine"} : opt.policies[i].says[type] \in Answers
BY GovernedAssumption DEF Answers

LEMMA PoliciesAnswer ==
    ASSUME opt \in Options, NEW a, a.type \in {"execute", "refine"}, NEW i \in DOMAIN opt.policies
    PROVE  Verdict(opt.policies[i], a) \in Answers
BY ConfiguredPolicies DEF Verdict, Answers

LEMMA HeadThenTail ==
    ASSUME NEW S, NEW h \in S, NEW t \in Seq(S)
    PROVE  /\ <<h>> \o t \in Seq(S)
           /\ DOMAIN (<<h>> \o t) = 1..(Len(t) + 1)
           /\ (<<h>> \o t)[1] = h
           /\ \A i \in 2..(Len(t) + 1) : i - 1 \in DOMAIN t /\ (<<h>> \o t)[i] = t[i - 1]
OBVIOUS

LEMMA MapIsSeq ==
    ASSUME NEW S, NEW s \in Seq(S), NEW T, NEW f, DOMAIN f = DOMAIN s,
           f = [i \in DOMAIN f |-> f[i]], \A i \in DOMAIN s : f[i] \in T
    PROVE  f \in Seq(T) /\ Len(f) = Len(s)
<1>1. DOMAIN s = 1..Len(s) /\ Len(s) \in Nat
  OBVIOUS
<1>2. f \in [1..Len(s) -> T]
  BY <1>1
<1> QED
  BY <1>1, <1>2

\* A gate decides what the policies say of the attempt to come.
LEMMA GateDecides ==
    ASSUME GInvariant, NEW r \in RunIDs, NEW run \in Launches, NEW type \in {"execute", "refine"},
           type = "execute" <=> runs[r].attempts = 0
    PROVE  LET g == Gate(run, r, type)
           IN /\ g \in Launches
              /\ g.phase = "logging" /\ g.gate = type /\ g.result = Says(runs[r].attempts + 1)
              /\ g.principal = run.principal /\ g.tools = run.tools /\ g.attempts = run.attempts
              /\ g.token = run.token /\ g.approval = run.approval
              /\ \A log : Pending(g, log)
<1> DEFINE a == ActionOf(r, type)
<1> DEFINE d == Evaluate(opt.policies, a)
<1> DEFINE g == Gate(run, r, type)
<1>1. a = [type |-> type, attempt |-> runs[r].attempts + 1, tokens |-> 0, diff |-> 0, tool |-> "",
           permitted |-> FALSE]
  <2>1. ReportOf(reports, r).tokens = 0
    <3>1. CASE r \in DOMAIN reports
      <4>1. reports[r] = [attempts |-> runs[r].attempts, tokens |-> 0]
        BY <3>1 DEF GInvariant, Guarded
      <4> QED
        BY <3>1, <4>1 DEF ReportOf
    <3>2. CASE r \notin DOMAIN reports
      BY <3>2 DEF ReportOf, NoReport
    <3> QED
      BY <3>1, <3>2
  <2>2. (IF type = "execute" THEN 1 ELSE runs[r].attempts + 1) = runs[r].attempts + 1
    OBVIOUS
  <2> QED
    BY <2>1, <2>2 DEF ActionOf
<1>2. runs[r].attempts \in Nat
  BY DEF GInvariant, GTypeOK, Launches
<1>3. runs[r].attempts + 1 = 1 <=> type = "execute"
  BY <1>2
<1>4. Says(runs[r].attempts + 1) = Strongest(opt.policies, a)
  BY <1>1, <1>3 DEF Says
<1>5. opt \in Options
  BY DEF GInvariant, GTypeOK
<1>6. \A i \in DOMAIN opt.policies : Verdict(opt.policies[i], a) \in Answers
  <2>1. a.type \in {"execute", "refine"}
    BY DEF ActionOf
  <2> HIDE DEF a
  <2> QED
    BY <1>5, <2>1, PoliciesAnswer
<1>7. d.result = Says(runs[r].attempts + 1)
  BY <1>4, <1>5, <1>6, ConfiguredPolicies, EvaluateIsStrongest
<1>8. Told(d, opt.policies, a, Len(opt.policies))
  BY <1>5, <1>6, ConfiguredPolicies, EvaluateTells
<1>9. d.result \in Results
  BY <1>8 DEF Told, Results
<1> DEFINE head == [run |-> r, action |-> type, policy |-> "", result |-> d.result]
<1> DEFINE tail == [i \in DOMAIN d.said |-> [run |-> r, action |-> type, policy |-> d.said[i].policy,
                                             result |-> d.said[i].result]]
<1>10. /\ d.said \in Seq(Breakdown(opt.policies))
       /\ \A i \in DOMAIN d.said : d.result \in AtLeast(d.said[i].result)
  BY <1>8 DEF Told
<1>11. \A i \in DOMAIN d.said : /\ d.said[i] \in Breakdown(opt.policies)
                                /\ d.said[i].policy # ""
                                /\ tail[i] \in AuditRows
  <2>1. \A i \in DOMAIN d.said : d.said[i] \in Breakdown(opt.policies)
    BY <1>10
  <2> QED
    BY <1>5, <2>1, ConfiguredPolicies DEF Breakdown, AuditRows, Results
<1>12. tail \in Seq(AuditRows) /\ Len(tail) = Len(d.said) /\ DOMAIN tail = DOMAIN d.said
  <2>1. DOMAIN tail = DOMAIN d.said /\ tail = [i \in DOMAIN tail |-> tail[i]]
    <3> HIDE DEF d
    <3> QED
      OBVIOUS
  <2>2. \A i \in DOMAIN d.said : tail[i] \in AuditRows
    BY <1>11
  <2> HIDE DEF d, tail
  <2>3. tail \in Seq(AuditRows) /\ Len(tail) = Len(d.said)
    BY <1>10, <2>1, <2>2, MapIsSeq
  <2> QED
    BY <2>1, <2>3
<1>13. head \in AuditRows
  BY <1>9 DEF AuditRows
<1> DEFINE rows == IF opt.policies = <<>> THEN <<>> ELSE <<head>> \o tail
<1>14. g = [run EXCEPT !.phase = "logging", !.gate = type, !.result = d.result, !.rows = rows]
  BY DEF Gate, Rows
<1>15. rows \in Seq(AuditRows)
  <2> HIDE DEF head, tail
  <2> QED
    BY <1>12, <1>13, HeadThenTail
<1>16. /\ g \in Launches /\ g.phase = "logging" /\ g.gate = type /\ g.result = d.result
       /\ g.rows = rows
       /\ g.principal = run.principal /\ g.tools = run.tools /\ g.attempts = run.attempts
       /\ g.token = run.token /\ g.approval = run.approval
  <2> HIDE DEF rows, d, g
  <2> QED
    BY <1>9, <1>14, <1>15 DEF Launches, Phases
<1>17. ASSUME NEW i \in DOMAIN rows
       PROVE  /\ rows[i].action = type
              /\ rows[i].policy = "" => i = 1 /\ rows[i].result = d.result
              /\ rows[i].policy # "" => d.result \in AtLeast(rows[i].result)
              /\ i = 1 => rows[i].policy = ""
  <2> HIDE DEF head, tail, d
  <2>1. rows = <<head>> \o tail
    BY <1>17
  <2>2. i \in 1..(Len(tail) + 1) /\ Len(tail) \in Nat
    BY <1>12, <1>13, <1>17, <2>1, HeadThenTail
  <2>3. CASE i = 1
    <3>1. rows[i] = head
      BY <1>12, <1>13, <2>1, <2>3, HeadThenTail
    <3>2. head.action = type /\ head.policy = "" /\ head.result = d.result
      BY DEF head
    <3> QED
      BY <2>3, <3>1, <3>2
  <2>4. CASE i # 1
    <3>1. i \in 2..(Len(tail) + 1)
      BY <2>2, <2>4
    <3>2. i - 1 \in DOMAIN d.said /\ rows[i] = tail[i - 1]
      BY <1>12, <1>13, <2>1, <3>1, HeadThenTail
    <3>3. /\ rows[i].action = type /\ rows[i].policy = d.said[i - 1].policy
          /\ rows[i].result = d.said[i - 1].result
      BY <3>2 DEF tail
    <3> QED
      BY <1>10, <1>11, <2>4, <3>2, <3>3
  <2> QED
    BY <2>3, <2>4
<1>18. \A log : Pending(g, log)
  <2> HIDE DEF rows, d, g
  <2>1. rows # <<>> => 1 \in DOMAIN rows
    BY <1>15
  <2> QED
    BY <1>16, <1>17, <2>1 DEF Pending
<1> QED
  BY <1>7, <1>16, <1>18

-----------------------------------------------------------------------------
(* Who may *)

\* Tokens are unique in a configuration that loads.
LEMMA LookupFinds ==
    ASSUME opt \in Options, LoadsConfig(opt.srv.config), NEW i \in DOMAIN opt.srv.config.keys
    PROVE  Lookup(opt.srv.config, opt.srv.config.keys[i].token) = PrincipalOf(opt.srv.config.keys[i])
<1> DEFINE keys == opt.srv.config.keys
<1> DEFINE hits == {j \in DOMAIN keys : keys[j].token = keys[i].token}
<1>1. keys \in Seq({keys[j] : j \in DOMAIN keys})
  BY GovernedAssumption
<1>2. DOMAIN keys \subseteq Nat /\ \A m \in DOMAIN keys : m >= 1
  <2> HIDE DEF keys
  <2> QED
    BY <1>1
<1>3. \A j \in hits : j = i
  <2> SUFFICES ASSUME NEW j \in hits PROVE ~(j < i) /\ ~(i < j)
    BY <1>2
  <2>1. /\ j \in Nat /\ i \in Nat /\ j \in DOMAIN keys /\ keys[j].token = keys[i].token
        /\ \A m \in DOMAIN keys : \A l \in 1..(m - 1) : keys[l].token # keys[m].token
    BY <1>2 DEF LoadsConfig
  <2>2. (j < i => j \in 1..(i - 1)) /\ (i < j => i \in 1..(j - 1))
    BY <1>2, <2>1
  <2> QED
    BY <2>1, <2>2
<1>4. hits = {i}
  BY <1>3
<1>5. (CHOOSE m \in hits : \A j \in hits : j <= m) = i
  <2>1. i \in hits /\ i <= i
    BY <1>2, <1>4
  <2> HIDE DEF hits
  <2> QED
    BY <1>4, <2>1
<1> QED
  BY <1>4, <1>5 DEF Lookup

\* A token that is in no key is nobody's.
LEMMA LookupFails ==
    ASSUME NEW fc, NEW token, \A i \in DOMAIN fc.keys : fc.keys[i].token # token
    PROVE  Lookup(fc, token) = Nobody
BY DEF Lookup

\* What is resolved for a token's principal is granted by the file.
LEMMA ResolvedIsGranted ==
    ASSUME opt \in Options, LoadsConfig(opt.srv.config), NEW token,
           NEW dimension, NEW item,
           Allows(Resolve(opt.srv.config, Lookup(opt.srv.config, token), dimension), item)
    PROVE  FileGrants(opt.srv.config, token, dimension, item)
<1> DEFINE fc == opt.srv.config
<1>1. CASE \A i \in DOMAIN fc.keys : fc.keys[i].token # token
  <2>1. Lookup(fc, token) = Nobody
    BY <1>1, LookupFails
  <2>2. Resolve(fc, Nobody, dimension) = {}
    BY DEF Resolve, Nobody
  <2> QED
    BY <2>1, <2>2 DEF Allows
<1>2. ASSUME NEW i \in DOMAIN fc.keys, fc.keys[i].token = token
      PROVE  FileGrants(fc, token, dimension, item)
  <2>1. Lookup(fc, token) = [kind |-> "key", id |-> fc.keys[i].id, roles |-> fc.keys[i].roles]
    BY <1>2, LookupFinds DEF PrincipalOf
  <2>2. Resolve(fc, Lookup(fc, token), dimension)
          = UNION {fc.roles[r][dimension] : r \in fc.keys[i].roles \cap DOMAIN fc.roles}
    BY <2>1 DEF Resolve
  <2>3. PICK r \in fc.keys[i].roles : {"*", item} \cap fc.roles[r][dimension] # {}
    BY <2>2 DEF Allows
  <2> QED
    BY <1>2, <2>3 DEF FileGrants
<1> QED
  BY <1>1, <1>2

\* The middlewares let through who may.
LEMMA ReachesMay ==
    ASSUME opt \in Options, Starts(opt.srv), NEW req \in opt.requests, Reaches(req),
           req.route \in {"create", "approve"}
    PROVE  MayDo(opt.srv, req.token, CapabilityOf[req.route])
<1>1. CASE opt.srv.auth = "keyring"
  <2>1. Authenticated(opt.srv, req) = Lookup(opt.srv.config, req.token)
    BY <1>1 DEF Authenticated
  <2>2. Allows(Resolve(opt.srv.config, Lookup(opt.srv.config, req.token), "capabilities"),
               CapabilityOf[req.route])
    BY <1>1, <2>1 DEF Reaches, PassesCapability, OpenRoutes
  <2>3. FileGrants(opt.srv.config, req.token, "capabilities", CapabilityOf[req.route])
    BY <1>1, <2>2, ResolvedIsGranted DEF Starts
  <2> QED
    BY <1>1, <2>3 DEF MayDo
<1>2. CASE opt.srv.auth = "token"
  <2>1. Authenticated(opt.srv, req) # Nobody
    BY <1>2 DEF Reaches, PassesAuth
  <2>2. req.token = opt.srv.token
    BY <1>2, <2>1 DEF Authenticated
  <2> QED
    BY <1>2, <2>2 DEF MayDo
<1>3. CASE opt.srv.auth = "none"
  BY <1>3 DEF MayDo, Starts
<1>4. CASE opt.srv.auth \notin {"keyring", "token", "none"}
  BY <1>4 DEF Reaches, PassesAuth, Authenticated
<1> QED
  BY <1>1, <1>2, <1>3, <1>4

-----------------------------------------------------------------------------
(* The guard, and what a step leaves alone *)

LEMMA GuardStays ==
    ASSUME GInvariant, opt' = opt, NEW r \in RunIDs, NEW new \in Launches,
           runs' = [runs EXCEPT ![r] = new], reports' = reports,
           new.attempts = runs[r].attempts, new.phase = "ended" <=> runs[r].phase = "ended"
    PROVE  Guarded'
<1>1. \A q \in RunIDs : /\ runs'[q].attempts = runs[q].attempts
                        /\ runs'[q].phase = "ended" <=> runs[q].phase = "ended"
  BY DEF GInvariant, GTypeOK
<1> QED
  BY <1>1 DEF GInvariant, Guarded

LEMMA GuardForgets ==
    ASSUME GInvariant, opt' = opt, NEW r \in RunIDs, NEW new \in Launches,
           runs' = [runs EXCEPT ![r] = new],
           reports' = IF opt.guard THEN Forget(reports, r) ELSE reports,
           new.attempts = runs[r].attempts, new.phase = "ended"
    PROVE  Guarded'
<1>1. \A q \in RunIDs : /\ runs'[q].attempts = runs[q].attempts
                        /\ runs'[q].phase = "ended" <=> runs[q].phase = "ended" \/ q = r
  BY DEF GInvariant, GTypeOK
<1>2. CASE opt.guard
  <2>1. /\ DOMAIN reports' = DOMAIN reports \ {r}
        /\ \A q \in DOMAIN reports \ {r} : reports'[q] = reports[q]
    BY <1>2 DEF Forget
  <2> QED
    BY <1>1, <1>2, <2>1 DEF GInvariant, Guarded
<1>3. CASE ~opt.guard
  BY <1>1, <1>3 DEF GInvariant, Guarded
<1> QED
  BY <1>2, <1>3

LEMMA GuardRecords ==
    ASSUME GInvariant, opt' = opt, NEW r \in RunIDs, NEW new \in Launches,
           runs' = [runs EXCEPT ![r] = new],
           reports' = IF opt.guard THEN RecordAttempt(reports, r) ELSE reports,
           new.attempts = runs[r].attempts + 1, new.phase = "running", runs[r].phase # "ended"
    PROVE  Guarded'
<1>1. \A q \in RunIDs : runs'[q] = IF q = r THEN new ELSE runs[q]
  BY DEF GInvariant, GTypeOK
<1>2. runs[r].attempts \in Nat /\ new.attempts > 0
  BY DEF GInvariant, GTypeOK, Launches
<1>3. CASE opt.guard
  <2>1. /\ DOMAIN reports' = DOMAIN reports \cup {r}
        /\ \A q \in DOMAIN reports : q # r => reports'[q] = reports[q]
        /\ reports'[r] = [ReportOf(reports, r) EXCEPT !.attempts = @ + 1]
    BY <1>3 DEF RecordAttempt
  <2>2. ReportOf(reports, r) = [attempts |-> runs[r].attempts, tokens |-> 0]
    <3>1. CASE r \in DOMAIN reports
      BY <3>1 DEF ReportOf, GInvariant, Guarded
    <3>2. CASE r \notin DOMAIN reports
      <4>1. ~(runs[r].attempts > 0)
        BY <1>3, <3>2 DEF GInvariant, Guarded
      <4>2. runs[r].attempts = 0
        BY <1>2, <4>1
      <4> QED
        BY <3>2, <4>2 DEF ReportOf, NoReport
    <3> QED
      BY <3>1, <3>2
  <2>3. reports'[r] = [attempts |-> new.attempts, tokens |-> 0]
    BY <2>1, <2>2
  <2>4. \A q \in DOMAIN reports : q # r => reports[q] = [attempts |-> runs[q].attempts, tokens |-> 0]
    BY DEF GInvariant, Guarded
  <2>5. \A q \in DOMAIN reports' : reports'[q] = [attempts |-> runs'[q].attempts, tokens |-> 0]
    <3>1. DOMAIN reports \subseteq RunIDs
      BY DEF GInvariant, Guarded
    <3> QED
      BY <1>1, <2>1, <2>3, <2>4, <3>1
  <2>6. DOMAIN reports' = {q \in RunIDs : opt.guard /\ runs'[q].attempts > 0 /\ runs'[q].phase # "ended"}
    BY <1>1, <1>2, <1>3, <2>1 DEF GInvariant, Guarded
  <2> QED
    BY <2>5, <2>6 DEF Guarded
<1>4. CASE ~opt.guard
  BY <1>1, <1>4 DEF GInvariant, Guarded
<1> QED
  BY <1>3, <1>4

LEMMA WithinStays ==
    ASSUME NEW run, NEW new, Within(run), run.phase # "free", new.phase \notin {"free", "staged"},
           new.token = run.token, new.principal = run.principal, new.tools = run.tools,
           new.approval = run.approval
    PROVE  Within(new)
BY DEF Within

LEMMA AuditStays ==
    ASSUME NEW run, NEW new, NEW log, Audited(run, log), new.phase # "logging",
           \/ new.phase = "ended"
           \/ run.phase \notin {"logging", "ended"}
           \/ run.phase = "logging" /\ run.result # "deny"
    PROVE  Audited(new, log)
BY DEF Audited

-----------------------------------------------------------------------------
(* Every step preserves the invariant *)

\* What the invariant says of one run.
LEMMA OfOneRun ==
    ASSUME GInvariant, NEW r \in RunIDs
    PROVE  /\ runs[r] \in Launches /\ auditLog[r] \in Seq(AuditRows)
           /\ Within(runs[r]) /\ Allowed(runs[r]) /\ Audited(runs[r], auditLog[r])
           /\ opt \in Options /\ Starts(opt.srv) /\ runs[r].attempts \in Nat
           /\ auditLog = [auditLog EXCEPT ![r] = auditLog[r]]
BY DEF GInvariant, GTypeOK, Launches

\* A step that only moves a run on to another phase.
LEMMA PhaseMoves ==
    ASSUME GInvariant, NEW r \in RunIDs, NEW ph \in Phases
    PROVE  LET new == [runs[r] EXCEPT !.phase = ph]
           IN /\ new \in Launches /\ new.phase = ph
              /\ new.token = runs[r].token /\ new.principal = runs[r].principal
              /\ new.tools = runs[r].tools /\ new.approval = runs[r].approval
              /\ new.attempts = runs[r].attempts
BY OfOneRun DEF Launches

LEMMA ReturnStep ==
    ASSUME GInvariant, opt' = opt, NEW r \in RunIDs, Returns(r), UNCHANGED auditLog,
           runs[r].phase \notin {"free", "staged"}
    PROVE  GInvariant'
<1> DEFINE new == [runs[r] EXCEPT !.phase = "ended"]
<1>1. runs' = [runs EXCEPT ![r] = new]
  BY DEF Returns
<1>2. "ended" \in Phases
  BY DEF Phases
<1>3. /\ new \in Launches /\ new.phase = "ended"
      /\ new.token = runs[r].token /\ new.principal = runs[r].principal
      /\ new.tools = runs[r].tools /\ new.approval = runs[r].approval
      /\ new.attempts = runs[r].attempts
  BY <1>2, PhaseMoves
<1> HIDE DEF new
<1>4. Guarded'
  BY <1>1, <1>3, GuardForgets DEF Returns
<1>5. Within(new)
  BY <1>3, OfOneRun, WithinStays
<1>6. Allowed(new)
  BY <1>3, OfOneRun DEF Allowed
<1>7. Audited(new, auditLog[r])
  BY <1>3, OfOneRun, AuditStays
<1>8. auditLog' = [auditLog EXCEPT ![r] = auditLog[r]] /\ auditLog[r] \in Seq(AuditRows)
  BY OfOneRun
<1> QED
  BY <1>1, <1>3, <1>4, <1>5, <1>6, <1>7, <1>8, OneRun

LEMMA AttemptStep ==
    ASSUME GInvariant, opt' = opt, NEW r \in RunIDs, Attempt(r), UNCHANGED auditLog,
           runs[r].phase = "ready" \/ (Logged(r, "refine") /\ runs[r].result # "deny")
    PROVE  GInvariant'
<1>0. /\ runs[r] \in Launches /\ Within(runs[r]) /\ Allowed(runs[r])
      /\ Audited(runs[r], auditLog[r]) /\ runs[r].attempts \in Nat
      /\ opt.max \in Nat \ {0} /\ opt.usage \subseteq Nat
  BY OfOneRun, GovernedAssumption
<1>1. PICK u \in opt.usage :
        runs' = [runs EXCEPT ![r] = [runs[r] EXCEPT !.phase = "running", !.attempts = @ + 1,
                                                    !.used = <<@[2], @[2] + u>>]]
  BY DEF Attempt
<1> DEFINE new == [runs[r] EXCEPT !.phase = "running", !.attempts = @ + 1, !.used = <<@[2], @[2] + u>>]
<1>2. /\ new \in Launches /\ new.phase = "running"
      /\ new.token = runs[r].token /\ new.principal = runs[r].principal
      /\ new.tools = runs[r].tools /\ new.approval = runs[r].approval
      /\ new.attempts = runs[r].attempts + 1
  <2>1. <<runs[r].used[2], runs[r].used[2] + u>> \in Nat \X Nat
    BY <1>0 DEF Launches
  <2>2. runs[r].attempts + 1 \in Nat
    BY <1>0
  <2>3. "running" \in Phases
    BY DEF Phases
  <2> QED
    BY <1>0, <2>1, <2>2, <2>3 DEF Launches
<1> HIDE DEF new
<1>3. runs' = [runs EXCEPT ![r] = new]
  BY <1>1 DEF new
<1>4. runs[r].phase \in {"ready", "logging"}
  BY DEF Logged
<1>5. Guarded'
  BY <1>2, <1>3, <1>4, GuardRecords DEF Attempt
<1>6. Within(new)
  BY <1>0, <1>2, <1>4, WithinStays
<1>7. Allowed(new)
  <2>1. Says(new.attempts) # "deny" /\ runs[r].attempts < opt.max
    <3>1. CASE runs[r].phase = "ready"
      <4>1. runs[r].attempts = 0 /\ Says(1) # "deny"
        BY <1>0, <3>1 DEF Allowed
      <4>2. new.attempts = 1
        BY <1>2, <4>1
      <4> QED
        BY <1>0, <4>1, <4>2
    <3>2. CASE Logged(r, "refine") /\ runs[r].result # "deny"
      BY <1>0, <1>2, <3>2 DEF Allowed, Logged
    <3> QED
      BY <3>1, <3>2
  <2>2. Says(1) = "review" => new.approval.made
    <3>1. CASE runs[r].phase = "ready"
      BY <1>0, <1>2, <3>1 DEF Allowed
    <3>2. CASE Logged(r, "refine") /\ runs[r].result # "deny"
      <4>1. runs[r].attempts # 0
        BY <1>0, <3>2 DEF Allowed, Logged
      <4>2. runs[r].attempts > 0
        BY <1>0, <4>1
      <4> QED
        BY <1>0, <1>2, <4>2 DEF Allowed
    <3> QED
      BY <3>1, <3>2
  <2>3. new.attempts <= opt.max /\ new.attempts > 0
    BY <1>0, <1>2, <2>1
  <2>4. ASSUME NEW n \in 1..new.attempts PROVE Says(n) # "deny"
    <3>1. n = new.attempts \/ n \in 1..runs[r].attempts
      BY <1>0, <1>2
    <3> QED
      BY <1>0, <2>1, <3>1 DEF Allowed
  <2> QED
    BY <1>2, <2>2, <2>3, <2>4 DEF Allowed
<1>8. Audited(new, auditLog[r])
  BY <1>0, <1>2, <1>4, AuditStays
<1>9. auditLog' = [auditLog EXCEPT ![r] = auditLog[r]] /\ auditLog[r] \in Seq(AuditRows)
  BY OfOneRun
<1> QED
  BY <1>2, <1>3, <1>5, <1>6, <1>7, <1>8, <1>9, OneRun

\* Launch and refineOrExhaust, up to the gate's rows.
LEMMA LaunchStep ==
    ASSUME GInvariant, opt' = opt, NEW r \in RunIDs, Launch(r)
    PROVE  GInvariant'
<1> DEFINE mid == [runs[r] EXCEPT !.tools = GrantedTools(opt.srv, runs[r].principal, opt.tools)]
<1> DEFINE new == Gate(mid, r, "execute")
<1>0. /\ runs[r] \in Launches /\ Within(runs[r]) /\ Allowed(runs[r])
      /\ Audited(runs[r], auditLog[r]) /\ runs[r].phase = "staged" /\ runs[r].attempts = 0
      /\ opt \in Options /\ Starts(opt.srv) /\ opt.max \in Nat \ {0}
  BY OfOneRun, GovernedAssumption DEF Launch, Allowed
<1>1. /\ mid \in Launches /\ mid.token = runs[r].token /\ mid.principal = runs[r].principal
      /\ mid.tools = GrantedTools(opt.srv, runs[r].principal, opt.tools)
      /\ mid.approval = runs[r].approval /\ mid.attempts = runs[r].attempts
  <2>1. GrantedTools(opt.srv, runs[r].principal, opt.tools) \in SUBSET opt.tools
    BY DEF GrantedTools
  <2> QED
    BY <1>0, <2>1 DEF Launches
<1> HIDE DEF mid
<1>2. /\ new \in Launches /\ new.phase = "logging" /\ new.gate = "execute"
      /\ new.result = Says(runs[r].attempts + 1)
      /\ new.principal = mid.principal /\ new.tools = mid.tools /\ new.attempts = mid.attempts
      /\ new.token = mid.token /\ new.approval = mid.approval
      /\ Pending(new, auditLog[r])
  BY <1>0, <1>1, GateDecides
<1> HIDE DEF new
<1>3. runs' = [runs EXCEPT ![r] = new]
  BY DEF Launch, new, mid
<1>4. Guarded'
  <2>1. new.attempts = runs[r].attempts /\ (new.phase = "ended" <=> runs[r].phase = "ended")
    BY <1>0, <1>1, <1>2
  <2>2. reports' = reports /\ new \in Launches
    BY <1>2 DEF Launch
  <2> QED
    BY <1>3, <2>1, <2>2, GuardStays
<1>5. opt.srv.auth = "keyring" =>
        \A t \in new.tools : FileGrants(opt.srv.config, new.token, "tools", t)
  <2> SUFFICES ASSUME opt.srv.auth = "keyring", NEW t \in new.tools
               PROVE  FileGrants(opt.srv.config, runs[r].token, "tools", t)
    BY <1>1, <1>2
  <2>1. runs[r].principal = Lookup(opt.srv.config, runs[r].token)
    BY <1>0 DEF Within
  <2>2. Allows(Resolve(opt.srv.config, Lookup(opt.srv.config, runs[r].token), "tools"), t)
    BY <1>1, <1>2, <2>1 DEF GrantedTools
  <2> QED
    BY <1>0, <2>2, ResolvedIsGranted DEF Starts
<1>6. Within(new)
  BY <1>0, <1>1, <1>2, <1>5 DEF Within
<1>7. Allowed(new)
  BY <1>0, <1>1, <1>2 DEF Allowed
<1>8. Audited(new, auditLog[r])
  BY <1>0, <1>2 DEF Audited
<1>9. auditLog' = [auditLog EXCEPT ![r] = auditLog[r]] /\ auditLog[r] \in Seq(AuditRows)
  BY OfOneRun DEF Launch
<1> QED
  BY <1>2, <1>3, <1>4, <1>6, <1>7, <1>8, <1>9, OneRun

LEMMA RefineStep ==
    ASSUME GInvariant, opt' = opt, NEW r \in RunIDs, Refine(r)
    PROVE  GInvariant'
<1> DEFINE new == Gate(runs[r], r, "refine")
<1>0. /\ runs[r] \in Launches /\ Within(runs[r]) /\ Allowed(runs[r])
      /\ Audited(runs[r], auditLog[r]) /\ runs[r].phase = "running" /\ runs[r].attempts \in Nat
      /\ runs[r].attempts > 0 /\ runs[r].attempts < opt.max
  BY OfOneRun DEF Refine, Allowed
<1>1. runs[r].attempts # 0
  BY <1>0
<1>2. /\ new \in Launches /\ new.phase = "logging" /\ new.gate = "refine"
      /\ new.result = Says(runs[r].attempts + 1)
      /\ new.principal = runs[r].principal /\ new.tools = runs[r].tools
      /\ new.attempts = runs[r].attempts
      /\ new.token = runs[r].token /\ new.approval = runs[r].approval
      /\ Pending(new, auditLog[r])
  BY <1>0, <1>1, GateDecides
<1> HIDE DEF new
<1>3. runs' = [runs EXCEPT ![r] = new]
  BY DEF Refine, new
<1>4. Guarded'
  BY <1>0, <1>2, <1>3, GuardStays DEF Refine
<1>5. Within(new)
  BY <1>0, <1>2, WithinStays
<1>6. Allowed(new)
  BY <1>0, <1>1, <1>2 DEF Allowed
<1>7. Audited(new, auditLog[r])
  BY <1>0, <1>2 DEF Audited
<1>8. auditLog' = [auditLog EXCEPT ![r] = auditLog[r]] /\ auditLog[r] \in Seq(AuditRows)
  BY OfOneRun DEF Refine
<1> QED
  BY <1>2, <1>3, <1>4, <1>5, <1>6, <1>7, <1>8, OneRun

\* The branches before the first attempt, and the returns.
LEMMA ExecuteGateStep ==
    ASSUME GInvariant, opt' = opt, NEW r \in RunIDs, ExecuteGate(r)
    PROVE  GInvariant'
<1>0. /\ runs[r] \in Launches /\ Within(runs[r]) /\ Allowed(runs[r])
      /\ Audited(runs[r], auditLog[r]) /\ runs[r].phase = "logging"
      /\ runs[r].attempts = 0 /\ runs[r].result = Says(1) /\ runs[r].result \in Results
  <2>1. /\ runs[r] \in Launches /\ Within(runs[r]) /\ Allowed(runs[r])
        /\ Audited(runs[r], auditLog[r])
    BY OfOneRun
  <2>2. runs[r].phase = "logging" /\ runs[r].gate = "execute"
    BY DEF ExecuteGate, Logged
  <2>3. runs[r].attempts = 0 /\ runs[r].result = Says(runs[r].attempts + 1)
    BY <2>1, <2>2 DEF Allowed
  <2>4. runs[r].result = Says(1)
    BY <2>3
  <2>5. runs[r].result \in Results
    BY <2>1 DEF Launches
  <2> QED
    BY <2>1, <2>2, <2>3, <2>4, <2>5
<1>1. CASE runs[r].result = "deny"
  <2>1. Returns(r) /\ UNCHANGED auditLog
    BY <1>1 DEF ExecuteGate
  <2> QED
    BY <1>0, <2>1, ReturnStep
<1>2. ASSUME NEW ph \in {"waiting", "ready"}, runs[r].result # "deny",
             runs' = [runs EXCEPT ![r].phase = ph], reports' = reports,
             ph = "ready" => runs[r].result = "allow"
      PROVE  GInvariant'
  <2> DEFINE new == [runs[r] EXCEPT !.phase = ph]
  <2>1. ph \in Phases
    BY DEF Phases
  <2>2. /\ new \in Launches /\ new.phase = ph
        /\ new.token = runs[r].token /\ new.principal = runs[r].principal
        /\ new.tools = runs[r].tools /\ new.approval = runs[r].approval
        /\ new.attempts = runs[r].attempts
    BY <2>1, PhaseMoves
  <2>3. runs' = [runs EXCEPT ![r] = new]
    BY <1>2
  <2> HIDE DEF new
  <2>4. Guarded'
    <3>1. new.phase = "ended" <=> runs[r].phase = "ended"
      BY <1>0, <2>2
    <3> QED
      BY <1>2, <2>2, <2>3, <3>1, GuardStays
  <2>5. Within(new)
    BY <1>0, <2>2, WithinStays
  <2>6. Allowed(new)
    BY <1>0, <1>2, <2>2 DEF Allowed
  <2>7. Audited(new, auditLog[r])
    BY <1>0, <1>2, <2>2, AuditStays
  <2>8. auditLog' = [auditLog EXCEPT ![r] = auditLog[r]] /\ auditLog[r] \in Seq(AuditRows)
    BY OfOneRun DEF ExecuteGate
  <2> QED
    BY <2>2, <2>3, <2>4, <2>5, <2>6, <2>7, <2>8, OneRun
<1>3. CASE runs[r].result = "review"
  BY <1>2, <1>3 DEF ExecuteGate
<1>4. CASE runs[r].result = "allow"
  BY <1>2, <1>4 DEF ExecuteGate
<1> QED
  BY <1>0, <1>1, <1>3, <1>4 DEF Results

LEMMA OtherSteps ==
    ASSUME GInvariant, opt' = opt, NEW r \in RunIDs,
           WaitFails(r) \/ Finish(r) \/ Start(r) \/ RefineGate(r)
    PROVE  GInvariant'
<1>1. CASE WaitFails(r) \/ Finish(r)
  BY <1>1, ReturnStep DEF WaitFails, Finish
<1>2. CASE Start(r)
  BY <1>2, ReturnStep, AttemptStep DEF Start
<1>3. CASE RefineGate(r)
  <2>1. CASE runs[r].result = "deny"
    <3>1. Returns(r) /\ UNCHANGED auditLog /\ runs[r].phase = "logging"
      BY <1>3, <2>1 DEF RefineGate, Logged
    <3> QED
      BY <3>1, ReturnStep
  <2>2. CASE runs[r].result # "deny"
    BY <1>3, <2>2, AttemptStep DEF RefineGate
  <2> QED
    BY <2>1, <2>2
<1> QED
  BY <1>1, <1>2, <1>3

\* The log a row longer.
LEMMA Appended ==
    ASSUME NEW S, NEW log \in Seq(S), NEW row \in S
    PROVE  /\ Append(log, row) \in Seq(S) /\ Len(log) \in Nat
           /\ Len(Append(log, row)) = Len(log) + 1
           /\ DOMAIN log = 1..Len(log) /\ DOMAIN Append(log, row) = 1..(Len(log) + 1)
           /\ \A i \in 1..Len(log) : Append(log, row)[i] = log[i]
           /\ Append(log, row)[Len(log) + 1] = row
OBVIOUS

LEMMA UpToHere ==
    ASSUME NEW n \in Nat, NEW i \in 1..n, NEW j \in 1..(i - 1)
    PROVE  j \in 1..n /\ \A k \in (j + 1)..i : k \in 1..n
OBVIOUS

LEMMA UpToLast ==
    ASSUME NEW n \in Nat, NEW i \in 1..(n + 1)
    PROVE  /\ i \in 1..n \/ i = n + 1
           /\ \A k \in (i + 1)..(n + 1) : /\ i \in 1..n
                                          /\ k = n + 1 \/ (k \in (i + 1)..n /\ k \in 1..n)
OBVIOUS

LEMMA BeforeLast ==
    ASSUME NEW n \in Nat, NEW j \in 1..n
    PROVE  j \in 1..(n + 1) /\ j \in 1..((n + 1) - 1)
OBVIOUS

\* A policy's row stands behind its aggregate.
Attached(log, row) ==
    row.policy # "" =>
       \E j \in DOMAIN log :
          /\ log[j].policy = "" /\ log[j].action = row.action
          /\ \A k \in (j + 1)..Len(log) : log[k].policy # ""
          /\ log[j].result \in AtLeast(row.result)

IsDenial(row) == row.policy = "" /\ row.result = "deny"
Denied(log) == \E i \in DOMAIN log : DeniedAt(log, i)

\* Only policies' rows follow a denial.
Follows(log, row) == Denied(log) => row.policy # ""

LEMMA ExplainedStays ==
    ASSUME NEW S, NEW log \in Seq(S), NEW row \in S, Explained(log), Attached(log, row)
    PROVE  Explained(Append(log, row))
<1> DEFINE long == Append(log, row)
<1> DEFINE n == Len(log)
<1>1. /\ n \in Nat /\ DOMAIN log = 1..n /\ DOMAIN long = 1..(n + 1)
      /\ \A i \in 1..n : long[i] = log[i]
      /\ long[n + 1] = row
  BY Appended
<1>2. ASSUME NEW i \in 1..(n + 1), long[i].policy # ""
      PROVE  \E j \in 1..(i - 1) :
                /\ long[j].policy = "" /\ long[j].action = long[i].action
                /\ \A k \in (j + 1)..i : long[k].policy # ""
                /\ long[j].result \in AtLeast(long[i].result)
  <2> HIDE DEF long, n
  <2>1. CASE i \in 1..n
    <3>1. PICK j \in 1..(i - 1) :
                /\ log[j].policy = "" /\ log[j].action = log[i].action
                /\ \A k \in (j + 1)..i : log[k].policy # ""
                /\ log[j].result \in AtLeast(log[i].result)
      BY <1>1, <1>2, <2>1 DEF Explained
    <3>2. j \in 1..n /\ \A k \in (j + 1)..i : k \in 1..n
      BY <1>1, <2>1, UpToHere
    <3> QED
      BY <1>1, <2>1, <3>1, <3>2
  <2>2. CASE i = n + 1
    <3>1. PICK j \in 1..n :
                 /\ log[j].policy = "" /\ log[j].action = row.action
                 /\ \A k \in (j + 1)..n : log[k].policy # ""
                 /\ log[j].result \in AtLeast(row.result)
      BY <1>1, <1>2, <2>2 DEF n, Attached
    <3>2. j \in 1..(n + 1) /\ j \in 1..((n + 1) - 1)
      BY <1>1, BeforeLast
    <3>3. ASSUME NEW k \in (j + 1)..(n + 1) PROVE long[k].policy # ""
      <4>1. k = n + 1 \/ (k \in (j + 1)..n /\ k \in 1..n)
        BY <1>1, <3>2, UpToLast
      <4> QED
        BY <1>1, <1>2, <2>2, <3>1, <4>1
    <3> QED
      BY <1>1, <2>2, <3>1, <3>2, <3>3
  <2> QED
    BY <1>1, <2>1, <2>2, UpToLast
<1> QED
  BY <1>1, <1>2 DEF Explained

LEMMA DenialStays ==
    ASSUME NEW S, NEW log \in Seq(S), NEW row \in S, DenialIsLast(log), Follows(log, row)
    PROVE  /\ DenialIsLast(Append(log, row))
           /\ Denied(Append(log, row)) => Denied(log) \/ IsDenial(row)
<1> DEFINE long == Append(log, row)
<1> DEFINE n == Len(log)
<1>1. /\ n \in Nat /\ DOMAIN log = 1..n /\ DOMAIN long = 1..(n + 1) /\ Len(long) = n + 1
      /\ \A i \in 1..n : long[i] = log[i]
      /\ long[n + 1] = row
  BY Appended
<1>2. ASSUME NEW i \in 1..(n + 1), DeniedAt(long, i)
      PROVE  /\ i \in 1..n => DeniedAt(log, i)
             /\ i = n + 1 => row.policy = "" /\ row.result = "deny"
  <2> HIDE DEF long, n
  <2> QED
    BY <1>1, <1>2 DEF DeniedAt
<1>3. ASSUME NEW i \in 1..(n + 1), DeniedAt(long, i), NEW k \in (i + 1)..(n + 1)
      PROVE  long[k].policy # ""
  <2> HIDE DEF long, n
  <2>1. i \in 1..n /\ (k = n + 1 \/ (k \in (i + 1)..n /\ k \in 1..n))
    BY <1>1, UpToLast
  <2>2. DeniedAt(log, i) /\ Denied(log)
    BY <1>1, <1>2, <1>3, <2>1 DEF Denied
  <2>3. CASE k = n + 1
    BY <1>1, <2>2, <2>3 DEF Follows
  <2>4. CASE k \in (i + 1)..n /\ k \in 1..n
    <3>1. log[k].policy # ""
      BY <1>1, <2>1, <2>2, <2>4 DEF DenialIsLast, n
    <3> QED
      BY <1>1, <2>4, <3>1
  <2> QED
    BY <2>1, <2>3, <2>4
<1> HIDE DEF long, n
<1>4. DenialIsLast(long)
  BY <1>1, <1>3 DEF DenialIsLast
<1>5. Denied(long) => Denied(log) \/ IsDenial(row)
  <2> SUFFICES ASSUME NEW i \in 1..(n + 1), DeniedAt(long, i)
               PROVE  Denied(log) \/ IsDenial(row)
    BY <1>1 DEF Denied
  <2>1. i \in 1..n \/ i = n + 1
    BY <1>1, UpToLast
  <2> QED
    BY <1>1, <1>2, <2>1 DEF Denied, IsDenial
<1> QED
  BY <1>4, <1>5 DEF long

\* The next row of a decision is written.
LEMMA LogRowAudited ==
    ASSUME NEW S, NEW run, NEW new, NEW log \in Seq(S), run.rows \in Seq(S), run.rows # <<>>,
           run.phase = "logging", Audited(run, log),
           new.phase = "logging", new.gate = run.gate, new.result = run.result,
           new.rows = Tail(run.rows)
    PROVE  Audited(new, Append(log, Head(run.rows)))
<1> DEFINE row == Head(run.rows)
<1> DEFINE long == Append(log, row)
<1> DEFINE n == Len(log)
<1>1. /\ row \in S /\ row = run.rows[1] /\ 1 \in DOMAIN run.rows
      /\ \A i \in DOMAIN new.rows : /\ i + 1 \in DOMAIN run.rows /\ i + 1 # 1
                                    /\ new.rows[i] = run.rows[i + 1]
      /\ new.rows # <<>> => 1 \in DOMAIN new.rows
  OBVIOUS
<1> HIDE DEF row
<1>2. /\ n \in Nat /\ DOMAIN log = 1..n /\ DOMAIN long = 1..(n + 1) /\ Len(long) = n + 1
      /\ \A i \in 1..n : long[i] = log[i]
      /\ long[n + 1] = row
  BY <1>1, Appended
<1>3. Pending(run, log) /\ Explained(log) /\ DenialIsLast(log)
  BY DEF Audited
<1>4. /\ row.action = run.gate
      /\ row.policy = "" => row.result = run.result
      /\ row.policy # "" => run.result \in AtLeast(row.result) /\ Headed(run, log)
  BY <1>1, <1>3 DEF Pending
<1>5. \A i \in DOMAIN new.rows : /\ new.rows[i].action = run.gate
                                 /\ new.rows[i].policy # ""
                                 /\ run.result \in AtLeast(new.rows[i].result)
  BY <1>1, <1>3 DEF Pending
<1>6. Explained(long)
  <2>1. Attached(log, row)
    BY <1>4 DEF Headed, Attached
  <2> QED
    BY <1>1, <1>3, <2>1, ExplainedStays
<1>7. Denied(log) => row.policy # "" /\ run.result = "deny"
  BY <1>1 DEF Audited, Denied
<1>8. /\ DenialIsLast(long)
      /\ Denied(long) => run.result = "deny"
  <2>0. Follows(log, row)
    BY <1>7 DEF Follows
  <2>1. row \in S /\ DenialIsLast(log)
    BY <1>1, <1>3
  <2>2. DenialIsLast(long)
    BY <2>0, <2>1, DenialStays
  <2>3. Denied(long) => Denied(log) \/ IsDenial(row)
    BY <2>0, <2>1, DenialStays
  <2> QED
    BY <1>4, <1>7, <2>2, <2>3 DEF IsDenial
<1> HIDE DEF long, n
<1>9. Headed(new, long)
  <2>1. CASE row.policy = ""
    <3>1. n + 1 \in DOMAIN long /\ \A k \in (n + 2)..(n + 1) : FALSE
      BY <1>2
    <3>2. n + 1 + 1 = n + 2
      BY <1>2
    <3> QED
      BY <1>2, <1>4, <2>1, <3>1, <3>2 DEF Headed
  <2>2. CASE row.policy # ""
    <3>1. PICK j \in 1..n : /\ log[j].policy = "" /\ log[j].action = run.gate
                            /\ log[j].result = run.result
                            /\ \A k \in (j + 1)..n : log[k].policy # ""
      BY <1>2, <1>4, <2>2 DEF Headed, n
    <3>2. ASSUME NEW k \in (j + 1)..(n + 1) PROVE long[k].policy # ""
      <4>1. k = n + 1 \/ (k \in (j + 1)..n /\ k \in 1..n)
        BY <1>2
      <4> QED
        BY <1>2, <2>2, <3>1, <4>1
    <3>3. j \in 1..(n + 1)
      BY <1>2
    <3> QED
      BY <1>2, <3>1, <3>2, <3>3 DEF Headed
  <2> QED
    BY <2>1, <2>2
<1>10. Pending(new, long)
  BY <1>1, <1>5, <1>9 DEF Pending
<1> QED
  BY <1>5, <1>6, <1>8, <1>10 DEF Audited, Denied, long, row

LEMMA LogRowStep ==
    ASSUME GInvariant, opt' = opt, NEW r \in RunIDs, LogRow(r)
    PROVE  GInvariant'
<1> DEFINE new == [runs[r] EXCEPT !.rows = Tail(@)]
<1> DEFINE log == Append(auditLog[r], Head(runs[r].rows))
<1>0. /\ runs[r] \in Launches /\ Within(runs[r]) /\ Allowed(runs[r])
      /\ Audited(runs[r], auditLog[r]) /\ auditLog[r] \in Seq(AuditRows)
  BY OfOneRun
<1>1. runs[r].phase = "logging" /\ runs[r].rows # <<>> /\ runs[r].rows \in Seq(AuditRows)
  BY <1>0 DEF LogRow, Launches
<1>2. Tail(runs[r].rows) \in Seq(AuditRows) /\ Head(runs[r].rows) \in AuditRows
  BY <1>1
<1>3. /\ new \in Launches /\ new.phase = "logging" /\ new.gate = runs[r].gate
      /\ new.result = runs[r].result /\ new.rows = Tail(runs[r].rows)
      /\ new.token = runs[r].token /\ new.principal = runs[r].principal
      /\ new.tools = runs[r].tools /\ new.approval = runs[r].approval
      /\ new.attempts = runs[r].attempts
  BY <1>0, <1>1, <1>2 DEF Launches
<1>4. runs' = [runs EXCEPT ![r] = new] /\ auditLog' = [auditLog EXCEPT ![r] = log]
  BY DEF LogRow
<1>5. log \in Seq(AuditRows)
  BY <1>0, <1>2
<1>6. Audited(new, log)
  BY <1>0, <1>1, <1>3, LogRowAudited
<1> HIDE DEF new, log
<1>7. Guarded'
  BY <1>1, <1>3, <1>4, GuardStays DEF LogRow
<1>8. Within(new)
  BY <1>0, <1>1, <1>3, WithinStays
<1>9. Allowed(new)
  BY <1>0, <1>1, <1>3 DEF Allowed
<1> QED
  BY <1>3, <1>4, <1>5, <1>6, <1>7, <1>8, <1>9, OneRun

LEMMA LogFailsStep ==
    ASSUME GInvariant, opt' = opt, NEW r \in RunIDs, LogFails(r)
    PROVE  GInvariant'
<1> DEFINE new == [runs[r] EXCEPT !.rows = <<>>]
<1>0. /\ runs[r] \in Launches /\ Within(runs[r]) /\ Allowed(runs[r])
      /\ Audited(runs[r], auditLog[r]) /\ auditLog[r] \in Seq(AuditRows)
  BY OfOneRun
<1>1. runs[r].phase = "logging"
  BY DEF LogFails
<1>2. /\ new \in Launches /\ new.phase = "logging" /\ new.gate = runs[r].gate
      /\ new.result = runs[r].result /\ new.rows = <<>>
      /\ new.token = runs[r].token /\ new.principal = runs[r].principal
      /\ new.tools = runs[r].tools /\ new.approval = runs[r].approval
      /\ new.attempts = runs[r].attempts
  <2>1. <<>> \in Seq(AuditRows)
    OBVIOUS
  <2> QED
    BY <1>0, <1>1, <2>1 DEF Launches
<1>3. runs' = [runs EXCEPT ![r] = new] /\ auditLog' = [auditLog EXCEPT ![r] = auditLog[r]]
  BY OfOneRun DEF LogFails
<1> HIDE DEF new
<1>4. \A i \in DOMAIN new.rows : FALSE
  BY <1>2
<1>5. Audited(new, auditLog[r])
  BY <1>0, <1>1, <1>2, <1>4 DEF Audited, Pending
<1>6. Guarded'
  BY <1>1, <1>2, <1>3, GuardStays DEF LogFails
<1>7. Within(new)
  BY <1>0, <1>1, <1>2, WithinStays
<1>8. Allowed(new)
  BY <1>0, <1>1, <1>2 DEF Allowed
<1> QED
  BY <1>0, <1>2, <1>3, <1>5, <1>6, <1>7, <1>8, OneRun

LEMMA LogApprovalStep ==
    ASSUME GInvariant, opt' = opt, NEW r \in RunIDs, LogApproval(r)
    PROVE  GInvariant'
<1> DEFINE new == [runs[r] EXCEPT !.phase = "ready"]
<1> DEFINE row == ApprovalRow(r)
<1>0. /\ runs[r] \in Launches /\ Within(runs[r]) /\ Allowed(runs[r])
      /\ Audited(runs[r], auditLog[r]) /\ auditLog[r] \in Seq(AuditRows)
  BY OfOneRun
<1>1. runs[r].phase = "approved"
  BY DEF LogApproval
<1>2. "ready" \in Phases
  BY DEF Phases
<1>3. /\ new \in Launches /\ new.phase = "ready"
      /\ new.token = runs[r].token /\ new.principal = runs[r].principal
      /\ new.tools = runs[r].tools /\ new.approval = runs[r].approval
      /\ new.attempts = runs[r].attempts
  BY <1>2, PhaseMoves
<1>4. runs' = [runs EXCEPT ![r] = new]
  BY DEF LogApproval
<1> HIDE DEF new
<1>5. Guarded'
  BY <1>1, <1>3, <1>4, GuardStays DEF LogApproval
<1>6. Within(new)
  BY <1>0, <1>1, <1>3, WithinStays
<1>7. Allowed(new)
  BY <1>0, <1>1, <1>3 DEF Allowed
<1>8. row \in AuditRows /\ row.policy = "" /\ row.result = "approved"
  BY DEF AuditRows, ApprovalRow
<1> HIDE DEF row
<1>9. ~Denied(auditLog[r]) /\ Explained(auditLog[r]) /\ DenialIsLast(auditLog[r])
  BY <1>0, <1>1 DEF Audited, Denied
<1>10. CASE auditLog' = [auditLog EXCEPT ![r] = Append(@, row)]
  <2>1. Attached(auditLog[r], row) /\ Follows(auditLog[r], row) /\ ~IsDenial(row)
    BY <1>8, <1>9 DEF Attached, Follows, IsDenial
  <2>2. /\ Explained(Append(auditLog[r], row)) /\ DenialIsLast(Append(auditLog[r], row))
        /\ ~Denied(Append(auditLog[r], row))
    BY <1>0, <1>8, <1>9, <2>1, ExplainedStays, DenialStays
  <2>3. Audited(new, Append(auditLog[r], row))
    BY <1>3, <2>2 DEF Audited, Denied
  <2>4. Append(auditLog[r], row) \in Seq(AuditRows)
    BY <1>0, <1>8, Appended
  <2>5. auditLog' = [auditLog EXCEPT ![r] = Append(auditLog[r], row)]
    BY <1>10
  <2> QED
    BY <1>3, <1>4, <1>5, <1>6, <1>7, <2>3, <2>4, <2>5, OneRun
<1>11. CASE UNCHANGED auditLog
  <2>1. auditLog' = [auditLog EXCEPT ![r] = auditLog[r]]
    BY <1>11, OfOneRun
  <2>2. Audited(new, auditLog[r])
    BY <1>0, <1>1, <1>3, AuditStays
  <2> QED
    BY <1>0, <1>3, <1>4, <1>5, <1>6, <1>7, <2>1, <2>2, OneRun
<1> QED
  BY <1>10, <1>11 DEF LogApproval, row

LEMMA RunStepPreserves ==
    ASSUME GInvariant, NEW r \in RunIDs, RunStep(r)
    PROVE  GInvariant'
BY LaunchStep, LogRowStep, LogFailsStep, ExecuteGateStep, OtherSteps, LogApprovalStep, RefineStep
   DEF RunStep

-----------------------------------------------------------------------------
(* The handlers *)

LEMMA HandleCreateStep ==
    ASSUME GInvariant, opt' = opt, NEW req \in opt.requests, HandleCreate(req), Reaches(req),
           req.route = "create"
    PROVE  GInvariant'
<1>1. PICK r \in RunIDs :
         /\ runs[r].phase = "free"
         /\ runs' = [runs EXCEPT ![r].phase = "staged", ![r].token = req.token,
                                 ![r].principal = Authenticated(opt.srv, req)]
  BY DEF HandleCreate
<1> DEFINE new == [runs[r] EXCEPT !.phase = "staged", !.token = req.token,
                                  !.principal = Authenticated(opt.srv, req)]
<1>0. /\ runs[r] \in Launches /\ Within(runs[r]) /\ Allowed(runs[r])
      /\ Audited(runs[r], auditLog[r]) /\ auditLog[r] \in Seq(AuditRows)
      /\ opt \in Options /\ Starts(opt.srv)
  BY OfOneRun
<1>2. /\ new \in Launches /\ new.phase = "staged" /\ new.token = req.token
      /\ new.principal = Authenticated(opt.srv, req)
      /\ new.tools = runs[r].tools /\ new.approval = runs[r].approval
      /\ new.attempts = runs[r].attempts
  <2>1. /\ "staged" \in Phases /\ req.token \in Tokens
        /\ Authenticated(opt.srv, req) \in Principals
    BY DEF Phases, Tokens, Principals
  <2> QED
    BY <1>0, <2>1 DEF Launches
<1>3. runs' = [runs EXCEPT ![r] = new]
  BY <1>1
<1> HIDE DEF new
<1>4. MayDo(opt.srv, req.token, "run:create")
  BY <1>0, ReachesMay DEF CapabilityOf
<1>5. opt.srv.auth = "keyring" => new.principal = Lookup(opt.srv.config, new.token)
  BY <1>2 DEF Authenticated
<1>6. runs[r].tools = {}
  BY <1>0, <1>1 DEF Within
<1>7. Within(new)
  BY <1>0, <1>2, <1>4, <1>5, <1>6 DEF Within
<1>8. Allowed(new)
  BY <1>0, <1>1, <1>2 DEF Allowed
<1>9. Audited(new, auditLog[r])
  BY <1>0, <1>1, <1>2, AuditStays
<1>10. Guarded'
  BY <1>1, <1>2, <1>3, GuardStays DEF HandleCreate
<1>11. auditLog' = [auditLog EXCEPT ![r] = auditLog[r]]
  BY OfOneRun DEF HandleCreate
<1> QED
  BY <1>0, <1>2, <1>3, <1>7, <1>8, <1>9, <1>10, <1>11, OneRun

LEMMA HandleApproveStep ==
    ASSUME GInvariant, opt' = opt, NEW req \in opt.requests, HandleApprove(req), Reaches(req),
           req.route = "approve"
    PROVE  GInvariant'
<1> DEFINE by == [made |-> TRUE, token |-> req.token, name |-> ApproverOf(opt.srv, req)]
<1>1. PICK r \in RunIDs :
         /\ runs[r].phase = "waiting"
         /\ runs' = [runs EXCEPT ![r].phase = "approved", ![r].approval = by]
  BY DEF HandleApprove
<1> DEFINE new == [runs[r] EXCEPT !.phase = "approved", !.approval = by]
<1>0. /\ runs[r] \in Launches /\ Within(runs[r]) /\ Allowed(runs[r])
      /\ Audited(runs[r], auditLog[r]) /\ auditLog[r] \in Seq(AuditRows)
      /\ opt \in Options /\ Starts(opt.srv)
  BY OfOneRun
<1>2. /\ new \in Launches /\ new.phase = "approved" /\ new.token = runs[r].token
      /\ new.principal = runs[r].principal
      /\ new.tools = runs[r].tools /\ new.approval = by
      /\ new.attempts = runs[r].attempts
  <2>1. "approved" \in Phases /\ by \in [made : BOOLEAN, token : Tokens, name : Names]
    BY DEF Phases, Tokens, Names
  <2> HIDE DEF by
  <2> QED
    BY <1>0, <2>1 DEF Launches
<1>3. runs' = [runs EXCEPT ![r] = new]
  BY <1>1
<1>4. by.made = TRUE /\ by.token = req.token /\ by.name = ApproverOf(opt.srv, req)
  OBVIOUS
<1> HIDE DEF new, by
<1>5. MayDo(opt.srv, req.token, "approve")
  BY <1>0, ReachesMay DEF CapabilityOf
<1>6. ASSUME opt.srv.auth = "keyring", NEW i \in DOMAIN opt.srv.config.keys,
             opt.srv.config.keys[i].token = req.token
      PROVE  opt.srv.config.keys[i].id = ApproverOf(opt.srv, req)
  <2>1. LoadsConfig(opt.srv.config)
    BY <1>0, <1>6 DEF Starts
  <2>2. Lookup(opt.srv.config, req.token) = PrincipalOf(opt.srv.config.keys[i])
    BY <1>0, <1>6, <2>1, LookupFinds
  <2>3. Authenticated(opt.srv, req) = PrincipalOf(opt.srv.config.keys[i])
    BY <1>6, <2>2 DEF Authenticated
  <2> QED
    BY <1>6, <2>3 DEF ApproverOf, PrincipalOf
<1>7. Within(new)
  BY <1>0, <1>1, <1>2, <1>4, <1>5, <1>6 DEF Within
<1>8. Allowed(new)
  BY <1>0, <1>1, <1>2, <1>4 DEF Allowed
<1>9. Audited(new, auditLog[r])
  BY <1>0, <1>1, <1>2, AuditStays
<1>10. Guarded'
  BY <1>1, <1>2, <1>3, GuardStays DEF HandleApprove
<1>11. auditLog' = [auditLog EXCEPT ![r] = auditLog[r]]
  BY OfOneRun DEF HandleApprove
<1> QED
  BY <1>0, <1>2, <1>3, <1>7, <1>8, <1>9, <1>10, <1>11, OneRun

\* A step that no run sees.
LEMMA NoRunMoves ==
    ASSUME GInvariant, UNCHANGED <<opt, runVars>>
    PROVE  GInvariant'
<1>1. opt' = opt /\ runs' = runs /\ auditLog' = auditLog /\ reports' = reports
  BY DEF runVars
<1>2. GTypeOK'
  BY <1>1, SameOpt DEF GInvariant, GTypeOK
<1>3. Guarded' /\ Starts(opt.srv)'
  BY <1>1 DEF GInvariant, Guarded
<1>4. \A r \in RunIDs : Within(runs[r])' /\ Allowed(runs[r])' /\ Audited(runs[r], auditLog[r])'
  BY <1>1, SameOpt DEF GInvariant
<1> QED
  BY <1>2, <1>3, <1>4 DEF GInvariant

LEMMA RequestPreserves ==
    ASSUME GInvariant, NEW req \in opt.requests, Request(req)
    PROVE  GInvariant'
<1>1. opt' = opt /\ (UNCHANGED runVars \/ Handle(req))
  BY DEF Request
<1>2. CASE UNCHANGED runVars
  BY <1>1, <1>2, NoRunMoves
<1>3. CASE Handle(req) /\ ~UNCHANGED runVars
  <2>1. CASE Reaches(req) /\ req.route = "create" /\ req.valid
    <3>1. HandleCreate(req)
      BY <1>3, <2>1 DEF Handle
    <3> QED
      BY <1>1, <2>1, <3>1, HandleCreateStep
  <2>2. CASE ~(Reaches(req) /\ req.route = "create" /\ req.valid)
    <3>1. Reaches(req) /\ req.route = "approve" /\ req.valid /\ HandleApprove(req)
      BY <1>3, <2>2 DEF Handle
    <3> QED
      BY <1>1, <3>1, HandleApproveStep
  <2> QED
    BY <2>1, <2>2
<1> QED
  BY <1>1, <1>2, <1>3

-----------------------------------------------------------------------------
(* The theorems *)

LEMMA InitEstablishes == GInit => GInvariant
<1> SUFFICES ASSUME GInit PROVE GInvariant
  OBVIOUS
<1>1. opt \in Options /\ Starts(opt.srv)
  BY DEF GInit
<1>2. opt.max \in Nat \ {0}
  BY <1>1, GovernedAssumption
<1>3. NoRun \in Launches
  <2>1. NoApproval \in [made : BOOLEAN, token : Tokens, name : Names]
    BY DEF NoApproval, Tokens, Names
  <2>2. <<>> \in Seq(AuditRows) /\ 0 \in Nat /\ <<0, 0>> \in Nat \X Nat
    OBVIOUS
  <2>3. "free" \in Phases /\ Nobody \in Principals /\ "" \in Tokens /\ "allow" \in Results
    BY DEF Phases, Principals, Tokens, Results
  <2> QED
    BY <2>1, <2>2, <2>3 DEF NoRun, Launches
<1>4. /\ NoRun.phase = "free" /\ NoRun.tools = {} /\ NoRun.attempts = 0
      /\ NoRun.approval.made = FALSE
  BY DEF NoRun, NoApproval
<1>5. GTypeOK
  <2>1. runs = [r \in RunIDs |-> NoRun] /\ auditLog = [r \in RunIDs |-> <<>>]
    BY DEF GInit
  <2> QED
    BY <1>1, <1>3, <2>1 DEF GTypeOK
<1>6. Within(NoRun) /\ Audited(NoRun, <<>>)
  <2>1. DOMAIN <<>> = {}
    OBVIOUS
  <2> QED
    BY <1>4, <2>1 DEF Within, Audited, Explained, DenialIsLast
<1>7. Allowed(NoRun)
  <2>1. NoRun.attempts <= opt.max /\ 1..NoRun.attempts = {} /\ ~(NoRun.attempts > 0)
    BY <1>2, <1>4
  <2> QED
    BY <1>4, <2>1 DEF Allowed
<1>8. Guarded
  <2>1. DOMAIN reports = {} /\ \A r \in RunIDs : runs[r].attempts = 0
    BY <1>4 DEF GInit
  <2> QED
    BY <2>1 DEF Guarded
<1>9. \A r \in RunIDs : runs[r] = NoRun /\ auditLog[r] = <<>>
  BY DEF GInit
<1> QED
  BY <1>1, <1>5, <1>6, <1>7, <1>8, <1>9 DEF GInvariant

\* Every run of every server stays within what its requests, its policies, its
\* audit log and its budget guard make of it.
THEOREM GInvariantHolds == GSpec => []GInvariant
<1>1. ASSUME GInvariant, [GNext]_gvars PROVE GInvariant'
  <2>1. CASE \E req \in opt.requests : Request(req)
    BY <1>1, <2>1, RequestPreserves
  <2>2. CASE \E r \in RunIDs : RunStep(r)
    BY <1>1, <2>2, RunStepPreserves
  <2>3. CASE TimePasses
    BY <1>1, <2>3, NoRunMoves DEF TimePasses
  <2>4. CASE UNCHANGED gvars
    BY <1>1, <2>4, NoRunMoves DEF gvars
  <2> QED
    BY <1>1, <2>1, <2>2, <2>3, <2>4 DEF GNext
<1> QED
  BY <1>1, InitEstablishes, PTL DEF GSpec

\* Nobody creates or approves a run, and no run has a tool, but as the file, the
\* token or the loopback allows; an approval names the key it was made with.
THEOREM NobodyExceedsGrant == GSpec => []ActsWithinGrant
<1>1. GInvariant => ActsWithinGrant
  <2> SUFFICES ASSUME GInvariant PROVE ActsWithinGrant
    OBVIOUS
  <2>1. \A r \in RunIDs : Within(runs[r])
    BY DEF GInvariant
  <2> QED
    BY <2>1 DEF Within, ActsWithinGrant
<1> QED
  BY <1>1, GInvariantHolds, PTL

\* No attempt is made that a policy denies, none before a review was approved,
\* none beyond the refine bound; the budget guard counts each of them once.
THEOREM AttemptsAreGoverned == GSpec => []GovernedAttempts
<1>1. GInvariant => GovernedAttempts
  <2> SUFFICES ASSUME GInvariant PROVE GovernedAttempts
    OBVIOUS
  <2>1. AttemptsAllowed
    BY DEF GInvariant, Allowed, AttemptsAllowed
  <2>2. ASSUME opt.guard
        PROVE  /\ DOMAIN reports = {r \in RunIDs : runs[r].attempts > 0 /\ runs[r].phase # "ended"}
               /\ \A r \in DOMAIN reports : reports[r].attempts = runs[r].attempts
    <3>1. DOMAIN reports = {r \in RunIDs : runs[r].attempts > 0 /\ runs[r].phase # "ended"}
      BY <2>2 DEF GInvariant, Guarded
    <3>2. \A r \in DOMAIN reports : reports[r] = [attempts |-> runs[r].attempts, tokens |-> 0]
      BY DEF GInvariant, Guarded
    <3>3. ASSUME NEW r \in DOMAIN reports PROVE reports[r].attempts = runs[r].attempts
      <4>1. reports[r] = [attempts |-> runs[r].attempts, tokens |-> 0]
        BY <3>2
      <4> QED
        BY <4>1
    <3> QED
      BY <3>1, <3>3
  <2> QED
    BY <2>1, <2>2 DEF GovernedAttempts, GuardCounts
<1> QED
  BY <1>1, GInvariantHolds, PTL

\* The audit log tells no policy's verdict without the aggregate it led to, and
\* nothing is decided or attempted after a denial, whichever rows are lost.
THEOREM AuditIsTruthful == GSpec => []AuditTruthful
<1>1. GInvariant => AuditTruthful
  <2> SUFFICES ASSUME GInvariant, NEW r \in RunIDs, NEW i \in DOMAIN auditLog[r]
               PROVE  LET log == auditLog[r]
                      IN /\ log[i].policy # "" =>
                               \E j \in 1..(i - 1) :
                                  /\ log[j].policy = "" /\ log[j].action = log[i].action
                                  /\ \A k \in (j + 1)..i : log[k].policy # ""
                                  /\ log[j].result \in AtLeast(log[i].result)
                         /\ (log[i].policy = "" /\ log[i].result = "deny") =>
                               /\ \A k \in (i + 1)..Len(log) : log[k].policy # ""
                               /\ runs[r].phase \in {"logging", "ended"}
    BY DEF AuditTruthful
  <2>1. Audited(runs[r], auditLog[r])
    BY DEF GInvariant
  <2> QED
    BY <2>1 DEF Audited, Explained, DenialIsLast, DeniedAt
<1> QED
  BY <1>1, GInvariantHolds, PTL
=============================================================================
