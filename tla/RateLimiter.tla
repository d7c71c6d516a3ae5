---------------------------- MODULE RateLimiter ----------------------------
(***************************************************************************)
(* internal/ratelimit: token buckets, one per client key, that are made on *)
(* first use and thrown away when idle.                                    *)
(*                                                                         *)
(* Time passes in ticks.  The code counts tokens in fractions; here one    *)
(* request costs Token grains and a bucket gains Rate of them in a tick.   *)
(***************************************************************************)
EXTENDS Integers

CONSTANTS Keys,     \* client addresses
          Rate,     \* grains per tick; 0 for a limiter that never limits
          Token,    \* grains of one request
          Burst,    \* requests a full bucket holds, as configured
          TTL       \* ticks after which an idle bucket may go; 0 for never

ASSUME LimiterAssumption ==
    /\ Rate \in Nat /\ Token \in Nat \ {0} /\ Burst \in Nat /\ TTL \in Nat

VARIABLES
    clock,
    buckets,    \* the keys that have a bucket
    tokens,     \* its content when it was last touched
    last,       \* when that was
    lastSweep,
    \* history
    since,      \* the start of a window someone measures each key in
    spent,      \* grains paid for each key's requests in that window
    promise     \* when the retryAfter of the last refusal runs out; -1 for none

bucketVars == <<buckets, tokens, last, lastSweep>>
measureVars == <<since, spent, promise>>
lvars == <<clock, bucketVars, measureVars>>

\* New: a burst of less than one request is taken for one.
Cap == Token * (IF Burst < 1 THEN 1 ELSE Burst)

LimiterTypeOK ==
    /\ clock \in Nat
    /\ buckets \subseteq Keys
    /\ tokens \in [Keys -> 0..Cap]
    /\ last \in [Keys -> Nat]
    /\ lastSweep \in Int
    /\ since \in Nat
    /\ spent \in [Keys -> Nat]
    /\ promise \in [Keys -> Int]

\* The zero lastSweep lies further back than any ttl.
LimiterInit ==
    /\ clock = 0
    /\ buckets = {}
    /\ tokens = [k \in Keys |-> 0]
    /\ last = [k \in Keys |-> 0]
    /\ lastSweep = -TTL
    /\ since = 0
    /\ spent = [k \in Keys |-> 0]
    /\ promise = [k \in Keys |-> -1]

Least(a, b) == IF a <= b THEN a ELSE b
CeilDiv(a, b) == (a + b - 1) \div b

\* Mutant: an idle bucket gains without a bound.
Refilled_Uncapped(k) == tokens[k] + (clock - last[k]) * Rate

\* What a bucket holds by now.
Refilled(k) == Least(Cap, tokens[k] + (clock - last[k]) * Rate)

\* sweep: at most once per ttl the buckets idle for a ttl are deleted.
SweepDue == TTL > 0 /\ clock - lastSweep >= TTL
Swept == IF SweepDue THEN {k \in buckets : clock - last[k] < TTL} ELSE buckets

\* What Allow finds for a key after its sweep.
Found(k) == IF k \in Swept THEN Refilled(k) ELSE Cap

\* Mutant: rounded down.
RetryAfter_Floor(level) == (Token - level) \div Rate

RetryAfter(level) == CeilDiv(Token - level, Rate)

\* Allow when it admits the request.
Admits(k) ==
    /\ Rate > 0 => Found(k) >= Token
    /\ IF Rate = 0 THEN UNCHANGED bucketVars
       ELSE /\ tokens' = [tokens EXCEPT ![k] = Found(k) - Token]
            /\ last' = [last EXCEPT ![k] = clock]
            /\ buckets' = Swept \cup {k}
            /\ lastSweep' = IF SweepDue THEN clock ELSE lastSweep
    /\ spent' = [spent EXCEPT ![k] = @ + Token]
    /\ promise' = [promise EXCEPT ![k] = -1]
    /\ UNCHANGED <<clock, since>>

\* Allow when it refuses.
Refuses(k) ==
    /\ Rate > 0
    /\ Found(k) < Token
    /\ tokens' = [tokens EXCEPT ![k] = Found(k)]
    /\ last' = [last EXCEPT ![k] = clock]
    /\ buckets' = Swept \cup {k}
    /\ lastSweep' = IF SweepDue THEN clock ELSE lastSweep
    /\ promise' = [promise EXCEPT ![k] = clock + RetryAfter(Found(k))]
    /\ UNCHANGED <<clock, since, spent>>

Tick == clock' = clock + 1 /\ UNCHANGED <<bucketVars, measureVars>>

\* Someone starts to measure.
Measure ==
    /\ since' = clock
    /\ spent' = [k \in Keys |-> 0]
    /\ UNCHANGED <<clock, bucketVars, promise>>

LimiterNext == (\E k \in Keys : Admits(k) \/ Refuses(k)) \/ Tick \/ Measure

LimiterSpec == LimiterInit /\ [][LimiterNext]_lvars

-----------------------------------------------------------------------------
(* Properties *)

\* An evicted bucket would have been full again.  The defaults of serve keep
\* to it (a ttl of ten minutes, a burst of one second's requests); a large
\* --rate-burst beside a small --rate-limit does not.
RefillsWithinTTL == TTL = 0 \/ TTL * Rate >= Cap

\* What a key could take at this moment.
Level(k) == IF k \in buckets THEN Refilled(k) ELSE Cap

\* "allowing rate requests/second per key with capacity burst": in every window
\* of time a key is admitted at most a full bucket and what flows into one
\* meanwhile, however its bucket was swept and made again in between.
RateBound ==
    (Rate > 0 /\ RefillsWithinTTL) =>
        \A k \in Keys : spent[k] + Level(k) <= Cap + Rate * (clock - since)

\* "retryAfter is the rounded-up time until one token is available": a client
\* that waits as long as it was told finds a token.
RetryAfterSuffices ==
    \A k \in Keys : (promise[k] >= 0 /\ clock >= promise[k]) => Level(k) >= Token
=============================================================================
