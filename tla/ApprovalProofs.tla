--------------------------- MODULE ApprovalProofs ---------------------------
(***************************************************************************)
(* Proofs about the approval registry, for every set of calls and of       *)
(* resolvers and every assignment of runs to calls.                        *)
(***************************************************************************)
EXTENDS ApprovalRegistry, TLAPS

\* A Resolve about to send finds its channel empty: whatever were in the buffer
\* would come from a Resolve that found the same call and has already sent.
LEMMA EmptyBuffer == ApprovalInvariant => ResolverNeverBlocks
<1> SUFFICES ASSUME ApprovalInvariant,
                    NEW s \in Resolvers, resolve[s] = "sending",
                    chan[target[s]] # None
             PROVE  FALSE
  BY DEF ResolverNeverBlocks, ChannelOf
<1> DEFINE t == chan[target[s]]
<1>1. target[s] \in Calls /\ target[s] # None /\ t \in Resolvers
  BY ApprovalAssumption DEF ApprovalInvariant, TypeOK, Channels
<1>2. target[t] = target[s] /\ resolve[t] = "true"
  BY <1>1 DEF ApprovalInvariant, InTheRightChannel
<1>3. t = s
  BY <1>1, <1>2 DEF ApprovalInvariant, FoundOnce
<1> QED
  BY <1>2, <1>3

LEMMA InitInvariant == Init => ApprovalInvariant
BY ApprovalAssumption DEF Init, ApprovalInvariant, TypeOK, Registered, WaitersAreWaiting,
   FoundOnce, InTheRightChannel, DecisionReachesItsWait, Channels

LEMMA RegisterInvariant ==
    ASSUME ApprovalInvariant, NEW c \in Calls, Register(c)
    PROVE  ApprovalInvariant'
<1> USE ApprovalAssumption DEF ApprovalInvariant
<1>1. TypeOK'
  BY DEF Register, TypeOK
<1>2. Registered'
  BY DEF Register, TypeOK, Registered, FoundOnce
<1>3. WaitersAreWaiting'
  BY DEF Register, TypeOK, WaitersAreWaiting
<1>4. FoundOnce'
  BY DEF Register, TypeOK, FoundOnce
<1>5. InTheRightChannel' /\ DecisionReachesItsWait'
  BY DEF Register, InTheRightChannel, DecisionReachesItsWait
<1> QED BY <1>1, <1>2, <1>3, <1>4, <1>5

LEMMA AlreadyWaitingInvariant ==
    ASSUME ApprovalInvariant, NEW c \in Calls, AlreadyWaiting(c)
    PROVE  ApprovalInvariant'
<1> USE ApprovalAssumption DEF ApprovalInvariant
<1>1. TypeOK'
  BY DEF AlreadyWaiting, TypeOK, Errors
<1>2. Registered' /\ InTheRightChannel'
  BY DEF AlreadyWaiting, Registered, InTheRightChannel
<1>3. WaitersAreWaiting'
  BY DEF AlreadyWaiting, TypeOK, WaitersAreWaiting
<1>4. FoundOnce'
  BY DEF AlreadyWaiting, TypeOK, FoundOnce
<1>5. DecisionReachesItsWait'
  BY DEF AlreadyWaiting, TypeOK, DecisionReachesItsWait, Errors
<1> QED BY <1>1, <1>2, <1>3, <1>4, <1>5

LEMMA ReceiveInvariant ==
    ASSUME ApprovalInvariant, NEW c \in Calls, Receive(c)
    PROVE  ApprovalInvariant'
<1> USE ApprovalAssumption DEF ApprovalInvariant
<1>1. chan[c] \in Resolvers /\ target[chan[c]] = c
  BY DEF Receive, ChannelOf, TypeOK, Channels, InTheRightChannel
<1>2. TypeOK'
  BY <1>1 DEF Receive, ChannelOf, TypeOK
<1>3. Registered'
  BY DEF Receive, Registered
<1>4. WaitersAreWaiting'
  BY <1>1 DEF Receive, TypeOK, WaitersAreWaiting, Registered
<1>5. FoundOnce'
  BY DEF Receive, TypeOK, FoundOnce
<1>6. InTheRightChannel'
  BY DEF Receive, ChannelOf, TypeOK, Channels, InTheRightChannel
<1>7. DecisionReachesItsWait'
  BY <1>1 DEF Receive, ChannelOf, TypeOK, DecisionReachesItsWait
<1> QED BY <1>2, <1>3, <1>4, <1>5, <1>6, <1>7

LEMMA GiveUpInvariant ==
    ASSUME ApprovalInvariant, NEW c \in Calls, GiveUp(c)
    PROVE  ApprovalInvariant'
<1> USE ApprovalAssumption DEF ApprovalInvariant
<1>1. TypeOK'
  BY DEF GiveUp, TypeOK, Errors
<1>2. Registered' /\ InTheRightChannel'
  BY DEF GiveUp, Registered, InTheRightChannel
<1>3. WaitersAreWaiting'
  BY DEF GiveUp, TypeOK, WaitersAreWaiting
<1>4. FoundOnce'
  BY DEF GiveUp, TypeOK, FoundOnce
<1>5. DecisionReachesItsWait'
  BY DEF GiveUp, TypeOK, DecisionReachesItsWait, Errors
<1> QED BY <1>1, <1>2, <1>3, <1>4, <1>5

\* The delete may remove another call's entry, but never leaves a stale one:
\* if the leaving call is still registered, it is under its own run.
LEMMA LeaveInvariant ==
    ASSUME ApprovalInvariant, NEW c \in Calls, Leave(c)
    PROVE  ApprovalInvariant'
<1> USE ApprovalAssumption DEF ApprovalInvariant
<1>1. TypeOK'
  BY DEF Leave, TypeOK
<1>2. Registered'
  BY DEF Leave, TypeOK, Registered
<1>3. WaitersAreWaiting'
  BY DEF Leave, TypeOK, WaitersAreWaiting, Registered
<1>4. FoundOnce'
  BY DEF Leave, TypeOK, FoundOnce
<1>5. InTheRightChannel' /\ DecisionReachesItsWait'
  BY DEF Leave, InTheRightChannel, DecisionReachesItsWait
<1> QED BY <1>1, <1>2, <1>3, <1>4, <1>5

LEMMA ContextDoneInvariant ==
    ASSUME ApprovalInvariant, NEW c \in Calls, ContextDone(c)
    PROVE  ApprovalInvariant'
BY DEF ApprovalInvariant, ContextDone, TypeOK, Registered, WaitersAreWaiting, FoundOnce,
   InTheRightChannel, DecisionReachesItsWait

LEMMA LookupInvariant ==
    ASSUME ApprovalInvariant, NEW s \in Resolvers, NEW r \in RunIDs, Lookup(s, r)
    PROVE  ApprovalInvariant'
<1> USE ApprovalAssumption DEF ApprovalInvariant
<1>1. /\ waiters[r] \in Calls
      /\ \A t \in Resolvers : target[t] # waiters[r]
      /\ call[waiters[r]] # "idle"
  BY DEF Lookup, TypeOK, Registered, WaitersAreWaiting
<1>2. TypeOK'
  BY <1>1 DEF Lookup, TakeWaiter, TypeOK
<1>3. Registered'
  BY DEF Lookup, TakeWaiter, TypeOK, Registered
<1>4. WaitersAreWaiting'
  BY DEF Lookup, TakeWaiter, TypeOK, WaitersAreWaiting
<1>5. FoundOnce'
  BY <1>1 DEF Lookup, TypeOK, FoundOnce
<1>6. InTheRightChannel'
  BY DEF Lookup, TypeOK, Channels, InTheRightChannel
<1>7. DecisionReachesItsWait'
  <2>1. \A c \in Calls : outcome[c] # s
    \* outcome[c] = s would mean target[s] = c already, so s was not idle
    BY DEF Lookup, TypeOK, DecisionReachesItsWait
  <2> QED
    BY <2>1 DEF Lookup, TypeOK, DecisionReachesItsWait
<1> QED BY <1>2, <1>3, <1>4, <1>5, <1>6, <1>7

LEMMA NoWaiterInvariant ==
    ASSUME ApprovalInvariant, NEW s \in Resolvers, NEW r \in RunIDs, NoWaiter(s, r)
    PROVE  ApprovalInvariant'
<1> USE ApprovalAssumption DEF ApprovalInvariant
<1>1. TypeOK'
  BY DEF NoWaiter, TypeOK
<1>2. Registered' /\ WaitersAreWaiting' /\ FoundOnce' /\ DecisionReachesItsWait'
  BY DEF NoWaiter, Registered, WaitersAreWaiting, FoundOnce, DecisionReachesItsWait
<1>3. InTheRightChannel'
  BY DEF NoWaiter, TypeOK, Channels, InTheRightChannel
<1> QED BY <1>1, <1>2, <1>3

LEMMA SendInvariant ==
    ASSUME ApprovalInvariant, NEW s \in Resolvers, Send(s)
    PROVE  ApprovalInvariant'
<1> USE ApprovalAssumption DEF ApprovalInvariant
<1>1. target[s] \in Calls
  BY DEF Send, TypeOK
<1>2. TypeOK'
  BY <1>1 DEF Send, ChannelOf, TypeOK
<1>3. Registered' /\ WaitersAreWaiting' /\ FoundOnce' /\ DecisionReachesItsWait'
  BY DEF Send, Registered, WaitersAreWaiting, FoundOnce, DecisionReachesItsWait
<1>4. InTheRightChannel'
  BY <1>1 DEF Send, ChannelOf, TypeOK, Channels, InTheRightChannel
<1> QED BY <1>2, <1>3, <1>4

\* Every step of the registry preserves the invariant.
THEOREM ApprovalInvariantHolds == Spec => []ApprovalInvariant
<1>1. ApprovalInvariant /\ [Next]_vars => ApprovalInvariant'
  <2> SUFFICES ASSUME ApprovalInvariant, [Next]_vars PROVE ApprovalInvariant'
    OBVIOUS
  <2>1. ASSUME NEW c \in Calls, RequestApproval(c) PROVE ApprovalInvariant'
    BY <2>1, RegisterInvariant, AlreadyWaitingInvariant, ReceiveInvariant,
       GiveUpInvariant, LeaveInvariant DEF RequestApproval
  <2>2. ASSUME NEW c \in Calls, ContextDone(c) PROVE ApprovalInvariant'
    BY <2>2, ContextDoneInvariant
  <2>3. ASSUME NEW s \in Resolvers, Send(s) PROVE ApprovalInvariant'
    BY <2>3, SendInvariant
  <2>4. ASSUME NEW s \in Resolvers, NEW r \in RunIDs, Lookup(s, r) \/ NoWaiter(s, r)
        PROVE  ApprovalInvariant'
    BY <2>4, LookupInvariant, NoWaiterInvariant
  <2>5. ASSUME UNCHANGED vars PROVE ApprovalInvariant'
    BY <2>5 DEF vars, ApprovalInvariant, TypeOK, Registered, WaitersAreWaiting, FoundOnce,
       InTheRightChannel, DecisionReachesItsWait
  <2> QED
    BY <2>1, <2>2, <2>3, <2>4, <2>5 DEF Next, Quiet
<1> QED
  BY InitInvariant, <1>1, PTL DEF Spec

\* A decision ends only the wait it was given for, however many calls share a
\* run and however late the decision arrives.
THEOREM DecisionsAreOwn == Spec => []DecisionReachesItsWait
<1>1. ApprovalInvariant => DecisionReachesItsWait
  BY DEF ApprovalInvariant
<1> QED
  BY ApprovalInvariantHolds, <1>1, PTL

\* Resolve never blocks on its send, whatever the number of concurrent resolvers.
THEOREM SendNeverBlocks == Spec => []ResolverNeverBlocks
BY ApprovalInvariantHolds, EmptyBuffer, PTL

\* The registration of a call that is its run's only one outlives everything but
\* the Resolve that takes it: no other call's deferred delete is for that run.
LEMMA ReachableStep ==
    ASSUME ApprovalInvariant, WaiterReachable, [Next]_vars
    PROVE  WaiterReachable'
<1> SUFFICES ASSUME NEW c \in Calls, call'[c] = "waiting",
                    \A d \in Calls : RunOf[d] = RunOf[c] => d = c
             PROVE  \/ waiters'[RunOf[c]] = c
                    \/ chan'[c] # None
                    \/ \E s \in Resolvers : resolve'[s] = "sending" /\ target'[s] = c
  BY DEF WaiterReachable, ChannelOf
<1> DEFINE Reached == \/ waiters[RunOf[c]] = c
                      \/ chan[c] # None
                      \/ \E s \in Resolvers : resolve[s] = "sending" /\ target[s] = c
<1> USE ApprovalAssumption DEF ApprovalInvariant
<1>0. call[c] = "waiting" => Reached
  BY DEF WaiterReachable, ChannelOf
<1>1. CASE \E d \in Calls : Register(d)
  BY <1>0, <1>1 DEF Register, TypeOK
<1>2. CASE \E d \in Calls : AlreadyWaiting(d) \/ GiveUp(d) \/ Leave(d)
  BY <1>0, <1>2 DEF AlreadyWaiting, GiveUp, Leave, TypeOK
<1>3. CASE \E d \in Calls : Receive(d)
  BY <1>0, <1>3 DEF Receive, ChannelOf, TypeOK, Channels
<1>4. CASE \E d \in Calls : ContextDone(d)
  BY <1>0, <1>4 DEF ContextDone
<1>5. ASSUME NEW s \in Resolvers, NEW r \in RunIDs, Lookup(s, r)
      PROVE  \/ waiters'[RunOf[c]] = c
             \/ chan'[c] # None
             \/ \E t \in Resolvers : resolve'[t] = "sending" /\ target'[t] = c
  <2>1. Reached
    BY <1>0, <1>5 DEF Lookup
  <2>2. CASE waiters[RunOf[c]] = c /\ r = RunOf[c]
    BY <1>5, <2>2 DEF Lookup, TypeOK
  <2>3. CASE waiters[RunOf[c]] = c /\ r # RunOf[c]
    BY <1>5, <2>3 DEF Lookup, TakeWaiter, TypeOK
  <2>4. CASE chan[c] # None
    BY <1>5, <2>4 DEF Lookup
  <2>5. CASE \E t \in Resolvers : resolve[t] = "sending" /\ target[t] = c
    BY <1>5, <2>5 DEF Lookup, TypeOK
  <2> QED BY <2>1, <2>2, <2>3, <2>4, <2>5
<1>6. CASE \E s \in Resolvers : \E r \in RunIDs : NoWaiter(s, r)
  BY <1>0, <1>6 DEF NoWaiter, TypeOK
<1>7. CASE \E s \in Resolvers : Send(s)
  BY <1>0, <1>7 DEF Send, ChannelOf, TypeOK, Channels
<1>8. CASE UNCHANGED vars
  BY <1>0, <1>8 DEF vars
<1> QED
  BY <1>1, <1>2, <1>3, <1>4, <1>5, <1>6, <1>7, <1>8 DEF Next, RequestApproval, Quiet

\* Resolve gets through: its send never blocks, and while a run's only call waits
\* it is registered or its answer is on the way, for any number of calls of other
\* runs and of resolvers.
THEOREM ResolveGetsThrough == Spec => []ResolveReaches
<1>1. Init => WaiterReachable
  BY DEF Init, WaiterReachable
<1>2. ApprovalInvariant /\ WaiterReachable => ResolveReaches
  BY EmptyBuffer DEF ResolveReaches
<1> QED
  BY ApprovalInvariantHolds, ReachableStep, <1>1, <1>2, PTL DEF Spec

\* The map only holds calls in progress.
THEOREM NoStaleWaiter == Spec => []WaitersAreWaiting
<1>1. ApprovalInvariant => WaitersAreWaiting
  BY DEF ApprovalInvariant
<1> QED
  BY ApprovalInvariantHolds, <1>1, PTL
=============================================================================
