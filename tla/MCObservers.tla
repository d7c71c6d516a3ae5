---------------------------- MODULE MCObservers ----------------------------
EXTENDS Observers

SymmetricRuns == Permutations(RunIDs)

\* Durations of 0 and 2 beside buckets up to 0 and 1, and a clock set back.
TwoBounds == <<0, 1>>
Ends == {0, 1, 3}

\* They share nothing, so one at a time.
OneEach == {{"cache"}, {"metrics"}}
=============================================================================
