--------------------------- MODULE MCEventStream ---------------------------
(***************************************************************************)
(* Instances of EventStream, and what a comment of sse.go claims beyond    *)
(* it.                                                                     *)
(***************************************************************************)
EXTENDS EventStream

\* sse.go: "Subscribe BEFORE the replay snapshot so events emitted during
\* snapshot read are not missed on the live side".  A resuming client would
\* then get every stored event after the one it named.
SeamLosesNothing ==
    \A c \in Clients : from[c] # 0 /\ stream[c] = "live" =>
        \A e \in Resumed(c) \ dropped[c] : Reaches(c, e)
=============================================================================
