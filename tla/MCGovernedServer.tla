-------------------------- MODULE MCGovernedServer --------------------------
EXTENDS GovernedServer, TLC

Req(route, token, addr) == [route |-> route, origin |-> "", preflight |-> FALSE, token |-> token,
                            body |-> "somebody", valid |-> TRUE, addr |-> addr]

(* Access: every configuration with two roles and up to two keys, some of  *)
(* which do not load, the single token and no authentication; every route. *)
Grant(caps, tools) == [capabilities |-> caps, tools |-> tools]
Files ==
    LET grants == {Grant({"run:create"}, {"git"}), Grant({"approve"}, {}), Grant({"*"}, {"*"}),
                   Grant({"run:create", "approve"}, {"git", "db"})}
        key(t, i, rs) == [token |-> t, id |-> i, roles |-> rs]
    IN {[roles |-> [dev |-> g, ops |-> h], keys |-> ks] :
           g \in grants, h \in grants,
           ks \in {<<>>, <<key("t1", "ann", {"dev"}), key("t2", "bob", {"ops"})>>,
                   <<key("t1", "ann", {"dev", "ops"})>>,
                   <<key("t1", "ann", {"dev"}), key("t1", "bob", {"ops"})>>,
                   <<key("t1", "ann", {"none"})>>, <<key("", "ann", {"dev"})>>,
                   <<key("t1", "ann", {}), key("t2", "", {"dev"})>>}}

Srv(auth, file, loopback, origins) ==
    [auth |-> auth, config |-> file, token |-> "t1", loopback |-> loopback, origins |-> origins]

NoFile == [roles |-> [none |-> Grant({}, {})], keys |-> <<>>]

AnyRequest ==
    {Req(route, token, "a") : route \in Routes, token \in {"t1", "t2", "no"}}
    \cup {[Req("create", "t1", "a") EXCEPT !.valid = v, !.preflight = ~v, !.origin = o] :
             v \in BOOLEAN, o \in {"", "good", "bad"}}
    \cup {[Req("create", "t2", "a") EXCEPT !.valid = FALSE]}

ReviewAll == Custom("human", [execute |-> "review", refine |-> "allow"])

AccessOptions ==
    {[srv |-> s, limited |-> FALSE, policies |-> <<ReviewAll, ToolPermission>>, guard |-> FALSE,
      max |-> 1, tools |-> {"git", "db"}, usage |-> {0}, requests |-> AnyRequest] :
        s \in {Srv("keyring", f, l, {"good"}) : f \in Files, l \in BOOLEAN}
              \cup {Srv(a, NoFile, l, {}) : a \in {"token", "none"}, l \in BOOLEAN}}

(* Limiter: two addresses that only read, one that is not counted.         *)
LimiterOptions ==
    {[srv |-> Srv("token", NoFile, FALSE, {}), limited |-> TRUE, policies |-> <<>>,
      guard |-> FALSE, max |-> 1, tools |-> {}, usage |-> {0},
      requests |-> {Req(route, "t1", k) : route \in {"list", "metrics"}, k \in Keys}]}

(* Governance: every list of up to two policies of these, two runs that    *)
(* may make three attempts.                                                *)
Says2(e, f) == [execute |-> e, refine |-> f]
Policies == {Budget(1), RetryLimit(1), RetryLimit(2), DiffSize(1), ToolPermission,
             Custom("a", Says2("review", "allow")), Custom("b", Says2("allow", "review")),
             Custom("c", Says2("allow", "deny")), Custom("d", Says2("deny", "allow")),
             Custom("e", Says2("error", "allow")), Custom("f", Says2("noted", "noted"))}
PolicyLists == {<<>>} \cup {<<p>> : p \in Policies}
                 \cup {<<p, q>> : p \in Policies, q \in Policies}

GovernanceOptions ==
    {[srv |-> Srv("none", NoFile, TRUE, {}), limited |-> FALSE, policies |-> ps,
      guard |-> g, max |-> m, tools |-> {}, usage |-> {0},
      requests |-> {Req(route, "no", "a") : route \in {"healthz", "create", "approve"}}] :
        ps \in PolicyLists, g \in BOOLEAN, m \in {1, 3}}

SymmetricRuns == Permutations(RunIDs)

AllOptions == AccessOptions \cup LimiterOptions \cup GovernanceOptions

(* A ceiling of one token beside attempts that use two. *)
CeilingOptions ==
    {[srv |-> Srv("none", NoFile, TRUE, {}), limited |-> FALSE, policies |-> <<Budget(1)>>,
      guard |-> TRUE, max |-> 3, tools |-> {}, usage |-> {2},
      requests |-> {Req(route, "no", "a") : route \in {"healthz", "create"}}]}
=============================================================================
