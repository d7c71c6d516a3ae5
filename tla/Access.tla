------------------------------- MODULE Access -------------------------------
(***************************************************************************)
(* Who may do what over HTTP: internal/rbac (the configuration file, the   *)
(* keyring, roles and their grants) and the middlewares and gates of       *)
(* internal/server (CORS, authentication, capabilities), as functions of a *)
(* configuration and a request.  Tokens, ids, roles, tools and origins are *)
(* numbers or strings that only matter for being equal; 0 and "" are the   *)
(* empty string.                                                           *)
(***************************************************************************)
EXTENDS Integers, Sequences, FiniteSets

AllCapabilities == {"run:create", "run:read", "run:cancel", "approve", "audit:read"}

\* The capability of each route; healthz and metrics need none.
CapabilityOf == [create |-> "run:create", list |-> "run:read", audit |-> "audit:read",
                 cancel |-> "run:cancel", approve |-> "approve"]

OpenRoutes == {"healthz", "metrics"}
Routes == OpenRoutes \cup DOMAIN CapabilityOf

-----------------------------------------------------------------------------
(* The configuration file: roles, a function from the role names it defines *)
(* to grants, and keys, a sequence of [token, id, roles].                   *)

\* LoadConfig returns a keyring rather than an error.
LoadsConfig(fc) ==
    /\ \A r \in DOMAIN fc.roles : fc.roles[r].capabilities \subseteq AllCapabilities \cup {"*"}
    /\ \A i \in DOMAIN fc.keys :
          /\ fc.keys[i].token # "" /\ fc.keys[i].id # ""
          /\ \A j \in 1..(i - 1) : fc.keys[j].token # fc.keys[i].token
          /\ fc.keys[i].roles \subseteq DOMAIN fc.roles

\* A principal: nobody (no identity in the context), the implicit admin, or
\* the id and roles of a key.
Nobody == [kind |-> "none", id |-> "", roles |-> {}]
AdminPrincipal == [kind |-> "admin", id |-> "admin", roles |-> {}]
PrincipalOf(key) == [kind |-> "key", id |-> key.id, roles |-> key.roles]

\* Lookup: the scan goes on after a match, so the last one counts.
Lookup(fc, token) ==
    LET hits == {i \in DOMAIN fc.keys : fc.keys[i].token = token}
    IN IF hits = {} THEN Nobody
       ELSE PrincipalOf(fc.keys[CHOOSE i \in hits : \A j \in hits : j <= i])

\* RoleSet.Resolve, one dimension of the grant; unknown roles give nothing.
Resolve(fc, p, dimension) ==
    IF p.kind = "admin" THEN {"*"}
    ELSE UNION {fc.roles[r][dimension] : r \in p.roles \cap DOMAIN fc.roles}

Allows(grant, item) == "*" \in grant \/ item \in grant

-----------------------------------------------------------------------------
(* The server: auth is "none", "token" or "keyring".  A request carries a  *)
(* route, an origin ("" for none), whether it is a preflight, and a token. *)

\* serve and runServe refuse to start: a file that does not load, or no
\* authentication on an address that is not loopback.
Starts(srv) ==
    /\ srv.auth = "keyring" => LoadsConfig(srv.config)
    /\ srv.auth = "none" => srv.loopback

\* withCORS answers a preflight of an allowed origin itself.
AnswersPreflight(srv, req) ==
    /\ srv.origins # {} /\ req.origin # "" /\ Allows(srv.origins, req.origin)
    /\ req.preflight

\* withRateLimit lets these through uncounted.
Uncounted(req) == req.route \in OpenRoutes

\* withAuth: the principal it puts in the context.  A keyring supersedes the
\* single token.
Authenticated(srv, req) ==
    CASE srv.auth = "keyring" -> Lookup(srv.config, req.token)
      [] srv.auth = "token" /\ req.token = srv.token -> AdminPrincipal
      [] OTHER -> Nobody

PassesAuth(srv, req) ==
    \/ req.route = "healthz" \/ srv.auth = "none"
    \/ Authenticated(srv, req) # Nobody

\* Mutant: any known key will do.
PassesCapability_AnyKey(srv, req) ==
    srv.auth # "keyring" \/ req.route \in OpenRoutes \/ Authenticated(srv, req) # Nobody

\* requireCapability; without a keyring it is not asked.
PassesCapability(srv, req) ==
    \/ srv.auth # "keyring" \/ req.route \in OpenRoutes
    \/ Allows(Resolve(srv.config, Authenticated(srv, req), "capabilities"),
              CapabilityOf[req.route])

\* handleApproveRun: with a keyring the approver is who was authenticated.
ApproverOf(srv, req) ==
    IF srv.auth = "keyring" THEN Authenticated(srv, req).id ELSE req.body

\* permittedFor and mcpExtraArgs: the enabled MCP servers whose tools the
\* agent of a run may use.
GrantedTools(srv, p, enabled) ==
    IF srv.auth # "keyring" THEN enabled
    ELSE {t \in enabled : Allows(Resolve(srv.config, p, "tools"), t)}

-----------------------------------------------------------------------------
(* What they have to mean, said of the file rather than of the principal.  *)

\* A key with this token has a role that grants the item.
FileGrants(fc, token, dimension, item) ==
    \E i \in DOMAIN fc.keys : /\ fc.keys[i].token = token
                              /\ \E r \in fc.keys[i].roles :
                                    {"*", item} \cap fc.roles[r][dimension] # {}

MayDo(srv, token, capability) ==
    CASE srv.auth = "keyring" -> FileGrants(srv.config, token, "capabilities", capability)
      [] srv.auth = "token" -> token = srv.token
      [] OTHER -> srv.loopback
=============================================================================
