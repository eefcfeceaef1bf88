------------------------------- MODULE Pipeline -------------------------------
(***************************************************************************)
(* A request's way through the plugin chain and the dispatcher: who the    *)
(* chain takes it to come from, what the route makes of that, and what the *)
(* upstream is told.                                                        *)
(*                                                                         *)
(* The chain is the configuration's, a sequence of hops.  "cors",          *)
(* "token-validator", "tenant-injector" and "license-check" are plugins;   *)
(* "auth" and "context" are the middlewares of the auth and tenant          *)
(* packages, in the chain that the latter documents.  What a validator, a   *)
(* directory or a license server makes of a request is decided here in one *)
(* step (TokenValidator, TenantInjector and LicenseCheck have the steps);  *)
(* the keys of auth are Auth's, shared by the requests.                     *)
(***************************************************************************)
EXTENDS Dispatcher

CONSTANTS
    Configs,    \* [chain, origins, propagates, jwks, secret]
    Arrivals,   \* functions from Request to what may arrive:
                \* [method, path, header, origin, token]; a token is None or
                \* [good, alg, kid, sub, roles, tenant]
    Options,    \* the method of a preflight
    Directory,  \* the tenant of each principal in the external directory
    Fresh,      \* a generated id
    Kid, Steady

PluginNames == {"cors", "token-validator", "tenant-injector", "license-check"}

\* What the loader composes, or what the tenant package documents.
ASSUME ChainAssumption == \A c \in Configs :
    c.chain \in Seq(PluginNames) \/ c.chain = <<"auth", "context">>
ASSUME ArrivalsAssumption ==
    \A a \in Arrivals, r \in Request : DOMAIN a[r].header = DOMAIN Nobody
ASSUME ConfigAssumption == \A c \in Configs :
    c.propagates \in BOOLEAN /\ c.jwks \in BOOLEAN /\ c.secret \in BOOLEAN
ASSUME SteadyAssumption == Steady \subseteq Kid
ASSUME NoneAssumption == None \notin PluginNames \cup {"auth", "context"}

VARIABLES
    config,   \* what the process was started with
    hop,      \* index of the hop a request has reached
    claims,   \* the principal in reqctx.JWTClaims; None without claims or claim
    proved,   \* are there auth.Claims in the context?
    acao,     \* Access-Control-Allow-Origin is among the response's headers
    stopped,  \* the hop that answered by itself
    keys, fresh, published, call, doc, spoiled   \* of Auth

A == INSTANCE Auth

authVars == <<keys, fresh, published, call, doc, spoiled>>
unchangedByHops == <<req, entry, ctx, recorder, told, metrics, config>>
vars == <<dispatcherVars, config, hop, claims, proved, acao, stopped, authVars>>

InChain(h) == h \in ToSet(config.chain)

\* What Authorization: Bearer carries, and its claims.
Token(r) == req[r].token
HasToken(r) == Token(r) # None
Valid(r) == HasToken(r) /\ Token(r).good

-----------------------------------------------------------------------------
\* NewValidator: the JWKS URL takes precedence, and one of the two must be there.
Validator(c) == CASE c.jwks             -> "RS256"
                  [] ~c.jwks /\ c.secret -> "HS256"
                  [] OTHER               -> None

Boots(c) == "auth" \in ToSet(c.chain) => Validator(c) # None

Init ==
    /\ config \in {c \in Configs : Boots(c)}
    /\ req \in Arrivals
    /\ header = [r \in Request |-> req[r].header]
    /\ actor = [r \in Request |-> Nobody]
    /\ pc = [r \in Request |-> IF config.chain = <<>> THEN "new" ELSE "plugins"]
    /\ hop = [r \in Request |-> 1]
    /\ claims = [r \in Request |-> None]
    /\ proved = [r \in Request |-> FALSE]
    /\ acao = [r \in Request |-> FALSE]
    /\ stopped = [r \in Request |-> None]
    /\ DispatcherInit
    /\ A!Init

AtHop(r, h) == pc[r] = "plugins" /\ config.chain[hop[r]] = h

\* next.ServeHTTP: the next hop, or the dispatcher behind the last.
CallNext(r) ==
    /\ hop' = [hop EXCEPT ![r] = @ + 1]
    /\ pc' = [pc EXCEPT ![r] = IF hop[r] = Len(config.chain) THEN "new" ELSE @]
    /\ UNCHANGED stopped

\* The hop answers, and next is not called.
Answer(r) ==
    /\ pc' = [pc EXCEPT ![r] = "done"]
    /\ stopped' = [stopped EXCEPT ![r] = config.chain[hop[r]]]
    /\ UNCHANGED hop

\* context.WithValue under the keys of reqctx.
WithIdentity(r, who) == actor' = [actor EXCEPT ![r] = who]

-----------------------------------------------------------------------------
(* cors. *)

CrossOrigin(r) == config.origins # {} /\ req[r].origin # None
Listed(r) == req[r].origin \in config.origins

Mark(r) == acao' = [acao EXCEPT ![r] = @ \/ Listed(r)]

Preflight(r) ==
    /\ AtHop(r, "cors") /\ CrossOrigin(r) /\ req[r].method = Options
    /\ Mark(r)
    /\ Answer(r)
    /\ UNCHANGED <<unchangedByHops, header, actor, claims, proved, authVars>>

\* Mutant: the header that lets the origin read is for preflights only.
CorsPassesUnmarked(r) ==
    /\ AtHop(r, "cors") /\ ~(CrossOrigin(r) /\ req[r].method = Options)
    /\ CallNext(r)
    /\ UNCHANGED <<unchangedByHops, header, actor, claims, proved, acao, authVars>>

CorsPasses(r) ==
    /\ AtHop(r, "cors") /\ ~(CrossOrigin(r) /\ req[r].method = Options)
    /\ Mark(r)
    /\ CallNext(r)
    /\ UNCHANGED <<unchangedByHops, header, actor, claims, proved, authVars>>

-----------------------------------------------------------------------------
(* token-validator. *)

\* propagate_claims: everything, or an allowlist that may lack the principal's.
PropagateClaims(r) ==
    claims' = [claims EXCEPT ![r] = IF config.propagates THEN Token(r).sub ELSE None]

TokenPasses(r) ==
    /\ AtHop(r, "token-validator") /\ Valid(r)
    /\ PropagateClaims(r)
    /\ WithIdentity(r,
          [tenant  |-> IF Token(r).tenant # None THEN Token(r).tenant ELSE actor[r].tenant,
           subject |-> Token(r).sub,
           roles   |-> Token(r).roles,
           corr    |-> actor[r].corr,
           id      |-> actor[r].id])
    /\ CallNext(r)
    /\ UNCHANGED <<unchangedByHops, header, proved, acao, authVars>>

TokenRefused(r) ==
    /\ AtHop(r, "token-validator") /\ ~Valid(r)
    /\ Answer(r)
    /\ UNCHANGED <<unchangedByHops, header, actor, claims, proved, acao, authVars>>

-----------------------------------------------------------------------------
(* tenant-injector. *)

\* Mutant: a tenant that came with the request is taken for an injected one.
InjectTenantUnlessThere(r) ==
    /\ AtHop(r, "tenant-injector") /\ claims[r] # None
    /\ Directory[claims[r]] # None
    /\ header' = [header EXCEPT ![r].tenant = IF @ = None THEN Directory[claims[r]] ELSE @]
    /\ CallNext(r)
    /\ UNCHANGED <<unchangedByHops, actor, claims, proved, acao, authVars>>

InjectTenant(r) ==
    /\ AtHop(r, "tenant-injector") /\ claims[r] # None
    /\ Directory[claims[r]] # None
    /\ header' = [header EXCEPT ![r].tenant = Directory[claims[r]]]
    /\ CallNext(r)
    /\ UNCHANGED <<unchangedByHops, actor, claims, proved, acao, authVars>>

\* No claims or no principal; no tenant, a failed lookup, or one not allowed,
\* which may be any request's.  The client's header is gone in each case.
TenantRefused(r) ==
    /\ AtHop(r, "tenant-injector")
    /\ header' = [header EXCEPT ![r].tenant = None]
    /\ Answer(r)
    /\ UNCHANGED <<unchangedByHops, actor, claims, proved, acao, authVars>>

-----------------------------------------------------------------------------
(* license-check: the license header is not the token. *)

LicenseAdmits(r) ==
    /\ AtHop(r, "license-check")
    /\ CallNext(r)
    /\ UNCHANGED <<unchangedByHops, header, actor, claims, proved, acao, authVars>>

LicenseRefuses(r) ==
    /\ AtHop(r, "license-check")
    /\ Answer(r)
    /\ UNCHANGED <<unchangedByHops, header, actor, claims, proved, acao, authVars>>

-----------------------------------------------------------------------------
(* auth.Middleware and tenant.ContextMiddleware. *)

\* The signing method is looked at before any key is.
Verifiable(r) == HasToken(r) /\ Token(r).alg = Validator(config)

AuthAsksKey(r) ==
    /\ AtHop(r, "auth") /\ Verifiable(r) /\ config.jwks
    /\ A!GetKey(r, Token(r).kid)
    /\ UNCHANGED <<unchangedByHops, header, actor, pc, hop, claims, proved, acao, stopped>>

\* The secret is always there.
HasKey(r) == config.jwks => call[r] = "granted"

ExtractClaims(r) == [subject |-> Token(r).sub, roles |-> Token(r).roles]

AuthPasses(r) ==
    /\ AtHop(r, "auth") /\ Verifiable(r) /\ HasKey(r) /\ Token(r).good
    /\ proved' = [proved EXCEPT ![r] = TRUE]
    /\ CallNext(r)
    /\ UNCHANGED <<unchangedByHops, header, actor, claims, acao, authVars>>

AuthRefuses(r) ==
    /\ AtHop(r, "auth")
    /\ \/ ~Verifiable(r)
       \/ config.jwks /\ call[r] = "denied"
       \/ Verifiable(r) /\ HasKey(r) /\ ~Token(r).good
    /\ Answer(r)
    /\ UNCHANGED <<unchangedByHops, header, actor, claims, proved, acao, authVars>>

\* All five are taken over, the tenant from the client's header.
SetContext(r) ==
    /\ AtHop(r, "context")
    /\ WithIdentity(r,
          [tenant  |-> header[r].tenant,
           subject |-> IF proved[r] THEN ExtractClaims(r).subject ELSE None,
           roles   |-> IF proved[r] THEN ExtractClaims(r).roles ELSE {},
           corr    |-> IF header[r].corr = None THEN Fresh ELSE header[r].corr,
           id      |-> Fresh])
    /\ CallNext(r)
    /\ UNCHANGED <<unchangedByHops, header, claims, proved, acao, authVars>>

-----------------------------------------------------------------------------
Hop(r) ==
    \/ Preflight(r) \/ CorsPasses(r)
    \/ TokenPasses(r) \/ TokenRefused(r)
    \/ InjectTenant(r) \/ TenantRefused(r)
    \/ LicenseAdmits(r) \/ LicenseRefuses(r)
    \/ AuthAsksKey(r) \/ AuthPasses(r) \/ AuthRefuses(r) \/ SetContext(r)

\* Behind the chain.
PluginsRest == UNCHANGED <<config, hop, claims, proved, acao, stopped, authVars>>

\* The world of auth's keys, where there is one.
KeysChange ==
    /\ InChain("auth") /\ config.jwks
    /\ A!Expire \/ A!Rotate
    /\ UNCHANGED <<dispatcherVars, config, hop, claims, proved, acao, stopped>>

Next ==
    \/ \E r \in Request : Hop(r)
    \/ PluginsRest /\ \E r \in Request : DispatcherStep(r)
    \/ KeysChange

Spec == Init /\ [][Next]_vars

\* Handlers that can run do, timers fire, the transport returns the context's
\* error (a write that a slow client blocks ends by the server's WriteTimeout).  Of
\* upstreams and clients nothing is assumed.
Fairness == \A r \in Request :
    /\ WF_vars(PluginsRest /\ Proceed(r))
    /\ WF_vars(PluginsRest /\ GiveUp(r))
    /\ WF_vars(PluginsRest /\ Deadline(r))

FairSpec == Spec /\ Fairness

-----------------------------------------------------------------------------
(* Properties. *)

\* What the recorder sees and /metrics counts is a status a route gives: a 404
\* and the plugins' own answers are outside of both.
TypeOK ==
    /\ config \in Configs
    /\ req \in Arrivals
    /\ pc \in [Request -> Ended \cup {"plugins", "new", "entered", "dialing", "failed",
                                      "copying", "handled", "recorded"}]
    /\ \A r \in Request : hop[r] \in 1 .. Len(config.chain) + 1
    /\ entry \in [Request -> 0 .. Len(Routes)]
    /\ ctx \in [Request -> {"live", "canceled", "deadline"}]
    /\ code \in [Request -> Status]
    /\ wrote \in [Request -> BOOLEAN]
    /\ \A r \in Request : DOMAIN header[r] = DOMAIN Nobody /\ DOMAIN actor[r] = DOMAIN Nobody
    /\ counts \in [DOMAIN Routes -> [Status -> Nat]]
    /\ acao \in [Request -> BOOLEAN] /\ proved \in [Request -> BOOLEAN]
    /\ A!TypeOK

Asked(r) == told[r] # None
Authenticates == InChain("token-validator") \/ InChain("auth")

\* What the chain has established of a request, told from how it arrived.
TrueRoles(r) == IF Authenticates THEN Token(r).roles ELSE {}
TrueTenant(r) == CASE InChain("context")         -> req[r].header.tenant
                   [] InChain("token-validator") -> Token(r).tenant
                   [] OTHER                      -> None

IsFirstMatch(r, i) ==
    /\ Routes[i].method = req[r].method /\ MatchPath(Routes[i].path, req[r].path)
    /\ \A j \in 1 .. i - 1 :
          ~(Routes[j].method = req[r].method /\ MatchPath(Routes[j].path, req[r].path))

\* No upstream is asked for a request without a valid token where the chain
\* validates tokens, and none whose token lacks a role of the first route that
\* matches, or a tenant that this route requires, whatever later routes would
\* allow (dispatcher.go:101-108, 256-270, 330-345; tokenvalidator/plugin.go:524-539).
UpstreamOnlyAuthorised == \A r \in Request : Asked(r) =>
    /\ Authenticates => Valid(r)
    /\ \E i \in DOMAIN Routes :
          /\ IsFirstMatch(r, i)
          /\ Routes[i].roles \subseteq TrueRoles(r)
          /\ Routes[i].tenantRequired => TrueTenant(r) # None

\* A standard route's upstream is told the roles and the tenant that the route
\* has checked, whatever headers the request came with (tenant.go:98-113).
ToldAsAuthorised == \A r \in Request : Asked(r) /\ ~RouteOf(r).sse =>
    /\ RouteOf(r).roles # {} => told[r].roles = TrueRoles(r)
    /\ RouteOf(r).tenantRequired => told[r].tenant = TrueTenant(r)

\* Behind the tenant-injector an upstream is told the directory's tenant of the
\* token's principal, or on standard routes the token's own, and never the one
\* the request came with (tenantinjector/plugin.go:282-283, 327-330; tenant.go:101).
TenantIsDerived == \A r \in Request : Asked(r) /\ InChain("tenant-injector") =>
    told[r].tenant = IF RouteOf(r).sse \/ Token(r).tenant = None
                     THEN Directory[Token(r).sub] ELSE Token(r).tenant

\* Where cors comes first, a listed origin may read every answer it gets, the
\* refusals of later plugins and routes included, no other origin may, and no
\* preflight is asked for a token (cors/plugin.go:90-126).
OriginsAnswered ==
    /\ \A r \in Request : acao[r] => Listed(r)
    /\ InChain("cors") /\ config.chain[1] = "cors" => \A r \in Request : pc[r] \in Ended =>
          /\ Listed(r) => acao[r]
          /\ CrossOrigin(r) /\ req[r].method = Options => stopped[r] = "cors"

\* A valid token, signed with a key that has been published all the time, is
\* only refused by auth if a fetch has failed: not by the document that another
\* request fetched, nor by a rotation of the other keys (auth/jwks.go:74-101).
SteadyTokenPasses == \A r \in Request :
    stopped[r] = "auth" /\ Valid(r) /\ Verifiable(r) /\ Token(r).kid \in Steady => spoiled

\* On an audited route the audit log holds an event for every request that
\* /metrics counts, of the same status, but for those between the two; and the
\* log names whom the upstream was told of (dispatcher.go:177-203, 285-290).
AuditMatchesMetrics ==
    /\ \A i \in DOMAIN Routes, s \in Status : Routes[i].audit =>
          counts[i][s] = Cardinality(
              {r \in Request : \/ \E e \in events[r] : e.route = i /\ e.status = s
                               \/ entry[r] = i /\ pc[r] = "recorded" /\ code[r] = s})
    /\ \A r \in Request : Asked(r) /\ ~RouteOf(r).sse => \A e \in events[r] :
          /\ e.subject \in {None, told[r].subject}
          /\ e.tenant \in {None, told[r].tenant}

\* A request on a route with an execution timeout always ends, whatever the
\* upstream does before or after its header (dispatcher.go:239-253).
TimedRequestEnds == \A r \in Request :
    (pc[r] = "dialing" /\ RouteOf(r).timed) ~> pc[r] \in Ended

\* Where the context holds no correlation id, the upstream is told the one that
\* the request came with: headers are only added from context values that are
\* not empty (tenant.go:95-98).
IdsKept == \A r \in Request :
    Asked(r) /\ actor[r].corr = None => told[r].corr = header[r].corr
=============================================================================
