---------------------------- MODULE PipelineProofs ----------------------------
(***************************************************************************)
(* Proofs about Pipeline, for any routes, tokens, arrivals and number of   *)
(* requests, and any chain that the loader composes or the tenant package  *)
(* documents: who reaches an upstream and what it is told of them, who may  *)
(* read an answer, which tenant an upstream is told of behind the           *)
(* tenant-injector, the types, auth's keys, and the audit's account.        *)
(*                                                                         *)
(* What a request's context holds follows from the hops that it has passed *)
(* (Known).  When it has passed them all, that is what the chain has        *)
(* established (Established), and the route's checks are about it; what     *)
(* follows for the upstream no later step can disturb, since it speaks of  *)
(* the request as it arrived (Cleared).                                     *)
(***************************************************************************)
EXTENDS Pipeline, FiniteSetTheorems, TLAPS

Behind == {"dialing", "failed", "copying", "handled", "recorded", "done", "aborted"}

\* Has the request passed the token-validator?
Validated(r) == \E i \in 1 .. hop[r] - 1 : config.chain[i] = "token-validator"

KnownByPlugins(r) ==
    IF Validated(r)
    THEN Valid(r) /\ actor[r].roles = Token(r).roles /\ actor[r].tenant = Token(r).tenant
    ELSE actor[r].roles = {} /\ actor[r].tenant = None

KnownByAuth(r) ==
    /\ header[r] = req[r].header
    /\ hop[r] >= 2 => Valid(r) /\ proved[r]
    /\ hop[r] >= 3 => actor[r].roles = Token(r).roles /\ actor[r].tenant = req[r].header.tenant

AuthChain == <<"auth", "context">>

Known(r) ==
    /\ config.chain \in Seq(PluginNames) => KnownByPlugins(r)
    /\ config.chain = AuthChain => KnownByAuth(r)

\* What the chain as a whole says of a request is in its context.
Established(r) ==
    /\ Authenticates => Valid(r)
    /\ actor[r].roles = TrueRoles(r)
    /\ actor[r].tenant = TrueTenant(r)

\* What the two properties say of a request that the upstream was asked for.
Admitted(r) ==
    /\ Authenticates => Valid(r)
    /\ \E i \in DOMAIN Routes :
          /\ IsFirstMatch(r, i)
          /\ Routes[i].roles \subseteq TrueRoles(r)
          /\ Routes[i].tenantRequired => TrueTenant(r) # None

ToldWhatIsTrue(r) == ~RouteOf(r).sse =>
    /\ RouteOf(r).roles # {} => told[r].roles = TrueRoles(r)
    /\ RouteOf(r).tenantRequired => told[r].tenant = TrueTenant(r)

Cleared(r) == Admitted(r) /\ ToldWhatIsTrue(r)

RInv(r) ==
    /\ hop[r] \in 1 .. Len(config.chain) + 1
    /\ pc[r] = "plugins" => hop[r] <= Len(config.chain)
    /\ pc[r] \in {"new", "entered"} => hop[r] = Len(config.chain) + 1
    /\ pc[r] = "entered" => entry[r] = MatchEntry(r) /\ entry[r] # 0
    /\ Known(r)
    /\ Asked(r) => pc[r] \in Behind /\ Cleared(r)

Shape ==
    /\ config \in Configs
    /\ DOMAIN hop = Request /\ DOMAIN pc = Request /\ DOMAIN entry = Request
    /\ DOMAIN header = Request /\ DOMAIN actor = Request
    /\ DOMAIN proved = Request /\ DOMAIN told = Request

IInv == Shape /\ \A r \in Request : RInv(r)

-----------------------------------------------------------------------------
(* The first match. *)

Matches(r, i) == Routes[i].method = req[r].method /\ MatchPath(Routes[i].path, req[r].path)

LEMMA RoutesLength ==
    Len(Routes) \in Nat /\ DOMAIN Routes = 1 .. Len(Routes)
BY RoutesAssumption

LEMMA LeastOfNaturals ==
    ASSUME NEW S \in SUBSET Nat, S # {}
    PROVE  Min(S) \in S /\ \A m \in S : Min(S) <= m
<1> DEFINE R == {ss \in Nat \X Nat : ss[1] < ss[2]}
<1>1. IsWellFoundedOn(R, Nat)
  BY NatLessThanWellFounded DEF OpToRel
<1>2. PICK n \in S : \A m \in S : <<m, n>> \notin R
  <2> HIDE DEF R
  <2> QED
    BY <1>1, WFMin
<1>3. ASSUME NEW m \in S
      PROVE  n <= m
  <2>1. m \in Nat /\ n \in Nat
    OBVIOUS
  <2>2. <<m, n>> \in Nat \X Nat
    BY <2>1
  <2>3. <<m, n>>[1] = m /\ <<m, n>>[2] = n
    OBVIOUS
  <2>4. ~(m < n)
    BY <1>2, <2>2, <2>3, Zenon
  <2> QED
    BY <2>1, <2>4
<1> QED
  BY <1>3 DEF Min

LEMMA FirstMatch ==
    ASSUME NEW r \in Request, MatchEntry(r) # 0
    PROVE  MatchEntry(r) \in DOMAIN Routes /\ IsFirstMatch(r, MatchEntry(r))
<1> DEFINE S == {i \in 1 .. Len(Routes) : Matches(r, i)}
           n == Min(S)
<1>1. S # {} /\ MatchEntry(r) = n
  BY DEF MatchEntry, SelectInSeq, Matches
<1>2. S \in SUBSET Nat
  BY RoutesLength
<1>3. n \in S /\ \A m \in S : n <= m
  <2> HIDE DEF S
  <2> QED
    BY <1>1, <1>2, LeastOfNaturals
<1>4. n \in 1 .. Len(Routes) /\ Matches(r, n)
  BY <1>3
<1>5. ASSUME NEW j \in 1 .. n - 1
      PROVE  ~Matches(r, j)
  <2> HIDE DEF n
  <2> QED
    BY <1>3, <1>4, RoutesLength
<1> HIDE DEF S, n
<1> QED
  BY <1>1, <1>4, <1>5, RoutesLength DEF IsFirstMatch, Matches

-----------------------------------------------------------------------------
(* What stays. *)

\* Which route is the first match depends on the request as it arrived.
LEMMA MatchStays ==
    ASSUME NEW r \in Request, req' = req
    PROVE  /\ MatchEntry(r)' = MatchEntry(r)
           /\ \A i : IsFirstMatch(r, i)' = IsFirstMatch(r, i)
BY DEF MatchEntry, SelectInSeq, IsFirstMatch

LEMMA ClearedStays ==
    ASSUME NEW r \in Request, Cleared(r), config' = config, req' = req,
           entry'[r] = entry[r], told'[r] = told[r]
    PROVE  Cleared(r)'
<1>1. /\ Authenticates' = Authenticates /\ Valid(r)' = Valid(r)
      /\ TrueRoles(r)' = TrueRoles(r) /\ TrueTenant(r)' = TrueTenant(r)
  BY DEF Authenticates, InChain, Valid, HasToken, Token, TrueRoles, TrueTenant
<1>2. RouteOf(r)' = RouteOf(r)
  BY DEF RouteOf
<1> QED
  BY <1>1, <1>2, MatchStays DEF Cleared, Admitted, ToldWhatIsTrue

LEMMA KnownStays ==
    ASSUME NEW r \in Request, Known(r), config' = config, req' = req,
           hop'[r] = hop[r], actor'[r] = actor[r], proved'[r] = proved[r],
           config.chain = AuthChain => header'[r] = header[r]
    PROVE  Known(r)'
BY DEF Known, KnownByPlugins, KnownByAuth, Validated, Valid, HasToken, Token

\* A step that leaves a request where it is, or takes it further behind the
\* chain without asking its upstream.
LEMMA Later ==
    ASSUME NEW r \in Request, RInv(r), config' = config, req' = req,
           hop'[r] = hop[r], actor'[r] = actor[r], proved'[r] = proved[r],
           config.chain = AuthChain => header'[r] = header[r],
           entry'[r] = entry[r], told'[r] = told[r],
           pc'[r] = pc[r] \/ pc'[r] \in Behind
    PROVE  RInv(r)'
<1>1. Known(r)'
  BY KnownStays DEF RInv
<1>2. MatchEntry(r)' = MatchEntry(r)
  BY MatchStays
<1>3. Asked(r)' => Cleared(r)'
  BY ClearedStays DEF RInv, Asked
<1> QED
  BY <1>1, <1>2, <1>3 DEF RInv, Behind, Asked

-----------------------------------------------------------------------------
(* Behind the chain. *)

\* Chains as the constants' assumption has them.
LEMMA ChainKinds ==
    ASSUME config \in Configs
    PROVE  /\ config.chain \in Seq(PluginNames) \/ config.chain = AuthChain
           /\ Len(config.chain) \in Nat /\ DOMAIN config.chain = 1 .. Len(config.chain)
BY ChainAssumption DEF AuthChain

\* Whoever has passed all hops comes with what the chain establishes.
LEMMA Passed ==
    ASSUME NEW r \in Request, config \in Configs, Known(r), hop[r] = Len(config.chain) + 1
    PROVE  Established(r)
<1>1. /\ config.chain \in Seq(PluginNames) \/ config.chain = AuthChain
      /\ Len(config.chain) \in Nat /\ DOMAIN config.chain = 1 .. Len(config.chain)
  BY ChainKinds
<1>2. CASE config.chain \in Seq(PluginNames)
  <2>1. \A i \in 1 .. Len(config.chain) : config.chain[i] \in PluginNames
    BY <1>2
  <2>2. ~InChain("auth") /\ ~InChain("context")
    BY <1>1, <2>1 DEF InChain, ToSet, PluginNames
  <2>3. InChain("token-validator") <=> Validated(r)
    BY <1>1 DEF InChain, ToSet, Validated
  <2>4. KnownByPlugins(r)
    BY <1>2 DEF Known
  <2> QED
    BY <2>2, <2>3, <2>4 DEF KnownByPlugins, Established, Authenticates, TrueRoles, TrueTenant
<1>3. CASE config.chain = AuthChain
  <2>1. Len(config.chain) = 2 /\ config.chain[1] = "auth" /\ config.chain[2] = "context"
    BY <1>3 DEF AuthChain
  <2>2. InChain("auth") /\ InChain("context") /\ ~InChain("token-validator")
    BY <1>1, <2>1 DEF InChain, ToSet
  <2>3. KnownByAuth(r)
    BY <1>3 DEF Known
  <2>4. hop[r] = 3
    BY <2>1
  <2>5. /\ Valid(r)
        /\ actor[r].roles = Token(r).roles /\ actor[r].tenant = req[r].header.tenant
    BY <2>3, <2>4 DEF KnownByAuth
  <2>6. Authenticates /\ TrueRoles(r) = Token(r).roles
    BY <2>2 DEF Authenticates, TrueRoles
  <2>7. TrueTenant(r) = req[r].header.tenant
    BY <2>2 DEF TrueTenant
  <2> QED
    BY <2>5, <2>6, <2>7 DEF Established
<1> QED
  BY <1>1, <1>2, <1>3

\* The upstream is asked for whom the route's checks have let pass.
LEMMA ProxyKeeps ==
    ASSUME NEW r \in Request, Shape, RInv(r), PluginsRest, Proxy(r)
    PROVE  RInv(r)'
<1>1. /\ config' = config /\ req' = req /\ hop' = hop /\ actor' = actor
      /\ header' = header /\ proved' = proved /\ entry' = entry
      /\ pc[r] = "entered" /\ pc'[r] = "dialing"
      /\ told'[r] = UpstreamHeaders(r)
  BY DEF PluginsRest, Proxy, Goto, Shape, identity
<1>2. Established(r) /\ Known(r)
  BY <1>1, Passed DEF RInv, Shape
<1>3. Known(r)'
  BY <1>1, <1>2, KnownStays
<1>4. /\ entry[r] = MatchEntry(r) /\ MatchEntry(r) \in DOMAIN Routes
      /\ IsFirstMatch(r, MatchEntry(r))
  BY <1>1, FirstMatch DEF RInv
<1>5. Admitted(r)
  BY <1>2, <1>4 DEF Proxy, Allowed, RouteOf, Established, Admitted
<1>6. ~RouteOf(r).sse => UpstreamHeaders(r) = InjectUpstreamHeaders(header[r], actor[r])
  BY DEF UpstreamHeaders
<1>7. ~RouteOf(r).sse =>
        /\ RouteOf(r).roles # {} => told'[r].roles = TrueRoles(r)
        /\ RouteOf(r).tenantRequired => told'[r].tenant = TrueTenant(r)
  <2>1. /\ InjectUpstreamHeaders(header[r], actor[r]).roles
              = IF actor[r].roles # {} THEN actor[r].roles ELSE header[r].roles
        /\ InjectUpstreamHeaders(header[r], actor[r]).tenant
              = IF actor[r].tenant # None THEN actor[r].tenant ELSE header[r].tenant
    BY DEF InjectUpstreamHeaders
  <2>2. RouteOf(r).roles \subseteq actor[r].roles
    BY DEF Proxy, Allowed
  <2>3. RouteOf(r).tenantRequired => actor[r].tenant # None
    BY DEF Proxy, Allowed
  <2> QED
    BY <1>1, <1>2, <1>6, <2>1, <2>2, <2>3 DEF Established
<1>8. /\ Authenticates' = Authenticates /\ Valid(r)' = Valid(r)
      /\ TrueRoles(r)' = TrueRoles(r) /\ TrueTenant(r)' = TrueTenant(r)
      /\ RouteOf(r)' = RouteOf(r)
  BY <1>1 DEF Authenticates, InChain, Valid, HasToken, Token, TrueRoles, TrueTenant, RouteOf
<1>9. Cleared(r)'
  BY <1>1, <1>5, <1>7, <1>8, MatchStays DEF Cleared, Admitted, ToldWhatIsTrue
<1> QED
  BY <1>1, <1>3, <1>9 DEF RInv, Behind

\* Every other step of the dispatcher.
LEMMA DispatcherKeeps ==
    ASSUME NEW r \in Request, NEW q \in Request, Shape, RInv(q),
           PluginsRest, DispatcherStep(r)
    PROVE  RInv(q)'
<1>1. /\ config' = config /\ req' = req /\ hop' = hop /\ actor' = actor
      /\ header' = header /\ proved' = proved
  BY DEF PluginsRest, DispatcherStep, Match, NotFound, Proceed, Forbid, Busy, Refuse, Proxy,
         HandleError, Record, Audit, Inform, UpstreamAnswers, RoundTripFails, CopyEnds,
         CopyBreaks, Disconnect, Deadline, identity
<1>2. CASE Proxy(r)
  <2>1. CASE q = r
    BY <2>1, <1>2, ProxyKeeps
  <2>2. CASE q # r
    <3>1. told'[q] = told[q] /\ pc'[q] = pc[q] /\ entry' = entry
      BY <1>2, <2>2 DEF Proxy, Goto, Shape
    <3> QED
      BY <1>1, <3>1, Later
  <2> QED
    BY <2>1, <2>2
<1>3. CASE Match(r)
  <2>1. told' = told
    BY <1>3 DEF Match
  <2>2. CASE q = r
    <3>1. /\ pc[r] = "new" /\ pc'[r] = "entered"
          /\ entry'[r] = MatchEntry(r) /\ MatchEntry(r) # 0
      BY <1>3 DEF Match, Goto, Shape
    <3>2. ~Asked(r) /\ told'[r] = told[r]
      BY <2>1, <2>2, <3>1 DEF RInv, Behind
    <3>3. Known(r)'
      BY <1>1, <2>2, KnownStays DEF RInv
    <3>4. MatchEntry(r)' = MatchEntry(r)
      BY <1>1, MatchStays
    <3> QED
      BY <1>1, <2>2, <3>1, <3>2, <3>3, <3>4 DEF RInv, Asked
  <2>3. CASE q # r
    <3>1. entry'[q] = entry[q] /\ pc'[q] = pc[q]
      BY <1>3, <2>3 DEF Match, Goto, Shape
    <3> QED
      BY <1>1, <2>1, <3>1, Later
  <2> QED
    BY <2>2, <2>3
<1>4. CASE ~Proxy(r) /\ ~Match(r)
  <2>1. told' = told /\ entry' = entry
    BY <1>4 DEF DispatcherStep, NotFound, Proceed, Forbid, Busy, Refuse,
       HandleError, Record, Audit, Inform, UpstreamAnswers, RoundTripFails, CopyEnds,
       CopyBreaks, Disconnect, Deadline
  <2>2. pc'[q] = pc[q] \/ pc'[q] \in Behind
    BY <1>4 DEF DispatcherStep, NotFound, Proceed, Forbid, Busy, Refuse, Goto, Shape, Behind,
       HandleError, Record, Audit, Inform, UpstreamAnswers, RoundTripFails, CopyEnds,
       CopyBreaks, Disconnect, Deadline
  <2> QED
    BY <1>1, <2>1, <2>2, Later
<1> QED
  BY <1>2, <1>3, <1>4

-----------------------------------------------------------------------------
(* Along the chain. *)

\* The hop that a request has reached is a plugin or a middleware, and tells
\* which of the two kinds of chain it is in.
LEMMA HopKinds ==
    ASSUME NEW r \in Request, config \in Configs, hop[r] \in 1 .. Len(config.chain)
    PROVE  /\ config.chain[hop[r]] \in PluginNames
              => config.chain \in Seq(PluginNames) /\ config.chain # AuthChain
           /\ config.chain[hop[r]] = "auth" => config.chain = AuthChain /\ hop[r] = 1
           /\ config.chain[hop[r]] = "context" => config.chain = AuthChain /\ hop[r] = 2
           /\ config.chain = AuthChain => config.chain \notin Seq(PluginNames)
<1>1. config.chain \in Seq(PluginNames) \/ config.chain = AuthChain
  BY ChainKinds
<1>2. CASE config.chain \in Seq(PluginNames)
  <2>1. \A i \in 1 .. Len(config.chain) : config.chain[i] \in PluginNames
    BY <1>2
  <2>2. AuthChain[1] = "auth" /\ Len(AuthChain) = 2
    BY DEF AuthChain
  <2> QED
    BY <1>2, <2>1, <2>2 DEF PluginNames
<1>3. CASE config.chain = AuthChain
  <2>1. Len(config.chain) = 2 /\ config.chain[1] = "auth" /\ config.chain[2] = "context"
    BY <1>3 DEF AuthChain
  <2>2. config.chain \notin Seq(PluginNames)
    BY <2>1 DEF PluginNames
  <2> QED
    BY <1>3, <2>1, <2>2 DEF PluginNames
<1> QED
  BY <1>1, <1>2, <1>3

\* A step to the next hop: what matters is what the context then holds.
LEMMA Onward ==
    ASSUME NEW r \in Request, Shape, RInv(r), pc[r] = "plugins", CallNext(r),
           config' = config, told' = told, Known(r)'
    PROVE  RInv(r)'
<1>1. /\ hop'[r] = hop[r] + 1
      /\ pc'[r] = IF hop[r] = Len(config.chain) THEN "new" ELSE "plugins"
  BY DEF CallNext, Shape
<1>2. ~Asked(r)
  BY DEF RInv, Behind
<1>3. Len(config.chain) \in Nat /\ hop[r] \in 1 .. Len(config.chain)
  BY ChainKinds DEF RInv, Shape
<1> QED
  BY <1>1, <1>2, <1>3 DEF RInv, Asked

\* cors, the tenant-injector and the license-check add nothing to the context.
LEMMA PassingKeeps ==
    ASSUME NEW r \in Request, Shape, RInv(r),
           CorsPasses(r) \/ InjectTenant(r) \/ LicenseAdmits(r)
    PROVE  RInv(r)'
<1>1. /\ config' = config /\ req' = req /\ told' = told /\ actor' = actor
      /\ pc[r] = "plugins" /\ CallNext(r)
      /\ config.chain[hop[r]] \in PluginNames
      /\ config.chain[hop[r]] # "token-validator"
  BY DEF CorsPasses, InjectTenant, LicenseAdmits, AtHop, unchangedByHops, PluginNames
<1>2. hop[r] \in 1 .. Len(config.chain) /\ Len(config.chain) \in Nat /\ config \in Configs
  BY <1>1, ChainKinds DEF RInv, Shape
<1>3. config.chain \in Seq(PluginNames) /\ config.chain # AuthChain
  BY <1>1, <1>2, HopKinds
<1>4. hop'[r] = hop[r] + 1
  BY <1>1 DEF CallNext, Shape
<1>5. Validated(r)' <=> Validated(r)
  BY <1>1, <1>2, <1>4 DEF Validated
<1>6. Known(r)'
  BY <1>1, <1>3, <1>5 DEF RInv, Known, KnownByPlugins, Valid, HasToken, Token
<1> QED
  BY <1>1, <1>6, Onward

LEMMA TokenPassesKeeps ==
    ASSUME NEW r \in Request, Shape, RInv(r), TokenPasses(r)
    PROVE  RInv(r)'
<1>1. /\ config' = config /\ req' = req /\ told' = told
      /\ pc[r] = "plugins" /\ CallNext(r) /\ Valid(r)
      /\ config.chain[hop[r]] = "token-validator"
  BY DEF TokenPasses, AtHop, unchangedByHops
<1>2. hop[r] \in 1 .. Len(config.chain) /\ Len(config.chain) \in Nat /\ config \in Configs
  BY <1>1, ChainKinds DEF RInv, Shape
<1>3. config.chain \in Seq(PluginNames) /\ config.chain # AuthChain
  BY <1>1, <1>2, HopKinds DEF PluginNames
<1>4. hop'[r] = hop[r] + 1
  BY <1>1 DEF CallNext, Shape
<1>5. Validated(r)'
  BY <1>1, <1>2, <1>4 DEF Validated
<1>6. /\ actor'[r].roles = Token(r).roles
      /\ actor'[r].tenant = IF Token(r).tenant # None THEN Token(r).tenant ELSE actor[r].tenant
  BY DEF TokenPasses, WithIdentity, Shape
<1>7. actor[r].tenant \in {None, Token(r).tenant}
  BY <1>3 DEF RInv, Known, KnownByPlugins
<1>8. Known(r)'
  BY <1>1, <1>3, <1>5, <1>6, <1>7 DEF Known, KnownByPlugins, Valid, HasToken, Token
<1> QED
  BY <1>1, <1>8, Onward

LEMMA AuthPassesKeeps ==
    ASSUME NEW r \in Request, Shape, RInv(r), AuthPasses(r)
    PROVE  RInv(r)'
<1>1. /\ config' = config /\ req' = req /\ told' = told /\ header' = header
      /\ pc[r] = "plugins" /\ CallNext(r) /\ Valid(r)
      /\ config.chain[hop[r]] = "auth"
      /\ proved'[r]
  BY DEF AuthPasses, AtHop, unchangedByHops, Valid, Verifiable, Shape
<1>2. hop[r] \in 1 .. Len(config.chain) /\ config \in Configs
  BY <1>1, ChainKinds DEF RInv, Shape
<1>3. config.chain = AuthChain /\ config.chain \notin Seq(PluginNames) /\ hop[r] = 1
  BY <1>1, <1>2, HopKinds
<1>4. hop'[r] = 2
  BY <1>1, <1>3 DEF CallNext, Shape
<1>5. Known(r)'
  BY <1>1, <1>3, <1>4 DEF RInv, Known, KnownByAuth, Valid, HasToken, Token
<1> QED
  BY <1>1, <1>5, Onward

LEMMA SetContextKeeps ==
    ASSUME NEW r \in Request, Shape, RInv(r), SetContext(r)
    PROVE  RInv(r)'
<1>1. /\ config' = config /\ req' = req /\ told' = told /\ header' = header
      /\ proved' = proved /\ pc[r] = "plugins" /\ CallNext(r)
      /\ config.chain[hop[r]] = "context"
  BY DEF SetContext, AtHop, unchangedByHops
<1>2. hop[r] \in 1 .. Len(config.chain) /\ config \in Configs
  BY <1>1, ChainKinds DEF RInv, Shape
<1>3. config.chain = AuthChain /\ config.chain \notin Seq(PluginNames) /\ hop[r] = 2
  BY <1>1, <1>2, HopKinds
<1>4. hop'[r] = 3
  BY <1>1, <1>3 DEF CallNext, Shape
<1>5. header[r] = req[r].header /\ Valid(r) /\ proved[r]
  BY <1>3 DEF RInv, Known, KnownByAuth
<1>6. /\ actor'[r].tenant = header[r].tenant
      /\ actor'[r].roles = IF proved[r] THEN ExtractClaims(r).roles ELSE {}
  BY DEF SetContext, WithIdentity, Shape
<1>7. actor'[r].roles = Token(r).roles
  BY <1>5, <1>6 DEF ExtractClaims
<1>8. Known(r)'
  BY <1>1, <1>3, <1>4, <1>5, <1>6, <1>7 DEF Known, KnownByAuth, Valid, HasToken, Token
<1> QED
  BY <1>1, <1>8, Onward

\* The chain's steps, for the request that takes one and for every other.
LEMMA HopKeeps ==
    ASSUME NEW r \in Request, NEW q \in Request, Shape, RInv(q), Hop(r)
    PROVE  RInv(q)'
<1>1. config' = config /\ req' = req /\ told' = told /\ entry' = entry
  BY DEF Hop, Preflight, CorsPasses, TokenPasses, TokenRefused, InjectTenant, TenantRefused,
         LicenseAdmits, LicenseRefuses, AuthAsksKey, AuthPasses, AuthRefuses, SetContext,
         unchangedByHops
<1>2. CASE q # r
  <2>1. /\ hop'[q] = hop[q] /\ pc'[q] = pc[q]
    BY <1>2 DEF Hop, Preflight, CorsPasses, TokenPasses, TokenRefused, InjectTenant,
       TenantRefused, LicenseAdmits, LicenseRefuses, AuthAsksKey, AuthPasses, AuthRefuses,
       SetContext, CallNext, Answer, Shape
  <2>2. actor'[q] = actor[q] /\ header'[q] = header[q] /\ proved'[q] = proved[q]
    BY <1>2 DEF Hop, Preflight, CorsPasses, TokenPasses, TokenRefused, InjectTenant,
       TenantRefused, LicenseAdmits, LicenseRefuses, AuthAsksKey, AuthPasses, AuthRefuses,
       SetContext, WithIdentity, Shape
  <2> QED
    BY <1>1, <2>1, <2>2, Later
<1>3. CASE q = r /\ (CorsPasses(r) \/ InjectTenant(r) \/ LicenseAdmits(r))
  BY <1>3, PassingKeeps
<1>4. CASE q = r /\ (TokenPasses(r) \/ AuthPasses(r) \/ SetContext(r))
  BY <1>4, TokenPassesKeeps, AuthPassesKeeps, SetContextKeeps
<1>5. CASE q = r /\ TenantRefused(r)
  <2>1. pc[r] = "plugins" /\ config.chain[hop[r]] = "tenant-injector"
    BY <1>5 DEF TenantRefused, AtHop
  <2>2. hop[r] \in 1 .. Len(config.chain)
    BY <1>5, <2>1, ChainKinds DEF RInv, Shape
  <2>3. config.chain # AuthChain
    BY <2>1, <2>2, HopKinds DEF Shape, PluginNames
  <2>4. /\ hop' = hop /\ actor' = actor /\ proved' = proved /\ pc'[r] = "done"
    BY <1>5 DEF TenantRefused, Answer, Shape
  <2> QED
    BY <1>1, <1>5, <2>3, <2>4, Later DEF Behind
<1>6. CASE q = r /\ (Preflight(r) \/ TokenRefused(r) \/ LicenseRefuses(r) \/ AuthRefuses(r))
  <2>1. hop' = hop /\ actor' = actor /\ proved' = proved /\ header' = header /\ pc'[r] = "done"
    BY <1>6 DEF Preflight, TokenRefused, LicenseRefuses, AuthRefuses, Answer, Shape
  <2> QED
    BY <1>1, <1>6, <2>1, Later DEF Behind
<1>7. CASE q = r /\ AuthAsksKey(r)
  BY <1>1, <1>7, Later DEF AuthAsksKey
<1> QED
  BY <1>2, <1>3, <1>4, <1>5, <1>6, <1>7 DEF Hop

-----------------------------------------------------------------------------
(* The invariant. *)

LEMMA ShapeKept ==
    ASSUME Shape, [Next]_vars
    PROVE  Shape'
<1>1. CASE UNCHANGED vars
  BY <1>1 DEF vars, dispatcherVars, identity, Shape
<1>2. ASSUME NEW r \in Request, Hop(r)
      PROVE  Shape'
  BY <1>2 DEF Hop, Preflight, CorsPasses, TokenPasses, TokenRefused, InjectTenant,
     TenantRefused, LicenseAdmits, LicenseRefuses, AuthAsksKey, AuthPasses, AuthRefuses,
     SetContext, CallNext, Answer, WithIdentity, unchangedByHops, Shape
<1>3. ASSUME NEW r \in Request, PluginsRest, DispatcherStep(r)
      PROVE  Shape'
  BY <1>3 DEF PluginsRest, DispatcherStep, Match, NotFound, Proceed, Forbid, Busy, Refuse,
     Proxy, HandleError, Record, Audit, Inform, UpstreamAnswers, RoundTripFails, CopyEnds,
     CopyBreaks, Disconnect, Deadline, identity, Goto, Shape
<1>4. CASE KeysChange
  BY <1>4 DEF KeysChange, dispatcherVars, identity, Shape
<1> QED
  BY <1>1, <1>2, <1>3, <1>4 DEF Next

LEMMA InitEstablishes == Init => IInv
<1> SUFFICES ASSUME Init
             PROVE  IInv
  OBVIOUS
<1>1. Shape
  BY DEF Init, DispatcherInit, Shape
<1> SUFFICES ASSUME NEW r \in Request
             PROVE  RInv(r)
  BY <1>1 DEF IInv
<1>2. Len(config.chain) \in Nat /\ (config.chain = <<>> <=> Len(config.chain) = 0)
  BY <1>1, ChainKinds, ChainAssumption DEF Shape
<1>3. /\ hop[r] = 1 /\ told[r] = None
      /\ pc[r] = IF config.chain = <<>> THEN "new" ELSE "plugins"
      /\ actor[r] = Nobody /\ header[r] = req[r].header
  BY DEF Init, DispatcherInit
<1>4. KnownByPlugins(r)
  BY <1>3 DEF KnownByPlugins, Validated, Nobody
<1>5. KnownByAuth(r)
  BY <1>3 DEF KnownByAuth
<1> QED
  BY <1>2, <1>3, <1>4, <1>5 DEF RInv, Known, Asked

LEMMA NextKeeps == IInv /\ [Next]_vars => IInv'
<1> SUFFICES ASSUME IInv, [Next]_vars, NEW q \in Request
             PROVE  RInv(q)'
  BY ShapeKept DEF IInv
<1> USE DEF IInv
<1>1. CASE UNCHANGED vars
  BY <1>1, Later DEF vars, dispatcherVars, identity
<1>2. ASSUME NEW r \in Request, Hop(r)
      PROVE  RInv(q)'
  BY <1>2, HopKeeps
<1>3. ASSUME NEW r \in Request, PluginsRest, DispatcherStep(r)
      PROVE  RInv(q)'
  BY <1>3, DispatcherKeeps
<1>4. CASE KeysChange
  BY <1>4, Later DEF KeysChange, dispatcherVars, identity
<1> QED
  BY <1>1, <1>2, <1>3, <1>4 DEF Next

LEMMA Invariant == Spec => []IInv
BY InitEstablishes, NextKeeps, PTL DEF Spec

\* No upstream is asked for a request without a valid token where the chain
\* validates tokens, and none that the first matching route's roles or tenant
\* keep out (dispatcher.go:101-108, 256-270, 330-345).
THEOREM AuthorisedHolds == Spec => []UpstreamOnlyAuthorised
<1>1. IInv => UpstreamOnlyAuthorised
  BY DEF IInv, RInv, Cleared, Admitted, UpstreamOnlyAuthorised
<1> QED
  BY <1>1, Invariant, PTL

\* A standard route's upstream is told the roles and the tenant that the route
\* has checked, whatever headers the request came with (tenant.go:98-113).
THEOREM ToldHolds == Spec => []ToldAsAuthorised
<1>1. IInv => ToldAsAuthorised
  BY DEF IInv, RInv, Cleared, ToldWhatIsTrue, ToldAsAuthorised
<1> QED
  BY <1>1, Invariant, PTL

-----------------------------------------------------------------------------
(* The headers: who may read an answer, and which tenant an upstream is told  *)
(* of behind the tenant-injector.  Both are about a header that a hop sets and *)
(* a later one could spoil: the response's Access-Control-Allow-Origin, which  *)
(* must be there before any hop answers, and the request's tenant header,      *)
(* which the client has sent and the injector replaces or takes away.          *)

HeaderShape ==
    /\ DOMAIN claims = Request /\ DOMAIN acao = Request /\ DOMAIN stopped = Request
    /\ \A r \in Request : DOMAIN header[r] = DOMAIN Nobody

CorsFirst == InChain("cors") /\ config.chain[1] = "cors"

\* At the first hop a request waits for cors or was answered by it.
Marked(r) ==
    /\ acao[r] => Listed(r)
    /\ CorsFirst =>
          /\ hop[r] = 1 => \/ pc[r] = "plugins"
                           \/ pc[r] = "done" /\ stopped[r] = "cors" /\ (Listed(r) => acao[r])
          /\ hop[r] >= 2 => /\ Listed(r) => acao[r]
                            /\ ~(CrossOrigin(r) /\ req[r].method = Options)

\* Has the request passed the tenant-injector?
Injected(r) == \E i \in 1 .. hop[r] - 1 : config.chain[i] = "tenant-injector"

Derived(r) ==
    told[r].tenant = IF RouteOf(r).sse \/ Token(r).tenant = None
                     THEN Directory[Token(r).sub] ELSE Token(r).tenant

Ahead == {"plugins", "new", "entered"}

\* Claims are a validated token's, and so is the principal whose tenant the
\* header has behind the injector, until the request is answered.
TenantInv(r) ==
    /\ claims[r] # None => Validated(r) /\ claims[r] = Token(r).sub
    /\ Injected(r) /\ pc[r] \in Ahead =>
          Validated(r) /\ header[r].tenant = Directory[Token(r).sub]
    /\ Asked(r) /\ InChain("tenant-injector") => Derived(r)

HInv ==
    /\ IInv
    /\ HeaderShape
    /\ \A r \in Request : Marked(r) /\ TenantInv(r)

-----------------------------------------------------------------------------
LEMMA HeaderShapeKept ==
    ASSUME IInv, HeaderShape, [Next]_vars
    PROVE  HeaderShape'
<1> USE DEF HeaderShape
<1>1. CASE UNCHANGED vars
  BY <1>1 DEF vars, dispatcherVars, identity
<1>2. ASSUME NEW r \in Request, Hop(r)
      PROVE  HeaderShape'
  <2>1. CASE InjectTenant(r) \/ TenantRefused(r)
    <3>1. PICK tenant : header' = [header EXCEPT ![r].tenant = tenant]
      BY <2>1 DEF InjectTenant, TenantRefused
    <3>2. \A q \in Request : DOMAIN header'[q] = DOMAIN header[q]
      BY <3>1 DEF IInv, Shape
    <3>3. DOMAIN claims' = Request /\ DOMAIN acao' = Request /\ DOMAIN stopped' = Request
      BY <2>1 DEF InjectTenant, TenantRefused, CallNext, Answer
    <3> QED
      BY <3>2, <3>3
  <2>2. CASE ~InjectTenant(r) /\ ~TenantRefused(r)
    BY <1>2, <2>2 DEF Hop, Preflight, CorsPasses, TokenPasses, TokenRefused, LicenseAdmits,
       LicenseRefuses, AuthAsksKey, AuthPasses, AuthRefuses, SetContext, CallNext, Answer,
       PropagateClaims, Mark
  <2> QED
    BY <2>1, <2>2
<1>3. ASSUME NEW r \in Request, PluginsRest, DispatcherStep(r)
      PROVE  HeaderShape'
  BY <1>3 DEF PluginsRest, DispatcherStep, Match, NotFound, Proceed, Forbid, Busy, Refuse,
     Proxy, HandleError, Record, Audit, Inform, UpstreamAnswers, RoundTripFails, CopyEnds,
     CopyBreaks, Disconnect, Deadline, identity
<1>4. CASE KeysChange
  BY <1>4 DEF KeysChange, dispatcherVars, identity
<1> QED
  BY <1>1, <1>2, <1>3, <1>4 DEF Next

-----------------------------------------------------------------------------
(* cors. *)

\* What concerns a request's answer does not change while it stays where it is.
LEMMA MarkedStays ==
    ASSUME NEW q \in Request, Marked(q), config' = config, req' = req,
           hop'[q] = hop[q], acao'[q] = acao[q],
           \/ pc'[q] = pc[q] /\ stopped'[q] = stopped[q]
           \/ ~(CorsFirst /\ hop[q] = 1)
    PROVE  Marked(q)'
BY DEF Marked, Listed, CrossOrigin, CorsFirst, InChain

LEMMA CorsKeeps ==
    ASSUME NEW r \in Request, HInv, Preflight(r) \/ CorsPasses(r)
    PROVE  Marked(r)'
<1>1. /\ config' = config /\ req' = req /\ AtHop(r, "cors")
      /\ acao'[r] = (acao[r] \/ Listed(r))
  BY DEF Preflight, CorsPasses, Mark, unchangedByHops, HInv, HeaderShape
<1>2. Listed(r)' = Listed(r) /\ CrossOrigin(r)' = CrossOrigin(r) /\ CorsFirst' = CorsFirst
  BY <1>1 DEF Listed, CrossOrigin, CorsFirst, InChain
<1>3. hop[r] \in 1 .. Len(config.chain) + 1 /\ Len(config.chain) \in Nat
  BY ChainKinds DEF HInv, IInv, RInv, Shape
<1>4. acao'[r] => Listed(r)
  BY <1>1 DEF HInv, Marked
<1>5. CASE Preflight(r)
  <2>1. hop' = hop /\ pc'[r] = "done" /\ stopped'[r] = "cors"
    BY <1>1, <1>5 DEF Preflight, Answer, AtHop, HInv, HeaderShape, IInv, Shape
  <2> QED
    BY <1>1, <1>2, <1>3, <1>4, <2>1 DEF Marked, HInv
<1>6. CASE CorsPasses(r)
  <2>1. hop'[r] = hop[r] + 1
    BY <1>6 DEF CorsPasses, CallNext, HInv, IInv, Shape
  <2>2. ~(CrossOrigin(r) /\ req[r].method = Options)
    BY <1>6 DEF CorsPasses
  <2>3. hop'[r] # 1
    BY <1>3, <2>1
  <2>4. Listed(r) => acao'[r]
    BY <1>1, Zenon
  <2>5. req'[r].method = req[r].method
    BY <1>1
  <2> QED
    BY <1>2, <1>4, <2>2, <2>3, <2>4, <2>5 DEF Marked
<1> QED
  BY <1>5, <1>6

\* Behind cors, or in front of a cors that is not first.
LEMMA OtherHopsKeepMarked ==
    ASSUME NEW r \in Request, HInv, Hop(r), ~Preflight(r), ~CorsPasses(r)
    PROVE  Marked(r)'
<1>1. config' = config /\ req' = req /\ acao' = acao
  BY DEF Hop, TokenPasses, TokenRefused, InjectTenant, TenantRefused, LicenseAdmits,
     LicenseRefuses, AuthAsksKey, AuthPasses, AuthRefuses, SetContext, unchangedByHops
<1>2. hop[r] \in 1 .. Len(config.chain) + 1 /\ Len(config.chain) \in Nat
  BY ChainKinds DEF HInv, IInv, RInv, Shape
<1>3. config.chain[hop[r]] # "cors"
  BY DEF Hop, TokenPasses, TokenRefused, InjectTenant, TenantRefused, LicenseAdmits,
     LicenseRefuses, AuthAsksKey, AuthPasses, AuthRefuses, SetContext, AtHop
<1>4. CorsFirst => hop[r] >= 2
  BY <1>2, <1>3 DEF CorsFirst
<1>5. hop'[r] \in {hop[r], hop[r] + 1}
  BY DEF Hop, TokenPasses, TokenRefused, InjectTenant, TenantRefused, LicenseAdmits,
     LicenseRefuses, AuthAsksKey, AuthPasses, AuthRefuses, SetContext, CallNext, Answer,
     HInv, IInv, Shape
<1>6. Listed(r)' = Listed(r) /\ CrossOrigin(r)' = CrossOrigin(r) /\ CorsFirst' = CorsFirst
  BY <1>1 DEF Listed, CrossOrigin, CorsFirst, InChain
<1> QED
  BY <1>1, <1>2, <1>4, <1>5, <1>6 DEF HInv, Marked

LEMMA MarkedKept ==
    ASSUME NEW q \in Request, HInv, [Next]_vars
    PROVE  Marked(q)'
<1>0. Marked(q)
  BY DEF HInv
<1>1. CASE UNCHANGED vars
  BY <1>0, <1>1, MarkedStays DEF vars, dispatcherVars, identity
<1>2. ASSUME NEW r \in Request, Hop(r)
      PROVE  Marked(q)'
  <2>1. CASE q = r
    BY <1>2, <2>1, CorsKeeps, OtherHopsKeepMarked
  <2>2. CASE q # r
    <3>1. config' = config /\ req' = req
      BY <1>2 DEF Hop, Preflight, CorsPasses, TokenPasses, TokenRefused, InjectTenant,
         TenantRefused, LicenseAdmits, LicenseRefuses, AuthAsksKey, AuthPasses, AuthRefuses,
         SetContext, unchangedByHops
    <3>2. /\ hop'[q] = hop[q] /\ pc'[q] = pc[q] /\ stopped'[q] = stopped[q]
          /\ acao'[q] = acao[q]
      BY <1>2, <2>2 DEF Hop, Preflight, CorsPasses, TokenPasses, TokenRefused, InjectTenant,
         TenantRefused, LicenseAdmits, LicenseRefuses, AuthAsksKey, AuthPasses, AuthRefuses,
         SetContext, CallNext, Answer, Mark, HInv, HeaderShape, IInv, Shape
    <3> QED
      BY <1>0, <3>1, <3>2, MarkedStays
  <2> QED
    BY <2>1, <2>2
<1>3. ASSUME NEW r \in Request, PluginsRest, DispatcherStep(r)
      PROVE  Marked(q)'
  <2>1. /\ config' = config /\ req' = req /\ hop' = hop /\ acao' = acao /\ stopped' = stopped
    BY <1>3 DEF PluginsRest, DispatcherStep, Match, NotFound, Proceed, Forbid, Busy, Refuse,
       Proxy, HandleError, Record, Audit, Inform, UpstreamAnswers, RoundTripFails, CopyEnds,
       CopyBreaks, Disconnect, Deadline, identity
  <2>2. pc'[q] = pc[q] \/ pc[q] \notin {"plugins", "done"}
    BY <1>3 DEF DispatcherStep, Match, NotFound, Proceed, Forbid, Busy, Refuse, Goto,
       Proxy, HandleError, Record, Audit, Inform, UpstreamAnswers, RoundTripFails, CopyEnds,
       CopyBreaks, Disconnect, Deadline, HInv, IInv, Shape
  <2> QED
    BY <1>0, <2>1, <2>2, MarkedStays DEF Marked
<1>4. CASE KeysChange
  BY <1>0, <1>4, MarkedStays DEF KeysChange, dispatcherVars, identity
<1> QED
  BY <1>1, <1>2, <1>3, <1>4 DEF Next

-----------------------------------------------------------------------------
(* The tenant-injector. *)

\* A step that leaves the request where it is, and its header or its request
\* to the upstream too unless that is no matter.
LEMMA TenantStays ==
    ASSUME NEW q \in Request, TenantInv(q), config' = config, req' = req,
           hop'[q] = hop[q], claims'[q] = claims[q],
           pc'[q] \in Ahead => pc[q] \in Ahead /\ header'[q] = header[q],
           told'[q] = told[q], entry'[q] = entry[q] \/ ~Asked(q)
    PROVE  TenantInv(q)'
<1>1. /\ Validated(q)' = Validated(q) /\ Injected(q)' = Injected(q)
      /\ Token(q)' = Token(q) /\ InChain("tenant-injector")' = InChain("tenant-injector")
      /\ Asked(q)' = Asked(q)
  BY DEF Validated, Injected, Token, InChain, Asked
<1>2. Asked(q) => Derived(q)' = Derived(q)
  BY <1>1 DEF Derived, RouteOf
<1> QED
  BY <1>1, <1>2 DEF TenantInv

\* Passing on: no upstream was asked so far, and what was passed stays passed.
LEMMA Passing ==
    ASSUME NEW r \in Request, HInv, pc[r] = "plugins", CallNext(r), config' = config,
           req' = req, told' = told
    PROVE  /\ ~Asked(r)'
           /\ Token(r)' = Token(r)
           /\ hop[r] \in 1 .. Len(config.chain) /\ hop'[r] = hop[r] + 1
           /\ Validated(r)' <=> Validated(r) \/ config.chain[hop[r]] = "token-validator"
           /\ Injected(r)' <=> Injected(r) \/ config.chain[hop[r]] = "tenant-injector"
<1>1. RInv(r) /\ Shape
  BY DEF HInv, IInv
<1>2. ~Asked(r)
  BY <1>1 DEF RInv, Behind
<1>3. hop[r] \in 1 .. Len(config.chain) /\ Len(config.chain) \in Nat
  BY <1>1, ChainKinds DEF RInv, Shape
<1>4. hop'[r] = hop[r] + 1
  BY <1>1 DEF CallNext, Shape
<1>5. Validated(r)' <=> Validated(r) \/ config.chain[hop[r]] = "token-validator"
  BY <1>3, <1>4 DEF Validated
<1>6. Injected(r)' <=> Injected(r) \/ config.chain[hop[r]] = "tenant-injector"
  BY <1>3, <1>4 DEF Injected
<1> QED
  BY <1>2, <1>3, <1>4, <1>5, <1>6 DEF Asked, Token

\* A second injector in the chain looks the same principal up again.
LEMMA InjectKeeps ==
    ASSUME NEW r \in Request, HInv, InjectTenant(r)
    PROVE  TenantInv(r)'
<1>1. /\ config' = config /\ req' = req /\ told' = told /\ claims' = claims
      /\ pc[r] = "plugins" /\ CallNext(r) /\ claims[r] # None
  BY DEF InjectTenant, AtHop, unchangedByHops
<1>2. Validated(r) /\ claims[r] = Token(r).sub
  BY <1>1 DEF HInv, TenantInv
<1>3. header'[r].tenant = Directory[claims[r]]
  <2>1. r \in DOMAIN header /\ "tenant" \in DOMAIN header[r]
    BY DEF HInv, HeaderShape, IInv, Shape, Nobody
  <2> QED
    BY <2>1 DEF InjectTenant
<1> QED
  BY <1>1, <1>2, <1>3, Passing DEF TenantInv

LEMMA ClaimsKeep ==
    ASSUME NEW r \in Request, HInv, TokenPasses(r)
    PROVE  TenantInv(r)'
<1>1. /\ config' = config /\ req' = req /\ told' = told /\ header' = header
      /\ pc[r] = "plugins" /\ CallNext(r) /\ config.chain[hop[r]] = "token-validator"
  BY DEF TokenPasses, AtHop, unchangedByHops
<1>2. claims'[r] \in {None, Token(r).sub}
  BY DEF TokenPasses, PropagateClaims, HInv, HeaderShape
<1>3. Injected(r) => header[r].tenant = Directory[Token(r).sub]
  BY <1>1 DEF HInv, TenantInv, Ahead
<1> QED
  BY <1>1, <1>2, <1>3, Passing DEF TenantInv

LEMMA OthersPassTenant ==
    ASSUME NEW r \in Request, HInv,
           CorsPasses(r) \/ LicenseAdmits(r) \/ AuthPasses(r) \/ SetContext(r)
    PROVE  TenantInv(r)'
<1>1. /\ config' = config /\ req' = req /\ told' = told /\ header' = header /\ claims' = claims
      /\ pc[r] = "plugins" /\ CallNext(r) /\ config.chain[hop[r]] # "tenant-injector"
      /\ config.chain[hop[r]] # "token-validator"
  BY DEF CorsPasses, LicenseAdmits, AuthPasses, SetContext, AtHop, unchangedByHops
<1>2. TenantInv(r) /\ pc[r] \in Ahead
  BY <1>1 DEF HInv, Ahead
<1> QED
  BY <1>1, <1>2, Passing DEF TenantInv

\* The hop answers: the header of a refused request reaches nobody.
LEMMA AnsweredTenant ==
    ASSUME NEW r \in Request, HInv, Hop(r),
           \/ Preflight(r) \/ TokenRefused(r) \/ LicenseRefuses(r)
           \/ AuthAsksKey(r) \/ AuthRefuses(r)
    PROVE  TenantInv(r)'
<1>1. /\ config' = config /\ req' = req /\ told' = told /\ entry' = entry
      /\ claims' = claims /\ hop' = hop /\ header' = header /\ pc[r] \in Ahead
  BY DEF Preflight, TokenRefused, LicenseRefuses, AuthAsksKey, AuthRefuses, Answer,
     AtHop, Ahead, unchangedByHops
<1> QED
  BY <1>1, TenantStays DEF HInv

LEMMA RefusedTenant ==
    ASSUME NEW r \in Request, HInv, TenantRefused(r)
    PROVE  TenantInv(r)'
<1>1. /\ config' = config /\ req' = req /\ told' = told /\ entry' = entry
      /\ claims' = claims /\ hop' = hop /\ pc'[r] = "done"
  BY DEF TenantRefused, Answer, unchangedByHops, HInv, IInv, Shape
<1> QED
  BY <1>1, TenantStays DEF HInv, Ahead

\* The upstream is asked with what the injector has left, or the token's own.
LEMMA ProxyTellsTenant ==
    ASSUME NEW r \in Request, HInv, PluginsRest, Proxy(r)
    PROVE  TenantInv(r)'
<1>1. /\ config' = config /\ req' = req /\ hop' = hop /\ claims' = claims
      /\ header' = header /\ entry' = entry
      /\ pc[r] = "entered" /\ pc'[r] = "dialing" /\ told'[r] = UpstreamHeaders(r)
  BY DEF PluginsRest, Proxy, Goto, identity, HInv, IInv, Shape
<1>2. TenantInv(r) /\ RInv(r) /\ Shape
  BY DEF HInv, IInv
<1>3. Validated(r)' = Validated(r)
  BY <1>1 DEF Validated
<1>4. ASSUME InChain("tenant-injector")
      PROVE  Derived(r)'
  <2>1. Injected(r)
    <3>1. hop[r] = Len(config.chain) + 1
      BY <1>1, <1>2 DEF RInv
    <3> QED
      BY <1>2, <1>4, <3>1, ChainKinds DEF InChain, ToSet, Injected, Shape
  <2>2. Validated(r) /\ header[r].tenant = Directory[Token(r).sub]
    BY <1>1, <1>2, <2>1 DEF TenantInv, Ahead
  <2>3. config.chain \in Seq(PluginNames)
    <3>1. PICK i \in 1 .. Len(config.chain) : config.chain[i] = "tenant-injector"
      BY <1>2, <1>4, ChainKinds DEF InChain, ToSet, Shape
    <3>2. AuthChain[1] = "auth" /\ AuthChain[2] = "context" /\ Len(AuthChain) = 2
      BY DEF AuthChain
    <3>3. config.chain # AuthChain
      BY <3>1, <3>2
    <3> QED
      BY <1>2, <3>3, ChainKinds DEF Shape
  <2>4. actor[r].tenant = Token(r).tenant
    BY <1>2, <2>2, <2>3 DEF RInv, Known, KnownByPlugins
  <2>5. CloneHeaders(header[r], actor[r]).tenant = header[r].tenant
    <3>1. DOMAIN header[r] = DOMAIN Nobody
      BY DEF HInv, HeaderShape
    <3> QED
      BY <3>1 DEF CloneHeaders, Nobody
  <2>6. InjectUpstreamHeaders(header[r], actor[r]).tenant
           = IF actor[r].tenant # None THEN actor[r].tenant ELSE header[r].tenant
    BY DEF InjectUpstreamHeaders
  <2>7. told'[r].tenant = IF RouteOf(r).sse \/ Token(r).tenant = None
                          THEN Directory[Token(r).sub] ELSE Token(r).tenant
    <3>1. CASE RouteOf(r).sse
      BY <1>1, <2>2, <2>5, <3>1 DEF UpstreamHeaders
    <3>2. CASE ~RouteOf(r).sse
      BY <1>1, <2>2, <2>4, <2>6, <3>2 DEF UpstreamHeaders
    <3> QED
      BY <3>1, <3>2
  <2>8. RouteOf(r)' = RouteOf(r) /\ Token(r)' = Token(r)
    BY <1>1 DEF RouteOf, Token
  <2> QED
    BY <2>7, <2>8 DEF Derived
<1>5. /\ InChain("tenant-injector")' = InChain("tenant-injector")
      /\ Token(r)' = Token(r) /\ pc'[r] \notin Ahead
  BY <1>1 DEF InChain, Token, Ahead
<1> QED
  BY <1>1, <1>2, <1>3, <1>4, <1>5 DEF TenantInv

LEMMA TenantKept ==
    ASSUME NEW q \in Request, HInv, [Next]_vars
    PROVE  TenantInv(q)'
<1>0. TenantInv(q) /\ RInv(q) /\ Shape
  BY DEF HInv, IInv
<1>1. CASE UNCHANGED vars
  BY <1>0, <1>1, TenantStays DEF vars, dispatcherVars, identity
<1>2. ASSUME NEW r \in Request, Hop(r)
      PROVE  TenantInv(q)'
  <2>1. CASE q = r
    BY <1>2, <2>1, InjectKeeps, ClaimsKeep, OthersPassTenant, AnsweredTenant, RefusedTenant
       DEF Hop
  <2>2. CASE q # r
    <3>1. config' = config /\ req' = req /\ told' = told /\ entry' = entry
      BY <1>2 DEF Hop, Preflight, CorsPasses, TokenPasses, TokenRefused, InjectTenant,
         TenantRefused, LicenseAdmits, LicenseRefuses, AuthAsksKey, AuthPasses, AuthRefuses,
         SetContext, unchangedByHops
    <3>2. /\ hop'[q] = hop[q] /\ pc'[q] = pc[q] /\ claims'[q] = claims[q]
          /\ header'[q] = header[q]
      BY <1>0, <1>2, <2>2 DEF Hop, Preflight, CorsPasses, TokenPasses, TokenRefused,
         InjectTenant, TenantRefused, LicenseAdmits, LicenseRefuses, AuthAsksKey, AuthPasses,
         AuthRefuses, SetContext, CallNext, Answer, PropagateClaims, HInv, HeaderShape, Shape
    <3> QED
      BY <1>0, <3>1, <3>2, TenantStays
  <2> QED
    BY <2>1, <2>2
<1>3. ASSUME NEW r \in Request, PluginsRest, DispatcherStep(r)
      PROVE  TenantInv(q)'
  <2>1. CASE Proxy(r) /\ q = r
    BY <1>3, <2>1, ProxyTellsTenant
  <2>2. CASE ~(Proxy(r) /\ q = r)
    <3>1. /\ config' = config /\ req' = req /\ hop' = hop /\ claims' = claims
          /\ header' = header
      BY <1>3 DEF PluginsRest, DispatcherStep, Match, NotFound, Proceed, Forbid, Busy, Refuse,
         Proxy, HandleError, Record, Audit, Inform, UpstreamAnswers, RoundTripFails, CopyEnds,
         CopyBreaks, Disconnect, Deadline, identity
    <3>2. told'[q] = told[q]
      BY <1>0, <1>3, <2>2 DEF DispatcherStep, Match, NotFound, Proceed, Forbid, Busy, Refuse,
         Proxy, HandleError, Record, Audit, Inform, UpstreamAnswers, RoundTripFails, CopyEnds,
         CopyBreaks, Disconnect, Deadline, Shape
    <3>3. pc'[q] \in Ahead => pc[q] \in Ahead
      BY <1>0, <1>3 DEF DispatcherStep, Match, NotFound, Proceed, Forbid, Busy, Refuse, Goto,
         Proxy, HandleError, Record, Audit, Inform, UpstreamAnswers, RoundTripFails, CopyEnds,
         CopyBreaks, Disconnect, Deadline, Shape, Ahead
    <3>4. entry'[q] = entry[q] \/ ~Asked(q)
      BY <1>0, <1>3 DEF DispatcherStep, Match, NotFound, Proceed, Forbid, Busy, Refuse, Goto,
         Proxy, HandleError, Record, Audit, Inform, UpstreamAnswers, RoundTripFails, CopyEnds,
         CopyBreaks, Disconnect, Deadline, Shape, RInv, Behind
    <3> QED
      BY <1>0, <3>1, <3>2, <3>3, <3>4, TenantStays
  <2> QED
    BY <2>1, <2>2
<1>4. CASE KeysChange
  BY <1>0, <1>4, TenantStays DEF KeysChange, dispatcherVars, identity
<1> QED
  BY <1>1, <1>2, <1>3, <1>4 DEF Next

-----------------------------------------------------------------------------
LEMMA InitEstablishesHeaders == Init => HInv
<1> SUFFICES ASSUME Init
             PROVE  HInv
  OBVIOUS
<1>1. IInv
  BY InitEstablishes
<1>2. HeaderShape
  BY ArrivalsAssumption DEF Init, HeaderShape
<1>3. ASSUME NEW r \in Request
      PROVE  Marked(r) /\ TenantInv(r)
  <2>1. /\ hop[r] = 1 /\ told[r] = None /\ claims[r] = None /\ acao[r] = FALSE
        /\ pc[r] = IF config.chain = <<>> THEN "new" ELSE "plugins"
    BY DEF Init, DispatcherInit
  <2>2. CorsFirst => config.chain # <<>>
    BY DEF CorsFirst, InChain, ToSet
  <2>3. ~Validated(r) /\ ~Injected(r)
    BY <2>1 DEF Validated, Injected
  <2> QED
    BY <2>1, <2>2, <2>3 DEF Marked, TenantInv, Asked
<1> QED
  BY <1>1, <1>2, <1>3 DEF HInv

LEMMA NextKeepsHeaders == HInv /\ [Next]_vars => HInv'
<1> SUFFICES ASSUME HInv, [Next]_vars
             PROVE  HInv'
  OBVIOUS
<1>1. IInv'
  BY NextKeeps DEF HInv
<1>2. HeaderShape'
  BY HeaderShapeKept DEF HInv
<1> QED
  BY <1>1, <1>2, MarkedKept, TenantKept DEF HInv

LEMMA HeaderInvariant == Spec => []HInv
BY InitEstablishesHeaders, NextKeepsHeaders, PTL DEF Spec

\* Where cors comes first, a listed origin may read every answer, refusals of
\* later plugins and routes included, no other origin may, and no preflight is
\* asked for a token (cors/plugin.go:90-126).
THEOREM OriginsHold == Spec => []OriginsAnswered
<1>1. HInv => OriginsAnswered
  <2> SUFFICES ASSUME HInv
               PROVE  OriginsAnswered
    OBVIOUS
  <2>1. ASSUME NEW r \in Request
        PROVE  Marked(r) /\ hop[r] \in 1 .. Len(config.chain) + 1 /\ Len(config.chain) \in Nat
    BY ChainKinds DEF HInv, IInv, RInv, Shape
  <2>2. ASSUME NEW r \in Request, CorsFirst, pc[r] \in Ended
        PROVE  /\ Listed(r) => acao[r]
               /\ CrossOrigin(r) /\ req[r].method = Options => stopped[r] = "cors"
    BY <2>1, <2>2 DEF Marked, Ended
  <2>3. \A r \in Request : acao[r] => Listed(r)
    BY <2>1 DEF Marked
  <2> QED
    BY <2>2, <2>3 DEF OriginsAnswered, CorsFirst
<1> QED
  BY <1>1, HeaderInvariant, PTL

\* Behind the tenant-injector an upstream is told the directory's tenant of the
\* token's principal, or on standard routes the token's own, never the client's
\* (tenantinjector/plugin.go:282-283, 327-330; tenant.go:101).
THEOREM TenantIsDerivedHolds == Spec => []TenantIsDerived
<1>1. HInv => TenantIsDerived
  BY DEF HInv, TenantInv, Derived, TenantIsDerived
<1> QED
  BY <1>1, HeaderInvariant, PTL

-----------------------------------------------------------------------------
(* The types. *)

\* The keys of auth, whatever key a call asks for.
LEMMA AuthTypes ==
    ASSUME A!TypeOK, NEW r \in Request, NEW k,
           A!GetKey(r, k) \/ A!Expire \/ A!Rotate
    PROVE  A!TypeOK'
<1> USE DEF A!TypeOK, A!Goto, A!cache
<1>1. CASE A!Ask(r, k) \/ A!Serve(r) \/ A!ServeError(r) \/ A!RefreshFails(r)
  BY <1>1 DEF A!Ask, A!Serve, A!ServeError, A!RefreshFails
<1>2. CASE A!Store(r, k) \/ A!Reread(r, k)
  BY <1>2 DEF A!Store, A!Reread, A!Verdict
<1>3. CASE A!Expire \/ A!Rotate
  BY <1>3 DEF A!Expire, A!Rotate
<1> QED
  BY <1>1, <1>2, <1>3 DEF A!GetKey

LEMMA HopTypes ==
    ASSUME TypeOK, IInv', HeaderShape', NEW r \in Request, Hop(r)
    PROVE  TypeOK'
<1>1. config' \in Configs /\ \A q \in Request : hop'[q] \in 1 .. Len(config'.chain) + 1
  BY DEF IInv, RInv, Shape
<1>2. \A q \in Request : DOMAIN header'[q] = DOMAIN Nobody
  BY DEF HeaderShape
<1>3. /\ req' = req /\ entry' = entry /\ ctx' = ctx /\ code' = code /\ wrote' = wrote
      /\ counts' = counts
  BY DEF Hop, Preflight, CorsPasses, TokenPasses, TokenRefused, InjectTenant, TenantRefused,
         LicenseAdmits, LicenseRefuses, AuthAsksKey, AuthPasses, AuthRefuses, SetContext,
         unchangedByHops, recorder, metrics
<1>4. pc' \in [Request -> Ended \cup {"plugins", "new", "entered", "dialing", "failed",
                                      "copying", "handled", "recorded"}]
  BY DEF Hop, Preflight, CorsPasses, TokenPasses, TokenRefused, InjectTenant, TenantRefused,
         LicenseAdmits, LicenseRefuses, AuthAsksKey, AuthPasses, AuthRefuses, SetContext,
         CallNext, Answer, TypeOK, Ended
<1>5. \A q \in Request : DOMAIN actor'[q] = DOMAIN Nobody
  <2>1. CASE UNCHANGED actor
    BY <2>1 DEF TypeOK
  <2>2. ASSUME NEW who, WithIdentity(r, who), DOMAIN who = DOMAIN Nobody
        PROVE  \A q \in Request : DOMAIN actor'[q] = DOMAIN Nobody
    BY <2>2 DEF WithIdentity, TypeOK
  <2>3. CASE TokenPasses(r)
    <3>1. PICK tenant, subject, roles, corr, ident :
             WithIdentity(r, [tenant |-> tenant, subject |-> subject, roles |-> roles,
                              corr |-> corr, id |-> ident])
      BY <2>3 DEF TokenPasses
    <3> QED
      BY <2>2, <3>1 DEF Nobody
  <2>4. CASE SetContext(r)
    <3>1. PICK tenant, subject, roles, corr, ident :
             WithIdentity(r, [tenant |-> tenant, subject |-> subject, roles |-> roles,
                              corr |-> corr, id |-> ident])
      BY <2>4 DEF SetContext
    <3> QED
      BY <2>2, <3>1 DEF Nobody
  <2> QED
    BY <2>1, <2>3, <2>4
    DEF Hop, Preflight, CorsPasses, TokenRefused, InjectTenant, TenantRefused,
        LicenseAdmits, LicenseRefuses, AuthAsksKey, AuthPasses, AuthRefuses
<1>6. proved' \in [Request -> BOOLEAN]
  BY DEF Hop, Preflight, CorsPasses, TokenPasses, TokenRefused, InjectTenant, TenantRefused,
         LicenseAdmits, LicenseRefuses, AuthAsksKey, AuthPasses, AuthRefuses, SetContext,
         TypeOK
<1>7. acao' \in [Request -> BOOLEAN]
  <2>1. CASE UNCHANGED acao
    BY <2>1 DEF TypeOK
  <2>2. CASE Mark(r)
    <3> DEFINE mark == acao[r] \/ Listed(r)
    <3>1. mark \in BOOLEAN /\ acao' = [acao EXCEPT ![r] = mark]
      BY <2>2 DEF Mark
    <3> HIDE DEF mark
    <3> QED
      BY <3>1 DEF TypeOK
  <2> QED
    BY <2>1, <2>2
    DEF Hop, Preflight, CorsPasses, TokenPasses, TokenRefused, InjectTenant, TenantRefused,
        LicenseAdmits, LicenseRefuses, AuthAsksKey, AuthPasses, AuthRefuses, SetContext
<1>8. A!TypeOK'
  <2>1. CASE UNCHANGED authVars
    BY <2>1 DEF authVars, TypeOK, A!TypeOK
  <2>2. CASE A!GetKey(r, Token(r).kid)
    BY <2>2, AuthTypes DEF TypeOK
  <2> QED
    BY <2>1, <2>2
    DEF Hop, Preflight, CorsPasses, TokenPasses, TokenRefused, InjectTenant, TenantRefused,
        LicenseAdmits, LicenseRefuses, AuthAsksKey, AuthPasses, AuthRefuses, SetContext
<1> QED
  BY <1>1, <1>2, <1>3, <1>4, <1>5, <1>6, <1>7, <1>8 DEF TypeOK

LEMMA OneMore ==
    ASSUME NEW D, NEW S, NEW f \in [D -> [S -> Nat]], NEW i, NEW x \in S
    PROVE  [f EXCEPT ![i][x] = @ + 1] \in [D -> [S -> Nat]]
<1> DEFINE g == [f[i] EXCEPT ![x] = @ + 1]
<1>1. i \in D => g \in [S -> Nat]
  OBVIOUS
<1>2. [f EXCEPT ![i] = g] \in [D -> [S -> Nat]]
  <2> HIDE DEF g
  <2> QED
    BY <1>1
<1> QED
  BY <1>2

LEMMA DispatcherTypes ==
    ASSUME TypeOK, NEW r \in Request, PluginsRest, DispatcherStep(r)
    PROVE  TypeOK'
<1>1. /\ config' = config /\ req' = req /\ hop' = hop /\ actor' = actor
      /\ header' = header /\ proved' = proved /\ acao' = acao
  BY DEF PluginsRest, DispatcherStep, Match, NotFound, Proceed, Forbid, Busy, Refuse, Proxy,
         HandleError, Record, Audit, Inform, UpstreamAnswers, RoundTripFails, CopyEnds,
         CopyBreaks, Disconnect, Deadline, identity
<1>2. A!TypeOK'
  BY DEF PluginsRest, authVars, TypeOK, A!TypeOK
<1>3. pc' \in [Request -> Ended \cup {"plugins", "new", "entered", "dialing", "failed",
                                      "copying", "handled", "recorded"}]
  <2> DEFINE Points == {"entered", "dialing", "failed", "copying", "handled", "recorded",
                        "done", "aborted"}
  <2>1. pc' = pc \/ \E to \in Points : pc' = [pc EXCEPT ![r] = to]
    BY DEF DispatcherStep, Match, NotFound, Proceed, Forbid, Busy, Refuse, Goto, Proxy,
           HandleError, Record, Audit, Inform, UpstreamAnswers, RoundTripFails, CopyEnds,
           CopyBreaks, Disconnect, Deadline
  <2>2. Points \subseteq Ended \cup {"plugins", "new", "entered", "dialing", "failed",
                                     "copying", "handled", "recorded"}
    BY DEF Ended
  <2> HIDE DEF Points
  <2> QED
    BY <2>1, <2>2 DEF TypeOK
<1>4. entry' \in [Request -> 0 .. Len(Routes)]
  <2>1. CASE Match(r)
    <3>1. MatchEntry(r) \in 0 .. Len(Routes)
      BY <2>1, FirstMatch, RoutesLength DEF Match
    <3> QED
      BY <2>1, <3>1 DEF Match, TypeOK
  <2>2. CASE UNCHANGED entry
    BY <2>2 DEF TypeOK
  <2> QED
    BY <2>1, <2>2
    DEF DispatcherStep, NotFound, Proceed, Forbid, Busy, Refuse, Proxy, HandleError, Record,
        Audit, Inform, UpstreamAnswers, RoundTripFails, CopyEnds, CopyBreaks, Disconnect,
        Deadline
<1>5. ctx' \in [Request -> {"live", "canceled", "deadline"}]
  <2>1. \/ ctx' = ctx
        \/ \E err \in {"canceled", "deadline"} : ctx' = [ctx EXCEPT ![r] = err]
    BY DEF DispatcherStep, Match, NotFound, Proceed, Forbid, Busy, Refuse, Proxy,
           HandleError, Record, Audit, Inform, UpstreamAnswers, RoundTripFails, CopyEnds,
           CopyBreaks, Disconnect, Deadline
  <2> QED
    BY <2>1 DEF TypeOK
<1>6. code' \in [Request -> Status] /\ wrote' \in [Request -> BOOLEAN]
  <2>1. CASE UNCHANGED recorder
    BY <2>1 DEF recorder, TypeOK
  <2>2. CASE \E status \in Status : WriteHeader(r, status)
    BY <2>2 DEF WriteHeader, TypeOK
  <2>3. \/ UNCHANGED recorder
        \/ \E status \in {"403", "429", "early", "upstream", "500", "502"} :
              WriteHeader(r, status)
    <3>1. CASE Forbid(r) \/ Busy(r) \/ Inform(r) \/ UpstreamAnswers(r)
      BY <3>1 DEF Forbid, Busy, Refuse, Inform, UpstreamAnswers
    <3>2. CASE HandleError(r)
      BY <3>2 DEF HandleError
    <3> QED
      BY <3>1, <3>2
      DEF DispatcherStep, Match, NotFound, Proceed, Proxy, Record, Audit,
          RoundTripFails, CopyEnds, CopyBreaks, Disconnect, Deadline
  <2>4. {"403", "429", "early", "upstream", "500", "502"} \subseteq Status
    BY DEF Status
  <2> QED
    BY <2>1, <2>2, <2>3, <2>4
<1>7. counts' \in [DOMAIN Routes -> [Status -> Nat]]
  <2>1. CASE Record(r)
    BY <2>1, OneMore DEF Record, TypeOK
  <2>2. CASE UNCHANGED counts
    BY <2>2 DEF TypeOK
  <2> QED
    BY <2>1, <2>2
    DEF DispatcherStep, Match, NotFound, Proceed, Forbid, Busy, Refuse, Proxy, HandleError,
        Audit, Inform, UpstreamAnswers, RoundTripFails, CopyEnds, CopyBreaks, Disconnect,
        Deadline, metrics
<1> QED
  BY <1>1, <1>2, <1>3, <1>4, <1>5, <1>6, <1>7 DEF TypeOK

LEMMA TypesKept == HInv /\ TypeOK /\ [Next]_vars => TypeOK'
<1> SUFFICES ASSUME HInv, TypeOK, [Next]_vars
             PROVE  TypeOK'
  OBVIOUS
<1>1. IInv' /\ HeaderShape'
  BY NextKeeps, HeaderShapeKept DEF HInv
<1>2. CASE UNCHANGED vars
  BY <1>2 DEF vars, dispatcherVars, identity, recorder, metrics, authVars, TypeOK, A!TypeOK
<1>3. ASSUME NEW r \in Request, Hop(r)
      PROVE  TypeOK'
  BY <1>1, <1>3, HopTypes
<1>4. ASSUME NEW r \in Request, PluginsRest, DispatcherStep(r)
      PROVE  TypeOK'
  BY <1>4, DispatcherTypes
<1>5. CASE KeysChange
  <2>1. A!TypeOK'
    <3> USE DEF A!TypeOK, A!cache
    <3> QED
      BY <1>5 DEF KeysChange, TypeOK, A!Expire, A!Rotate
  <2> QED
    BY <1>5, <2>1 DEF KeysChange, dispatcherVars, identity, recorder, metrics, TypeOK
<1> QED
  BY <1>2, <1>3, <1>4, <1>5 DEF Next

LEMMA InitTypes == Init => TypeOK
<1> SUFFICES ASSUME Init
             PROVE  TypeOK
  OBVIOUS
<1>1. IInv /\ HeaderShape
  BY InitEstablishesHeaders DEF HInv
<1>2. \A r \in Request : hop[r] \in 1 .. Len(config.chain) + 1
  BY <1>1 DEF IInv, RInv
<1>3. A!TypeOK
  BY DEF Init, A!Init, A!TypeOK
<1> QED
  BY <1>1, <1>2, <1>3, RoutesLength
  DEF Init, DispatcherInit, TypeOK, HeaderShape, Status, Ended, Nobody

-----------------------------------------------------------------------------
(* The keys of auth. *)

\* As long as no fetch has failed, every document has the steady keys, and so
\* has the cache that a call reads again after it has stored one.
Unspoiled ==
    /\ Steady \subseteq published
    /\ \A r \in Request :
          /\ call[r] = "transit" => Steady \subseteq doc[r]
          /\ call[r] = "stored" => Steady \subseteq keys
          /\ call[r] = "denied" => Token(r).kid \notin Steady

KInv == (spoiled \/ Unspoiled) /\ SteadyTokenPasses

LEMMA KeyStep ==
    ASSUME A!TypeOK, spoiled \/ Unspoiled, NEW r \in Request, UNCHANGED req,
           A!GetKey(r, Token(r).kid) \/ A!Expire \/ A!Rotate
    PROVE  (spoiled => spoiled') /\ (spoiled \/ Unspoiled)'
<1> USE DEF A!TypeOK, A!Goto, A!cache, Unspoiled, Token
<1>1. CASE A!Ask(r, Token(r).kid)
  BY <1>1 DEF A!Ask
<1>2. CASE A!Serve(r)
  BY <1>2 DEF A!Serve
<1>3. CASE A!ServeError(r) \/ A!RefreshFails(r)
  BY <1>3 DEF A!ServeError, A!RefreshFails
<1>4. CASE A!Store(r, Token(r).kid)
  BY <1>4 DEF A!Store
<1>5. CASE A!Reread(r, Token(r).kid)
  BY <1>5 DEF A!Reread, A!Verdict
<1>6. CASE A!Expire \/ A!Rotate
  BY <1>6 DEF A!Expire, A!Rotate
<1> QED
  BY <1>1, <1>2, <1>3, <1>4, <1>5, <1>6 DEF A!GetKey

LEMMA KeysKept == HInv /\ TypeOK /\ KInv /\ [Next]_vars => KInv'
<1> SUFFICES ASSUME HInv, TypeOK, KInv, [Next]_vars
             PROVE  KInv'
  OBVIOUS
<1>1. /\ req' = req /\ config' = config
      /\ (spoiled => spoiled') /\ (spoiled \/ Unspoiled)'
  <2>1. ASSUME UNCHANGED <<req, authVars>>
        PROVE  (spoiled => spoiled') /\ (spoiled \/ Unspoiled)'
    BY <2>1 DEF authVars, KInv, Unspoiled, Token
  <2>2. CASE UNCHANGED vars
    BY <2>1, <2>2 DEF vars, dispatcherVars, identity
  <2>3. ASSUME NEW r \in Request, Hop(r)
        PROVE  /\ req' = req /\ config' = config
               /\ (spoiled => spoiled') /\ (spoiled \/ Unspoiled)'
    <3>1. req' = req /\ config' = config
      BY <2>3 DEF Hop, Preflight, CorsPasses, TokenPasses, TokenRefused, InjectTenant,
         TenantRefused, LicenseAdmits, LicenseRefuses, AuthAsksKey, AuthPasses, AuthRefuses,
         SetContext, unchangedByHops
    <3>2. UNCHANGED authVars \/ A!GetKey(r, Token(r).kid)
      BY <2>3 DEF Hop, Preflight, CorsPasses, TokenPasses, TokenRefused, InjectTenant,
         TenantRefused, LicenseAdmits, LicenseRefuses, AuthAsksKey, AuthPasses, AuthRefuses,
         SetContext
    <3> QED
      BY <2>1, <3>1, <3>2, KeyStep DEF TypeOK, KInv
  <2>4. ASSUME NEW r \in Request, PluginsRest, DispatcherStep(r)
        PROVE  /\ req' = req /\ config' = config
               /\ (spoiled => spoiled') /\ (spoiled \/ Unspoiled)'
    <3>1. req' = req
      BY <2>4 DEF DispatcherStep, Match, NotFound, Proceed, Forbid, Busy, Refuse, Proxy,
         HandleError, Record, Audit, Inform, UpstreamAnswers, RoundTripFails, CopyEnds,
         CopyBreaks, Disconnect, Deadline, identity
    <3> QED
      BY <2>1, <2>4, <3>1 DEF PluginsRest
  <2>5. CASE KeysChange
    <3>1. req' = req /\ config' = config
      BY <2>5 DEF KeysChange, dispatcherVars, identity
    <3>2. (spoiled => spoiled') /\ (spoiled \/ Unspoiled)'
      <4> USE DEF A!TypeOK, A!cache, Unspoiled, Token
      <4> QED
        BY <2>5, <3>1 DEF KeysChange, A!Expire, A!Rotate, KInv
    <3> QED
      BY <3>1, <3>2
  <2> QED
    BY <2>2, <2>3, <2>4, <2>5 DEF Next, vars, dispatcherVars, identity
<1>2. ASSUME NEW q \in Request, stopped'[q] = "auth", Valid(q), Verifiable(q),
             Token(q).kid \in Steady
      PROVE  spoiled
  <2>1. CASE stopped[q] = "auth"
    BY <1>2, <2>1 DEF KInv, SteadyTokenPasses
  <2>2. CASE stopped[q] # "auth"
    <3>1. PICK r \in Request : Hop(r) /\ stopped' # stopped
      BY <1>2, <2>2 DEF Next, vars, PluginsRest, KeysChange
    <3>2. Answer(r)
      BY <3>1 DEF Hop, Preflight, CorsPasses, TokenPasses, TokenRefused, InjectTenant,
         TenantRefused, LicenseAdmits, LicenseRefuses, AuthAsksKey, AuthPasses, AuthRefuses,
         SetContext, CallNext
    <3>3. r = q /\ config.chain[hop[r]] = "auth"
      BY <1>2, <2>2, <3>2 DEF Answer, HInv, HeaderShape
    <3>4. AuthRefuses(q)
      BY <3>1, <3>3 DEF Hop, Preflight, CorsPasses, TokenPasses, TokenRefused, InjectTenant,
         TenantRefused, LicenseAdmits, LicenseRefuses, AuthAsksKey, AuthPasses,
         SetContext, AtHop, CallNext
    <3>5. call[q] = "denied"
      BY <1>2, <3>4 DEF AuthRefuses, Valid
    <3> QED
      BY <1>2, <3>5 DEF KInv, Unspoiled
  <2> QED
    BY <2>1, <2>2
<1>3. SteadyTokenPasses'
  BY <1>1, <1>2 DEF SteadyTokenPasses, Valid, HasToken, Verifiable, Token
<1> QED
  BY <1>1, <1>3 DEF KInv

LEMMA InitKeys == Init => KInv
BY SteadyAssumption, NoneAssumption DEF Init, A!Init, KInv, Unspoiled, SteadyTokenPasses

-----------------------------------------------------------------------------
(* The audit log and the metrics. *)

Routed == {"entered", "dialing", "failed", "copying", "handled", "recorded"}

\* A request is audited once, at its end, as it is then; and the names of its
\* context are those that a standard route's upstream was told.
Audited(r) ==
    /\ pc[r] \in Routed => entry[r] \in DOMAIN Routes
    /\ events[r] # {} => pc[r] = "done" /\ events[r] = {Event(r)}
    /\ Asked(r) /\ ~RouteOf(r).sse =>
          /\ actor[r].subject \in {None, told[r].subject}
          /\ actor[r].tenant \in {None, told[r].tenant}

\* The requests that have been counted under a route and a status, as far as
\* the audit log shows it.
Placed(i, s) == {r \in Request : /\ pc[r] = "recorded" \/ events[r] # {}
                                 /\ entry[r] = i /\ code[r] = s}

Balanced == \A i \in DOMAIN Routes, s \in Status :
    Routes[i].audit => counts[i][s] = Cardinality(Placed(i, s))

AInv ==
    /\ DOMAIN events = Request
    /\ \A r \in Request : Audited(r)
    /\ Balanced

LEMMA AuditedStays ==
    ASSUME NEW q \in Request, Audited(q), pc'[q] = pc[q], entry'[q] = entry[q],
           code'[q] = code[q], events'[q] = events[q], actor'[q] = actor[q],
           told'[q] = told[q]
    PROVE  Audited(q)'
BY DEF Audited, Event, Asked, RouteOf

\* What a step of the chain leaves to the audit.
LEMMA HopIsQuiet ==
    ASSUME HInv, TypeOK, NEW r \in Request, Hop(r)
    PROVE  /\ UNCHANGED <<events, counts, entry, code, told>>
           /\ pc[r] = "plugins" /\ pc'[r] \in {"plugins", "new", "done"}
           /\ \A q \in Request : q # r => pc'[q] = pc[q] /\ actor'[q] = actor[q]
<1>1. UNCHANGED <<events, counts, entry, code, told>>
  BY DEF Hop, Preflight, CorsPasses, TokenPasses, TokenRefused, InjectTenant, TenantRefused,
         LicenseAdmits, LicenseRefuses, AuthAsksKey, AuthPasses, AuthRefuses, SetContext,
         unchangedByHops, recorder, metrics
<1>2. /\ pc[r] = "plugins" /\ pc'[r] \in {"plugins", "new", "done"}
      /\ \A q \in Request : q # r => pc'[q] = pc[q]
  BY DEF Hop, Preflight, CorsPasses, TokenPasses, TokenRefused, InjectTenant, TenantRefused,
         LicenseAdmits, LicenseRefuses, AuthAsksKey, AuthPasses, AuthRefuses, SetContext,
         AtHop, CallNext, Answer, TypeOK
<1>3. \A q \in Request : q # r => actor'[q] = actor[q]
  BY DEF Hop, Preflight, CorsPasses, TokenPasses, TokenRefused, InjectTenant, TenantRefused,
         LicenseAdmits, LicenseRefuses, AuthAsksKey, AuthPasses, AuthRefuses, SetContext,
         WithIdentity, HInv, IInv, Shape
<1> QED
  BY <1>1, <1>2, <1>3

\* What a step of the dispatcher leaves to it, Record and Audit apart.
LEMMA DispatcherIsQuiet ==
    ASSUME HInv, TypeOK, NEW r \in Request, DispatcherStep(r), ~Record(r), ~Audit(r)
    PROVE  /\ UNCHANGED <<events, counts, actor>>
           /\ pc[r] \notin {"recorded", "done"} /\ pc'[r] # "recorded"
           /\ \A q \in Request : q # r =>
                pc'[q] = pc[q] /\ entry'[q] = entry[q] /\ code'[q] = code[q]
                  /\ told'[q] = told[q]
<1>1. UNCHANGED <<events, counts, actor>>
  BY DEF DispatcherStep, Match, NotFound, Proceed, Forbid, Busy, Refuse, Proxy,
         HandleError, Inform, UpstreamAnswers, RoundTripFails, CopyEnds,
         CopyBreaks, Disconnect, Deadline, identity, metrics
<1>2. /\ pc[r] \notin {"recorded", "done"} /\ pc'[r] # "recorded"
      /\ \A q \in Request : q # r => pc'[q] = pc[q]
  BY DEF DispatcherStep, Match, NotFound, Proceed, Forbid, Busy, Refuse, Goto, Proxy,
         HandleError, Inform, UpstreamAnswers, RoundTripFails, CopyEnds,
         CopyBreaks, Disconnect, Deadline, InProxy, TypeOK
<1>3. \A q \in Request : q # r => entry'[q] = entry[q] /\ told'[q] = told[q]
  BY DEF DispatcherStep, Match, NotFound, Proceed, Forbid, Busy, Refuse, Proxy,
         HandleError, Inform, UpstreamAnswers, RoundTripFails, CopyEnds,
         CopyBreaks, Disconnect, Deadline, HInv, IInv, Shape
<1>4. \A q \in Request : q # r => code'[q] = code[q]
  BY DEF DispatcherStep, Match, NotFound, Proceed, Forbid, Busy, Refuse, Proxy, WriteHeader,
         HandleError, Inform, UpstreamAnswers, RoundTripFails, CopyEnds,
         CopyBreaks, Disconnect, Deadline, recorder, TypeOK
<1> QED
  BY <1>1, <1>2, <1>3, <1>4

\* A step that moves nobody into or out of the counted changes no count.
LEMMA QuietBalance ==
    ASSUME AInv, NEW r \in Request, UNCHANGED <<events, counts>>,
           pc[r] \notin {"recorded", "done"}, pc'[r] # "recorded",
           \A q \in Request : q # r =>
              pc'[q] = pc[q] /\ entry'[q] = entry[q] /\ code'[q] = code[q]
    PROVE  Balanced'
<1>1. events[r] = {}
  BY DEF AInv, Audited
<1>2. \A i, s : Placed(i, s)' = Placed(i, s)
  BY <1>1 DEF Placed
<1> QED
  BY <1>2 DEF AInv, Balanced

\* The route's checks and the upstream's headers use the same context.
LEMMA ProxyAudits ==
    ASSUME HInv, TypeOK, AInv, NEW r \in Request, Proxy(r)
    PROVE  Audited(r)'
<1>1. /\ pc[r] = "entered" /\ pc'[r] = "dialing" /\ entry' = entry /\ actor' = actor
      /\ events' = events /\ told'[r] = UpstreamHeaders(r)
  BY DEF Proxy, Goto, identity, metrics, HInv, IInv, Shape
<1>2. entry[r] \in DOMAIN Routes /\ events[r] = {}
  BY <1>1 DEF AInv, Audited, Routed
<1>3. ~RouteOf(r).sse =>
         /\ actor[r].subject \in {None, UpstreamHeaders(r).subject}
         /\ actor[r].tenant \in {None, UpstreamHeaders(r).tenant}
  BY DEF UpstreamHeaders, InjectUpstreamHeaders
<1>4. RouteOf(r)' = RouteOf(r)
  BY <1>1 DEF RouteOf
<1> QED
  BY <1>1, <1>2, <1>3, <1>4 DEF Audited, Routed

\* A request that moves on in front of, within or behind the proxy.
LEMMA OthersAudit ==
    ASSUME HInv, TypeOK, AInv, NEW r \in Request,
           DispatcherStep(r), ~Proxy(r), ~Record(r), ~Audit(r)
    PROVE  Audited(r)'
<1>1. /\ UNCHANGED <<events, actor>> /\ pc[r] \notin {"recorded", "done"}
      /\ Audited(r)
  BY DispatcherIsQuiet DEF AInv
<1>2. told' = told
  BY DEF DispatcherStep, Match, NotFound, Proceed, Forbid, Busy, Refuse,
         HandleError, Inform, UpstreamAnswers, RoundTripFails, CopyEnds,
         CopyBreaks, Disconnect, Deadline
<1>3. CASE Match(r)
  <2>1. entry'[r] \in DOMAIN Routes /\ pc[r] = "new"
    BY <1>3, FirstMatch DEF Match, Goto, TypeOK
  <2>2. ~Asked(r)
    BY <2>1 DEF HInv, IInv, RInv, Behind
  <2> QED
    BY <1>1, <1>2, <2>1, <2>2 DEF Audited, Asked
<1>4. CASE ~Match(r)
  <2>1. entry' = entry
    BY <1>4 DEF DispatcherStep, NotFound, Proceed, Forbid, Busy, Refuse,
         HandleError, Inform, UpstreamAnswers, RoundTripFails, CopyEnds,
         CopyBreaks, Disconnect, Deadline
  <2>2. pc'[r] \in Routed => pc[r] \in Routed
    BY <1>4 DEF DispatcherStep, NotFound, Proceed, Forbid, Busy, Refuse, Goto,
         HandleError, Inform, UpstreamAnswers, RoundTripFails, CopyEnds,
         CopyBreaks, Disconnect, Deadline, InProxy, Routed, TypeOK
  <2>3. RouteOf(r)' = RouteOf(r)
    BY <2>1 DEF RouteOf
  <2> QED
    BY <1>1, <1>2, <2>1, <2>2, <2>3 DEF Audited, Asked
<1> QED
  BY <1>3, <1>4

\* The request that is counted joins those that are placed there.
LEMMA RecordBalances ==
    ASSUME TypeOK, AInv, NEW r \in Request, Record(r)
    PROVE  AInv'
<1>1. /\ pc[r] = "handled" /\ pc' = [pc EXCEPT ![r] = "recorded"]
      /\ UNCHANGED <<events, entry, code, actor, told>>
  BY DEF Record, Goto, identity, recorder
<1>2. pc'[r] = "recorded" /\ \A q \in Request : q # r => pc'[q] = pc[q]
  BY <1>1 DEF TypeOK
<1>3. entry[r] \in DOMAIN Routes /\ code[r] \in Status /\ events[r] = {}
  BY <1>1 DEF AInv, Audited, Routed, TypeOK
<1>4. \A q \in Request : Audited(q)'
  <2>1. Audited(r)'
    BY <1>1, <1>2, <1>3 DEF AInv, Audited, Routed, Asked, RouteOf
  <2>2. \A q \in Request : q # r => Audited(q)'
    BY <1>1, <1>2, AuditedStays DEF AInv
  <2> QED
    BY <2>1, <2>2
<1>5. ASSUME NEW i \in DOMAIN Routes, NEW s \in Status, Routes[i].audit
      PROVE  counts'[i][s] = Cardinality(Placed(i, s)')
  <2>1. counts[i][s] = Cardinality(Placed(i, s))
    BY <1>5 DEF AInv, Balanced
  <2>2. CASE i = entry[r] /\ s = code[r]
    <3>1. Placed(i, s)' = Placed(i, s) \cup {r} /\ r \notin Placed(i, s)
      BY <1>1, <1>2, <1>3, <2>2 DEF Placed
    <3>2. IsFiniteSet(Placed(i, s))
      BY RequestAssumption, FS_Subset DEF Placed
    <3>3. Cardinality(Placed(i, s)') = Cardinality(Placed(i, s)) + 1
      BY <3>1, <3>2, FS_AddElement
    <3>4. counts'[i][s] = counts[i][s] + 1
      BY <1>3, <2>2 DEF Record, TypeOK
    <3> QED
      BY <2>1, <3>3, <3>4
  <2>3. CASE ~(i = entry[r] /\ s = code[r])
    <3>1. Placed(i, s)' = Placed(i, s)
      BY <1>1, <1>2, <1>3, <2>3 DEF Placed
    <3>2. counts'[i][s] = counts[i][s]
      BY <1>3, <2>3 DEF Record, TypeOK
    <3> QED
      BY <2>1, <3>1, <3>2
  <2> QED
    BY <2>2, <2>3
<1> QED
  BY <1>1, <1>4, <1>5 DEF AInv, Balanced

\* The audit event takes the place of the count that had none yet.
LEMMA AuditBalances ==
    ASSUME TypeOK, AInv, NEW r \in Request, Audit(r)
    PROVE  AInv'
<1>1. /\ pc[r] = "recorded" /\ pc' = [pc EXCEPT ![r] = "done"]
      /\ events' = [events EXCEPT ![r] = IF RouteOf(r).audit THEN @ \cup {Event(r)} ELSE @]
      /\ UNCHANGED <<counts, entry, code, actor, told>>
  BY DEF Audit, Goto, identity, recorder
<1>2. pc'[r] = "done" /\ \A q \in Request : q # r => pc'[q] = pc[q] /\ events'[q] = events[q]
  BY <1>1 DEF TypeOK, AInv
<1>3. events[r] = {} /\ DOMAIN events = Request
  BY <1>1 DEF AInv, Audited
<1>4. events'[r] = IF RouteOf(r).audit THEN {Event(r)} ELSE {}
  BY <1>1, <1>3
<1>5. Event(r)' = Event(r) /\ RouteOf(r)' = RouteOf(r)
  BY <1>1 DEF Event, RouteOf
<1>6. Audited(r)'
  BY <1>1, <1>2, <1>4, <1>5 DEF AInv, Audited, Routed, Asked
<1>7. \A q \in Request : q # r => Audited(q)'
  BY <1>1, <1>2, AuditedStays DEF AInv
<1>8. ASSUME NEW i \in DOMAIN Routes, NEW s \in Status, Routes[i].audit
      PROVE  Placed(i, s)' = Placed(i, s)
  <2>1. entry[r] = i => events'[r] # {}
    BY <1>4, <1>8 DEF RouteOf
  <2> QED
    BY <1>1, <1>2, <2>1 DEF Placed
<1> QED
  BY <1>1, <1>3, <1>6, <1>7, <1>8 DEF AInv, Balanced

LEMMA AuditKept == HInv /\ TypeOK /\ AInv /\ [Next]_vars => AInv'
<1> SUFFICES ASSUME HInv, TypeOK, AInv, [Next]_vars
             PROVE  AInv'
  OBVIOUS
<1>1. CASE UNCHANGED <<events, counts, pc, entry, code, actor, told>>
  <2>1. \A q \in Request : Audited(q)'
    BY <1>1, AuditedStays DEF AInv
  <2>2. \A i, s : Placed(i, s)' = Placed(i, s)
    BY <1>1 DEF Placed
  <2> QED
    BY <1>1, <2>1, <2>2 DEF AInv, Balanced
<1>2. ASSUME NEW r \in Request, Hop(r)
      PROVE  AInv'
  <2>1. /\ UNCHANGED <<events, counts, entry, code, told>>
        /\ pc[r] = "plugins" /\ pc'[r] \in {"plugins", "new", "done"}
        /\ \A q \in Request : q # r => pc'[q] = pc[q] /\ actor'[q] = actor[q]
    BY <1>2, HopIsQuiet
  <2>2. Balanced'
    BY <2>1, QuietBalance
  <2>3. \A q \in Request : q # r => Audited(q)'
    BY <2>1, AuditedStays DEF AInv
  <2>4. Audited(r)'
    <3>1. ~Asked(r) /\ events[r] = {}
      BY <2>1 DEF HInv, IInv, RInv, Behind, AInv, Audited
    <3> QED
      BY <2>1, <3>1 DEF Audited, Asked, Routed
  <2> QED
    BY <2>1, <2>2, <2>3, <2>4 DEF AInv
<1>3. ASSUME NEW r \in Request, PluginsRest, DispatcherStep(r)
      PROVE  AInv'
  <2>1. CASE Record(r)
    BY <2>1, RecordBalances
  <2>2. CASE Audit(r)
    BY <2>2, AuditBalances
  <2>3. CASE ~Record(r) /\ ~Audit(r)
    <3>1. /\ UNCHANGED <<events, counts, actor>>
          /\ pc[r] \notin {"recorded", "done"} /\ pc'[r] # "recorded"
          /\ \A q \in Request : q # r =>
               pc'[q] = pc[q] /\ entry'[q] = entry[q] /\ code'[q] = code[q]
                 /\ told'[q] = told[q]
      BY <1>3, <2>3, DispatcherIsQuiet
    <3>2. Balanced'
      BY <3>1, QuietBalance
    <3>3. \A q \in Request : q # r => Audited(q)'
      BY <3>1, AuditedStays DEF AInv
    <3>4. Audited(r)'
      BY <1>3, <2>3, ProxyAudits, OthersAudit
    <3> QED
      BY <3>1, <3>2, <3>3, <3>4 DEF AInv
  <2> QED
    BY <2>1, <2>2, <2>3
<1> QED
  BY <1>1, <1>2, <1>3
  DEF Next, KeysChange, vars, dispatcherVars, identity, recorder, metrics

LEMMA InitAudit == Init => AInv
<1> SUFFICES ASSUME Init
             PROVE  AInv
  OBVIOUS
<1>1. \A i, s : Placed(i, s) = {}
  BY DEF Init, DispatcherInit, Placed
<1>2. \A r \in Request : Audited(r)
  BY DEF Init, DispatcherInit, Audited, Routed, Asked
<1> QED
  BY <1>1, <1>2, FS_EmptySet DEF Init, DispatcherInit, AInv, Balanced

LEMMA AuditImplied == AInv => AuditMatchesMetrics
<1> SUFFICES ASSUME AInv
             PROVE  AuditMatchesMetrics
  OBVIOUS
<1>1. ASSUME NEW i \in DOMAIN Routes, NEW s \in Status
      PROVE  Placed(i, s) =
               {r \in Request : \/ \E e \in events[r] : e.route = i /\ e.status = s
                                \/ entry[r] = i /\ pc[r] = "recorded" /\ code[r] = s}
  <2>1. ASSUME NEW r \in Request
        PROVE  (\E e \in events[r] : e.route = i /\ e.status = s)
                 <=> events[r] # {} /\ entry[r] = i /\ code[r] = s
    BY DEF AInv, Audited, Event
  <2> QED
    BY <2>1 DEF Placed
<1>2. ASSUME NEW r \in Request, Asked(r), ~RouteOf(r).sse, NEW e \in events[r]
      PROVE  /\ e.subject \in {None, told[r].subject}
             /\ e.tenant \in {None, told[r].tenant}
  BY <1>2 DEF AInv, Audited, Event
<1> QED
  BY <1>1, <1>2 DEF AInv, Balanced, AuditMatchesMetrics

-----------------------------------------------------------------------------
PInv == HInv /\ TypeOK /\ KInv /\ AInv

LEMMA WholeInvariant == Spec => []PInv
<1>1. Init => PInv
  BY InitEstablishesHeaders, InitTypes, InitKeys, InitAudit DEF PInv
<1>2. PInv /\ [Next]_vars => PInv'
  BY NextKeepsHeaders, TypesKept, KeysKept, AuditKept DEF PInv
<1> QED
  BY <1>1, <1>2, PTL DEF Spec

\* Types; only a status that a route gives is recorded, and no counter of
\* /metrics is ever negative, for any chain and any routes.
THEOREM TypeCorrect == Spec => []TypeOK
<1>1. PInv => TypeOK
  BY DEF PInv
<1> QED
  BY <1>1, WholeInvariant, PTL

\* However the requests' fetches interleave with each other, with the ttl and
\* with rotations, auth refuses a valid token of a steady key only if a fetch
\* has failed (auth/jwks.go:74-101).
THEOREM SteadyTokenPassesHolds == Spec => []SteadyTokenPasses
<1>1. PInv => SteadyTokenPasses
  BY DEF PInv, KInv
<1> QED
  BY <1>1, WholeInvariant, PTL

\* Whatever a route's chain answers and however requests interleave, an audited
\* route's log and its counters agree, status by status, and the log names whom
\* the upstream was told of (dispatcher.go:177-203, 285-290).
THEOREM AuditMatchesMetricsHolds == Spec => []AuditMatchesMetrics
<1>1. PInv => AuditMatchesMetrics
  BY AuditImplied DEF PInv
<1> QED
  BY <1>1, WholeInvariant, PTL
=============================================================================
