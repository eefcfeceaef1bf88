---------------------------- MODULE TenantInjector ----------------------------
(***************************************************************************)
(* The tenant-injector plugin: an LRU+TTL cache in front of an external   *)
(* tenant directory, with singleflight between them.                      *)
(*                                                                         *)
(* One goroutine per request.  Steps are cut at the critical sections of   *)
(* the cache's mutex and of the singleflight group and around the HTTP     *)
(* call; what a handler does with the result (status, allowlist, header)  *)
(* touches nothing shared and is part of the step that gives it the       *)
(* result.  The directory and the clock are the environment: directory[p] *)
(* is the history of p's answers, a version being a position in it, so    *)
(* that an answer's age can be told.                                       *)
(***************************************************************************)
EXTENDS LRUCache

CONSTANTS
    Request, Principal, Tenant,
    Askings,      \* which principals the requests may come from: a set of
                  \* functions from Request to Principal \cup {NoPrincipal}
    NoPrincipal,  \* no claims, or the principal's claim absent or empty
    NoTenant,     \* the directory's 404, or an answer without a tenant id
    Says,         \* per principal: what the directory may say, in Tenant or NoTenant
    Allowlist,    \* admitted tenants; the empty set admits every tenant
    MaxEntries, TTL, NegativeTTL,   \* lookup.cache
    Timeout,      \* lookup.timeout_ms
    Prompt,       \* do running goroutines take less than a tick of the clock?
    Horizon,      \* bound: the last moment of the clock
    Versions      \* bound: answers each principal has in the directory over time

ASSUME AskingAssumption == Askings \subseteq [Request -> Principal \cup {NoPrincipal}]
ASSUME NoneAssumption == NoPrincipal \notin Principal /\ NoTenant \notin Tenant
ASSUME DirectoryAssumption == Says \in [Principal -> SUBSET (Tenant \cup {NoTenant})]
ASSUME AllowlistAssumption == Allowlist \subseteq Tenant
ASSUME CacheAssumption ==
    /\ MaxEntries \in Nat \ {0}
    /\ TTL \in Nat \ {0}
    /\ NegativeTTL \in Int
ASSUME TimeAssumption ==
    /\ Timeout \in Nat \ {0}
    /\ Prompt \in BOOLEAN
    /\ Horizon \in Nat
    /\ Versions \in [Principal -> Nat \ {0}]

VARIABLES
    now,        \* the clock
    principal,  \* of each request, from its claims
    directory,  \* per principal: a sequence of [value, until]
    cache,      \* lruList and lruMap; an entry is [tenant, ver, expires]
    flight,     \* sfGroup: the lookup in progress of each principal
    pc,         \* "new", "missed", "leading", "waiting" or "done"
    answer,     \* what a request ended with
    floor       \* history: newest version answered before a request arrived

world == <<now, principal, directory>>
vars == <<now, principal, directory, cache, flight, pc, answer, floor>>

Failure == {"lookup_timeout", "lookup_network_error"}
Idle == [phase |-> "idle", tenant |-> NoTenant, ver |-> 0, err |-> "none", deadline |-> 0]

Current(p) == Len(directory[p])
TenantAt(p, v) == directory[p][v].value

-----------------------------------------------------------------------------
(* What the handler makes of a result. *)

Ends(kind, t) == [kind |-> kind, tenant |-> t]

\* Not found, not in the allowlist, or injected and served.
Derived(t) ==
    CASE t = NoTenant -> Ends("principal_not_found", NoTenant)
      [] t # NoTenant /\ Allowlist # {} /\ t \notin Allowlist
            -> Ends("tenant_not_in_allowlist", NoTenant)
      [] OTHER -> Ends("served", t)

Pending == Ends("none", NoTenant)
Failed(err) == Ends(err, NoTenant)

Answered(ends, v) == [ends |-> ends, ver |-> v]

Newest(p) == Max({0} \cup {answer[q].ver : q \in {x \in Request : principal[x] = p}})

-----------------------------------------------------------------------------
Init ==
    /\ now = 0
    /\ principal \in Askings
    /\ \E said \in [Principal -> Tenant \cup {NoTenant}] :
          /\ \A p \in Principal : said[p] \in Says[p]
          /\ directory = [p \in Principal |-> <<[value |-> said[p], until |-> 0]>>]
    /\ cache = Empty
    /\ flight = [p \in Principal |-> Idle]
    /\ pc = [r \in Request |-> "new"]
    /\ answer = [r \in Request |-> Answered(Pending, 0)]
    /\ floor = [r \in Request |-> 0]

Goto(r, from, to) ==
    /\ pc[r] = from
    /\ pc' = [pc EXCEPT ![r] = to]

-----------------------------------------------------------------------------
(* The cache. *)

Fresh(p) == Live(cache, p, now)

\* A tenant is stored for the ttl, its absence for the negative one.
Entry(t, v) == [tenant |-> t, ver |-> v,
                expires |-> now + (IF t = NoTenant THEN NegativeTTL ELSE TTL)]

CacheSet(p, t, v) == cache' = Put(cache, p, Entry(t, v), MaxEntries)

-----------------------------------------------------------------------------
(* resolveTenant, up to the lookup. *)

\* The handler's first early returns: no claims, no principal.
ClaimMissing(r) ==
    /\ principal[r] = NoPrincipal
    /\ Goto(r, "new", "done")
    /\ answer' = [answer EXCEPT ![r] = Answered(Failed("claim_missing"), 0)]
    /\ UNCHANGED <<world, cache, flight, floor>>

\* What a live entry says.
Kept(p) == Answered(Derived(cache.entry[p].tenant), cache.entry[p].ver)

\* Mutant: a hit starts the entry's time to live anew.
CacheHitSliding(r) ==
    LET p == principal[r] IN
    /\ p \in Principal /\ Fresh(p)
    /\ Goto(r, "new", "done")
    /\ cache' = Put(cache, p, Entry(cache.entry[p].tenant, cache.entry[p].ver), MaxEntries)
    /\ answer' = [answer EXCEPT ![r] = Kept(p)]
    /\ floor' = [floor EXCEPT ![r] = Newest(p)]
    /\ UNCHANGED <<world, flight>>

\* A live entry answers at once and moves to the front.
CacheHit(r) ==
    LET p == principal[r] IN
    /\ p \in Principal /\ Fresh(p)
    /\ Goto(r, "new", "done")
    /\ cache' = Hit(cache, p)
    /\ answer' = [answer EXCEPT ![r] = Kept(p)]
    /\ floor' = [floor EXCEPT ![r] = Newest(p)]
    /\ UNCHANGED <<world, flight>>

CacheMiss(r) ==
    LET p == principal[r] IN
    /\ p \in Principal /\ ~Fresh(p)
    /\ Goto(r, "new", "missed")
    /\ cache' = Forget(cache, p)
    /\ floor' = [floor EXCEPT ![r] = Newest(p)]
    /\ UNCHANGED <<world, flight, answer>>

\* sfGroup.Do when a call for the key is in progress: wait for its result.
JoinFlight(r) ==
    LET p == principal[r] IN
    /\ p \in Principal /\ flight[p].phase # "idle"
    /\ Goto(r, "missed", "waiting")
    /\ UNCHANGED <<world, cache, flight, answer, floor>>

\* Mutant: the client's timeout starts when the context's has passed.
LeadFlightTwice(r) ==
    LET p == principal[r] IN
    /\ p \in Principal /\ flight[p].phase = "idle"
    /\ Goto(r, "missed", "leading")
    /\ flight' = [flight EXCEPT
          ![p] = [Idle EXCEPT !.phase = "dialing", !.deadline = now + 2 * Timeout]]
    /\ UNCHANGED <<world, cache, answer, floor>>

\* sfGroup.Do when there is none: lead, without another look at the cache.
LeadFlight(r) ==
    LET p == principal[r] IN
    /\ p \in Principal /\ flight[p].phase = "idle"
    /\ Goto(r, "missed", "leading")
    /\ flight' = [flight EXCEPT
          ![p] = [Idle EXCEPT !.phase = "dialing", !.deadline = now + Timeout]]
    /\ UNCHANGED <<world, cache, answer, floor>>

-----------------------------------------------------------------------------
(* doHTTPLookup and what the leader does with its result. *)

\* The directory composes its answer; the answer is on its way.
DirectoryAnswers(p) ==
    /\ flight[p].phase = "dialing"
    /\ flight' = [flight EXCEPT ![p].phase = "transit", ![p].ver = Current(p),
                                 ![p].tenant = TenantAt(p, Current(p))]
    /\ UNCHANGED <<world, cache, pc, answer, floor>>

\* 2xx with a tenant id is stored, 404 or no tenant id stored negatively.
AnswerArrives(p) ==
    /\ flight[p].phase = "transit"
    /\ flight' = [flight EXCEPT ![p].phase = "landed"]
    /\ CacheSet(p, flight[p].tenant, flight[p].ver)
    /\ UNCHANGED <<world, pc, answer, floor>>

\* A transport error, another status, an unreadable or malformed body.
LookupFails(p) ==
    /\ flight[p].phase \in {"dialing", "transit"}
    /\ flight' = [flight EXCEPT ![p].phase = "failed", ![p].err = "lookup_network_error"]
    /\ UNCHANGED <<world, cache, pc, answer, floor>>

\* The context's and the client's timeout; where the clock ends, it has passed.
LookupTimesOut(p) ==
    /\ flight[p].phase \in {"dialing", "transit"}
    /\ now >= flight[p].deadline \/ now = Horizon
    /\ flight' = [flight EXCEPT ![p].phase = "failed", ![p].err = "lookup_timeout"]
    /\ UNCHANGED <<world, cache, pc, answer, floor>>

Aboard(p) == {r \in Request : principal[r] = p /\ pc[r] \in {"leading", "waiting"}}

Outcome(p) == IF flight[p].phase = "failed"
              THEN Answered(Failed(flight[p].err), 0)
              ELSE Answered(Derived(flight[p].tenant), flight[p].ver)

\* Mutant: only the caller that led the lookup gets its result.
EndFlightForLeader(p) ==
    LET ones == {r \in Aboard(p) : pc[r] = "leading"} IN
    /\ flight[p].phase \in {"landed", "failed"}
    /\ flight' = [flight EXCEPT ![p] = Idle]
    /\ pc' = [r \in Request |-> IF r \in ones THEN "done" ELSE pc[r]]
    /\ answer' = [r \in Request |-> IF r \in ones THEN Outcome(p) ELSE answer[r]]
    /\ UNCHANGED <<world, cache, floor>>

\* Do returns: the key is free again and every caller has the same result.
EndFlight(p) ==
    /\ flight[p].phase \in {"landed", "failed"}
    /\ flight' = [flight EXCEPT ![p] = Idle]
    /\ pc' = [r \in Request |-> IF r \in Aboard(p) THEN "done" ELSE pc[r]]
    /\ answer' = [r \in Request |-> IF r \in Aboard(p) THEN Outcome(p) ELSE answer[r]]
    /\ UNCHANGED <<world, cache, floor>>

-----------------------------------------------------------------------------
(* The environment. *)

\* The principal's tenant changes in the directory.
Change(p) ==
    /\ Current(p) < Versions[p]
    /\ \E t \in Says[p] \ {TenantAt(p, Current(p))} :
          directory' = [directory EXCEPT ![p] =
             Append([@ EXCEPT ![Len(@)].until = now], [value |-> t, until |-> 0])]
    /\ UNCHANGED <<now, principal, cache, flight, pc, answer, floor>>

\* Nobody is between two steps that wait for nothing.
Settled ==
    /\ \A r \in Request : pc[r] # "missed"
    /\ \A p \in Principal :
          \/ flight[p].phase = "idle"
          \/ flight[p].phase \in {"dialing", "transit"} /\ now < flight[p].deadline

Tick ==
    /\ now < Horizon
    /\ Prompt => Settled
    /\ now' = now + 1
    /\ UNCHANGED <<principal, directory, cache, flight, pc, answer, floor>>

-----------------------------------------------------------------------------
Proceed(r) == JoinFlight(r) \/ LeadFlight(r)

Arrive(r) == ClaimMissing(r) \/ CacheHit(r) \/ CacheMiss(r)

Next ==
    \/ \E r \in Request : Arrive(r) \/ Proceed(r)
    \/ \E p \in Principal :
          \/ DirectoryAnswers(p) \/ AnswerArrives(p)
          \/ LookupFails(p) \/ LookupTimesOut(p) \/ EndFlight(p)
          \/ Change(p)
    \/ Tick

Spec == Init /\ [][Next]_vars

\* Goroutines that can run do, the clock advances, timers fire.  Of the
\* directory nothing is assumed.
Fairness ==
    /\ \A r \in Request : WF_vars(Proceed(r))
    /\ \A p \in Principal : WF_vars(LookupTimesOut(p)) /\ WF_vars(EndFlight(p))
    /\ WF_vars(Tick)

FairSpec == Spec /\ Fairness

-----------------------------------------------------------------------------
(* Properties. *)

Kind == {"none", "served", "principal_not_found", "tenant_not_in_allowlist",
         "claim_missing"} \cup Failure

TypeOK ==
    /\ now \in 0 .. Horizon
    /\ principal \in Askings
    /\ \A p \in Principal :
          /\ directory[p] \in Seq([value : Tenant \cup {NoTenant}, until : 0 .. Horizon])
          /\ Len(directory[p]) \in 1 .. Versions[p]
    /\ cache.order \in Seq(Principal)
    /\ \A p \in Held(cache) : cache.entry[p] \in
          [tenant : Tenant \cup {NoTenant}, ver : 1 .. Versions[p], expires : Int]
    /\ \A p \in Principal : flight[p] \in
          [phase : {"idle", "dialing", "transit", "landed", "failed"},
           tenant : Tenant \cup {NoTenant}, ver : 0 .. Versions[p],
           err : Failure \cup {"none"}, deadline : 0 .. Horizon + Timeout]
    /\ pc \in [Request -> {"new", "missed", "leading", "waiting", "done"}]
    /\ answer \in [Request -> [ends : [kind : Kind, tenant : Tenant \cup {NoTenant}],
                               ver : Nat]]
    /\ floor \in [Request -> Nat]

\* The list and the map of the cache hold the same keys, each once, and never
\* more than max_entries of them (plugin.go:460-498).
CacheCoherent == Coherent(cache, MaxEntries)

\* A request is never served, nor refused, by an answer about its principal
\* older than one that was given before it arrived: neither the cache nor a
\* lookup in progress goes back in time (plugin.go:350-382).
AnswersNeverGoBack == \A r \in Request :
    answer[r].ver # 0 => answer[r].ver >= floor[r]

\* What a request whose principal has tenant t is owed.
Admitted == Tenant \cap (IF Allowlist = {} THEN Tenant ELSE Allowlist)
Owed(t) == IF t \in Admitted THEN Ends("served", t)
           ELSE Ends(IF t \in Tenant THEN "tenant_not_in_allowlist"
                                     ELSE "principal_not_found", NoTenant)

R == INSTANCE RecentAnswers WITH
        Key <- Principal, Value <- Tenant \cup {NoTenant},
        Result <- Owed,
        MaxAge <- LAMBDA t : Timeout + (IF t = NoTenant THEN Max({0, NegativeTTL}) ELSE TTL),
        Failures <- {Failed(err) : err \in Failure \cup {"claim_missing"}},
        keyOf <- principal, truth <- directory,
        result <- [r \in Request |-> answer[r].ends]

\* The plugin is a cache of bounded age in front of the directory: each request
\* is served with the tenant that the directory gave for its own principal, and
\* the allowlist admits, no longer ago than the ttl and the lookup's timeout
\* together; refused for what the directory said, a missing principal no longer
\* ago than the negative ttl and the timeout; or it fails as one of the three
\* failures that nothing was cached for (plugin.go:279-389).
ImplementsRecentAnswers == R!Spec

\* Every request that missed the cache gets an answer, also when the directory
\* never does, and also the ones that only waited for another's lookup
\* (plugin.go:365-389).
MissIsAnswered == \A r \in Request :
    pc[r] \in {"missed", "leading", "waiting"} ~> pc[r] = "done"
=============================================================================
