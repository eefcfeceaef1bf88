------------------------------- MODULE JWKSCache -------------------------------
(***************************************************************************)
(* The token-validator's JWKS cache: one jwksValidator, the goroutines    *)
(* that call its getKey, and the identity provider's endpoint.             *)
(*                                                                         *)
(* getKey takes the read lock, lets it go, perhaps fetches, and takes it  *)
(* again, so that other goroutines' refreshes come in between: steps are  *)
(* cut at the critical sections of the mutex and around the HTTP call.    *)
(* Nothing coalesces the fetches.  A key is identified with its kid; a    *)
(* JWKS document is the set of usable RSA keys in it.                      *)
(***************************************************************************)
EXTENDS Integers

CONSTANTS
    Request,       \* calls of getKey
    Kid,
    KidOf,         \* [Request -> Kid], from the token's header
    TTL,           \* the validator's ttl
    FetchTimeout,  \* http.Client's Timeout, 10 s
    Steady,        \* the kids the provider publishes from the start, for ever
    Prompt,        \* do running goroutines take less than a tick of the clock?
    Horizon        \* bound: the last moment of the clock

ASSUME KidAssumption == KidOf \in [Request -> Kid] /\ Steady \subseteq Kid
ASSUME TimeAssumption ==
    /\ TTL \in Nat
    /\ FetchTimeout \in Nat \ {0}
    /\ Horizon \in Nat
ASSUME PromptAssumption == Prompt \in BOOLEAN

Never == -1

VARIABLES
    now,        \* the clock
    published,  \* the keys the endpoint serves
    since,      \* history: [Kid -> when it was published, or Never]
    retired,    \* history: [Kid -> when it was withdrawn, or Never]
    keys,       \* jwksValidator.keys
    fetchAt,    \* jwksValidator.fetchAt; Never is the zero time
    held,       \* history: every kid in keys since they were last wiped
    pc,         \* "new", "refresh", "dialing", "transit", "stored", "failed", "done"
    doc,        \* per call: the document on its way
    began,      \* per call: when its fetch began
    reply       \* what getKey returned

cached == <<keys, fetchAt, held>>
provider == <<published, since, retired>>
world == <<now, provider>>
vars == <<now, published, since, retired, keys, fetchAt, held, pc, doc, began, reply>>

Fetching == {"dialing", "transit"}
Pc == Fetching \cup {"new", "refresh", "stored", "failed", "done"}

\* The three ways to get a key, the three ways to be refused.
Accepted == {"live", "stale", "fetched"}
Refused == {"unavailable", "not_in_stale_set", "no_such_key"}

Init ==
    /\ now = 0
    /\ published \in {ks \in SUBSET Kid : Steady \subseteq ks}
    /\ since = [k \in Kid |-> IF k \in published THEN 0 ELSE Never]
    /\ retired = [k \in Kid |-> Never]
    /\ keys = {}
    /\ fetchAt = Never
    /\ held = {}
    /\ pc = [r \in Request |-> "new"]
    /\ doc = [r \in Request |-> {}]
    /\ began = [r \in Request |-> Never]
    /\ reply = [r \in Request |-> "none"]

Goto(r, from, to) ==
    /\ pc[r] = from
    /\ pc' = [pc EXCEPT ![r] = to]

Return(r, from, answer) ==
    /\ Goto(r, from, "done")
    /\ reply' = [reply EXCEPT ![r] = answer]

-----------------------------------------------------------------------------
(* getKey. *)

\* time.Now().After(fetchAt.Add(ttl)) is strict: keys live to their last tick.
Expired == fetchAt = Never \/ now > fetchAt + TTL

LiveHit(r) ==
    /\ KidOf[r] \in keys /\ ~Expired
    /\ Return(r, "new", "live")
    /\ UNCHANGED <<world, cached, doc, began>>

\* Mutant: an unknown kid is refused as long as the set has not expired.
NeedsRefreshOnExpiry(r) ==
    /\ KidOf[r] \notin keys \/ Expired
    /\ IF Expired THEN Goto(r, "new", "refresh") /\ UNCHANGED <<began, reply>>
       ELSE Return(r, "new", "no_such_key") /\ began' = [began EXCEPT ![r] = now]
    /\ UNCHANGED <<world, cached, doc>>

\* An unknown kid refreshes as an expired set does.
NeedsRefresh(r) ==
    /\ KidOf[r] \notin keys \/ Expired
    /\ Goto(r, "new", "refresh")
    /\ UNCHANGED <<world, cached, doc, began, reply>>

\* After a failed refresh: the keys, as they are by then.
StaleAnswer(kid) ==
    IF kid \in keys THEN "stale" ELSE IF keys = {} THEN "unavailable"
                                                   ELSE "not_in_stale_set"

FallBack(r) ==
    /\ Return(r, "failed", StaleAnswer(KidOf[r]))
    /\ UNCHANGED <<world, cached, doc, began>>

\* After a good one: again the keys as they are by then, which another
\* goroutine may have replaced.
ReadBack(r) ==
    /\ Return(r, "stored", IF KidOf[r] \in keys THEN "fetched" ELSE "no_such_key")
    /\ UNCHANGED <<world, cached, doc, began>>

-----------------------------------------------------------------------------
(* refresh. *)

Fetch(r) ==
    /\ Goto(r, "refresh", "dialing")
    /\ began' = [began EXCEPT ![r] = now]
    /\ UNCHANGED <<world, cached, doc, reply>>

\* The endpoint composes its document; the answer is on its way.
EndpointAnswers(r) ==
    /\ Goto(r, "dialing", "transit")
    /\ doc' = [doc EXCEPT ![r] = published]
    /\ UNCHANGED <<world, cached, began, reply>>

\* It fails and says so in a JSON object: the status code is not looked at,
\* and the object decodes to a document without keys.
EndpointErrs(r) ==
    /\ Goto(r, "dialing", "transit")
    /\ doc' = [doc EXCEPT ![r] = {}]
    /\ UNCHANGED <<world, cached, began, reply>>

\* A document without keys wipes what was there.
Kept(ks) == IF ks = {} THEN {} ELSE held \cup ks

\* Mutant: the new keys are added and none is dropped.
StoreMerges(r) ==
    /\ Goto(r, "transit", "stored")
    /\ keys' = keys \cup doc[r]
    /\ fetchAt' = now
    /\ held' = Kept(doc[r])
    /\ doc' = [doc EXCEPT ![r] = {}]
    /\ UNCHANGED <<world, began, reply>>

\* Mutant: fetchAt is set to when the keys expire.
StoreExpiry(r) ==
    /\ Goto(r, "transit", "stored")
    /\ keys' = doc[r]
    /\ fetchAt' = now + TTL
    /\ held' = Kept(doc[r])
    /\ doc' = [doc EXCEPT ![r] = {}]
    /\ UNCHANGED <<world, began, reply>>

\* The decoded document replaces the keys, whichever fetch was begun first.
Store(r) ==
    /\ Goto(r, "transit", "stored")
    /\ keys' = doc[r]
    /\ fetchAt' = now
    /\ held' = Kept(doc[r])
    /\ doc' = [doc EXCEPT ![r] = {}]
    /\ UNCHANGED <<world, began, reply>>

\* Mutant: a failed refresh clears what was cached.
RefreshFailsClears(r) ==
    /\ pc[r] \in Fetching
    /\ pc' = [pc EXCEPT ![r] = "failed"]
    /\ doc' = [doc EXCEPT ![r] = {}]
    /\ keys' = {}
    /\ UNCHANGED <<world, fetchAt, held, began, reply>>

\* A transport error, the client's timeout, a body that does not decode, or a
\* key in it that does not.
RefreshFails(r) ==
    /\ pc[r] \in Fetching
    /\ pc' = [pc EXCEPT ![r] = "failed"]
    /\ doc' = [doc EXCEPT ![r] = {}]
    /\ UNCHANGED <<world, cached, began, reply>>

-----------------------------------------------------------------------------
(* The environment. *)

\* The provider withdraws a key for good.
Retire(k) ==
    /\ k \in published \ Steady
    /\ published' = published \ {k}
    /\ retired' = [retired EXCEPT ![k] = now]
    /\ UNCHANGED <<now, since, cached, pc, doc, began, reply>>

\* The provider publishes a key it has not published before.
Publish(k) ==
    /\ since[k] = Never
    /\ published' = published \cup {k}
    /\ since' = [since EXCEPT ![k] = now]
    /\ UNCHANGED <<now, retired, cached, pc, doc, began, reply>>

Overdue(r) == now >= began[r] + FetchTimeout

\* Nobody is between two steps that wait for nothing.
Settled == \A r \in Request :
    \/ pc[r] \in {"new", "done"}
    \/ pc[r] \in Fetching /\ ~Overdue(r)

Tick ==
    /\ now < Horizon
    /\ Prompt => Settled
    /\ now' = now + 1
    /\ UNCHANGED <<provider, cached, pc, doc, began, reply>>

-----------------------------------------------------------------------------
Proceed(r) == FallBack(r) \/ ReadBack(r) \/ Fetch(r)

\* Mutant: the timeout covers the answer's header and not its body.
TimesOutHeaderOnly(r) ==
    pc[r] = "dialing" /\ (Overdue(r) \/ now = Horizon) /\ RefreshFails(r)

\* Where the clock ends, the timeout of a pending fetch has passed.
TimesOut(r) == (Overdue(r) \/ now = Horizon) /\ RefreshFails(r)

Next ==
    \/ \E r \in Request :
          \/ LiveHit(r) \/ NeedsRefresh(r) \/ Proceed(r)
          \/ EndpointAnswers(r) \/ EndpointErrs(r) \/ Store(r) \/ RefreshFails(r)
    \/ \E k \in Kid : Retire(k) \/ Publish(k)
    \/ Tick

Spec == Init /\ [][Next]_vars

\* Goroutines that can run do, the clock advances, the client's timer fires.
\* Of the endpoint nothing is assumed.
Fairness ==
    /\ \A r \in Request : WF_vars(Proceed(r)) /\ WF_vars(TimesOut(r))
    /\ WF_vars(Tick)

FairSpec == Spec /\ Fairness

-----------------------------------------------------------------------------
(* Properties. *)

Moment == {Never} \cup 0 .. Horizon

TypeOK ==
    /\ now \in 0 .. Horizon
    /\ published \in SUBSET Kid
    /\ since \in [Kid -> Moment]
    /\ retired \in [Kid -> Moment]
    /\ keys \in SUBSET Kid
    /\ fetchAt \in Moment
    /\ held \in SUBSET Kid
    /\ pc \in [Request -> Pc]
    /\ doc \in [Request -> SUBSET Kid]
    /\ began \in [Request -> Moment]
    /\ reply \in [Request -> {"none"} \cup Accepted \cup Refused]

\* A key that was withdrawn verifies no token later than the ttl and the
\* client's timeout after it, unless a refresh has failed; an older answer
\* that is stored after a newer one can bring it back, within that time
\* (jwks.go:177-213, 242-245).
RetiredKeyExpires ==
    [][\A r \in Request :
          pc'[r] = "done" /\ pc[r] # "done" /\ reply'[r] \in {"live", "fetched"} =>
             \/ retired[KidOf[r]] = Never
             \/ now - retired[KidOf[r]] <= TTL + FetchTimeout]_vars

\* A kid is only refused as unknown when it was published less than the
\* client's timeout before the call's fetch began, although another call may
\* have stored an older document meanwhile; or when the last document that was
\* stored had no key at all (jwks.go:206-211).
UnknownIsNew ==
    [][\A r \in Request :
          pc'[r] = "done" /\ pc[r] # "done" /\ reply'[r] = "no_such_key" =>
             \/ KidOf[r] \notin published \/ keys = {}
             \/ since[KidOf[r]] >= began'[r] - FetchTimeout]_vars

\* A kid that every good document holds is not refused any more once it has
\* been cached, whatever fetch fails or overtakes another: previously-good
\* keys are served (jwks.go:9-10), until an error in a JSON body wipes them.
SteadyKeyServed ==
    [][\A r \in Request :
          pc'[r] = "done" /\ pc[r] # "done" /\ KidOf[r] \in Steady =>
             reply'[r] \in Accepted \/ KidOf[r] \notin held]_vars

\* Every call returns, whatever the endpoint does (jwks.go:92).
CallReturns == \A r \in Request : pc[r] = "refresh" ~> pc[r] = "done"
=============================================================================
