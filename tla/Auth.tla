--------------------------------- MODULE Auth ---------------------------------
(***************************************************************************)
(* The keys of the auth package's JWKSValidator: getKey and refresh, called *)
(* by concurrent requests.                                                  *)
(*                                                                         *)
(* Unlike the token-validator's cache (JWKSCache) this one fails closed: a *)
(* refresh that fails is a refusal, whatever keys are held.  Of the clock   *)
(* only the one bit is kept that getKey reads, whether fetchAt is within    *)
(* the ttl.  Steps are cut at the sections of the RWMutex and around the    *)
(* fetch.                                                                   *)
(***************************************************************************)
CONSTANTS
    Request,
    Kid,      \* key ids that tokens name
    Steady    \* those that the endpoint publishes all the time

VARIABLES
    keys,       \* v.keys, by kid
    fresh,      \* fetchAt is set and no older than the ttl
    published,  \* what the endpoint publishes now
    call,       \* "idle", "fetching", "transit", "stored", "granted" or "denied"
    doc,        \* the document on its way to a call
    spoiled     \* history: a fetch has failed, or brought an error document

cache == <<keys, fresh>>
vars == <<keys, fresh, published, call, doc, spoiled>>

Init ==
    /\ keys = {}
    /\ fresh = FALSE
    /\ published = Kid
    /\ call = [r \in Request |-> "idle"]
    /\ doc = [r \in Request |-> {}]
    /\ spoiled = FALSE

Goto(r, from, to) ==
    /\ call[r] = from
    /\ call' = [call EXCEPT ![r] = to]

Verdict(k, held) == IF k \in held THEN "granted" ELSE "denied"

\* getKey's first section: a fresh key is used, anything else refreshes.
Ask(r, k) ==
    /\ Goto(r, "idle", IF k \in keys /\ fresh THEN "granted" ELSE "fetching")
    /\ UNCHANGED <<cache, published, doc, spoiled>>

\* The endpoint composes its document; it is on its way.
Serve(r) ==
    /\ Goto(r, "fetching", "transit")
    /\ doc' = [doc EXCEPT ![r] = published]
    /\ UNCHANGED <<cache, published, spoiled>>

\* An error answer with a JSON body: refresh looks at no status code, and the
\* body decodes to a document without keys.
ServeError(r) ==
    /\ Goto(r, "fetching", "transit")
    /\ doc' = [doc EXCEPT ![r] = {}]
    /\ spoiled' = TRUE
    /\ UNCHANGED <<cache, published>>

\* A transport error, the client's timeout, a body or a key that cannot be
\* decoded: getKey returns the error.
RefreshFails(r) ==
    /\ call[r] \in {"fetching", "transit"}
    /\ call' = [call EXCEPT ![r] = "denied"]
    /\ spoiled' = TRUE
    /\ UNCHANGED <<cache, published, doc>>

\* Mutant: only the key that was asked for is kept of the document.
StoreOne(r, k) ==
    /\ Goto(r, "transit", "stored")
    /\ keys' = doc[r] \cap {k}
    /\ fresh' = TRUE
    /\ UNCHANGED <<published, doc, spoiled>>

\* refresh's critical section: the document replaces the map.
Store(r, k) ==
    /\ Goto(r, "transit", "stored")
    /\ keys' = doc[r]
    /\ fresh' = TRUE
    /\ UNCHANGED <<published, doc, spoiled>>

\* getKey's second section: what is there by then, perhaps another's document.
Reread(r, k) ==
    /\ Goto(r, "stored", Verdict(k, keys))
    /\ UNCHANGED <<cache, published, doc, spoiled>>

GetKey(r, k) ==
    \/ Ask(r, k) \/ Serve(r) \/ ServeError(r) \/ RefreshFails(r)
    \/ Store(r, k) \/ Reread(r, k)

\* The ttl passes.
Expire ==
    /\ fresh /\ fresh' = FALSE
    /\ UNCHANGED <<keys, published, call, doc, spoiled>>

\* The endpoint's keys change, but for the steady ones.
Rotate ==
    /\ \E s \in SUBSET Kid \ {published} : Steady \subseteq s /\ published' = s
    /\ UNCHANGED <<cache, call, doc, spoiled>>

TypeOK ==
    /\ keys \subseteq Kid
    /\ fresh \in BOOLEAN
    /\ published \subseteq Kid
    /\ call \in [Request -> {"idle", "fetching", "transit", "stored", "granted", "denied"}]
    /\ doc \in [Request -> SUBSET Kid]
    /\ spoiled \in BOOLEAN
=============================================================================
