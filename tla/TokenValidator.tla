---------------------------- MODULE TokenValidator ----------------------------
(***************************************************************************)
(* The token-validator plugin, from its configuration to its verdict on a  *)
(* token: one request after the other, with the key sets of the issuers    *)
(* changing, expiring and failing in between.  Every entry of the pool has *)
(* a key cache of its own.  How concurrent requests share one of these is  *)
(* JWKSCache; here a key lookup is one step.                               *)
(***************************************************************************)
EXTENDS PluginConfig

CONSTANTS
    Configs,    \* the plugin's YAML blocks that Init takes
    Tokens,     \* [header, scheme, size, wellFormed, alg, iss, kid, key, exp, nbf,
                \*  aud, claims]: key is what signed it, NoExp says no exp
    URLs,       \* of JWKS endpoints; a fetch from any other URL fails
    KeySets,    \* what each endpoint may publish: functions from kids to keys
    Down,       \* an endpoint that does not answer
    Now, NoExp

ASSUME ConfigsAssumption == \A c \in Configs : InitTakes(c)
ASSUME TokensAssumption == Tokens # {} /\ \A t \in Tokens :
    t.size \in Nat /\ t.exp \in Int /\ t.nbf \in Int /\ t.key \notin {"", Mistyped}
ASSUME NowAssumption == Now \in Int

VARIABLES
    raw,        \* the configuration, and what Init has made of it
    tv,
    served,     \* what each endpoint answers
    keys,       \* jwksValidator.keys, per entry of the pool, also when two have one URL
    fresh,      \* the entries whose keys are within their TTL
    pc,         \* "idle", "screen", "lookup", "verify", "answered"
    token,
    found,      \* the key that keyfunc has returned, "" for none
    answer      \* [code, status]: the code is "next", or the refusal's

config == <<raw, tv>>
caches == <<keys, fresh>>
vars == <<raw, tv, served, keys, fresh, pc, token, found, answer>>

NoAnswer == [code |-> "", status |-> 0]

RSA == {"RS256", "RS384", "RS512"}

-----------------------------------------------------------------------------
(* The configured validator. *)

\* The key set a token without a v2 pool is checked against.
V1Pool == IF tv.jwks = "" THEN <<>> ELSE <<[issuer |-> "", url |-> tv.jwks]>>
Validators == IF tv.v2 THEN tv.pool ELSE V1Pool

\* jwt.WithValidMethods.
Methods == IF tv.testMode THEN {"HS256"} ELSE IF tv.v2 THEN tv.algorithms ELSE {"RS256"}

\* Mutant: an issuer that is not configured falls to the last entry.
FindValidatorOrLast(iss) ==
    LET named == SelectInSeq(Validators, LAMBDA e : e.issuer = iss)
    IN IF named # 0 THEN named ELSE Len(Validators)

\* findValidator: the entry of this issuer, else the last one without an issuer.
FindValidator(iss) ==
    LET named == SelectInSeq(Validators, LAMBDA e : e.issuer = iss)
    IN IF named # 0 THEN named ELSE SelectLastInSeq(Validators, LAMBDA e : e.issuer = "")

\* What a fetch for an entry gets: a document, or nothing.
Answer(i) == IF Validators[i].url \in URLs THEN served[Validators[i].url] ELSE Down

\* extractBearer and extractTokenV2.
Carried(t) ==
    IF tv.v2 THEN t.header = tv.header /\ tv.scheme \in {"", t.scheme}
    ELSE t.header = "Authorization" /\ t.scheme = "Bearer"

\* A scheme that is not stripped is part of the token, and spoils it.
WellFormed(t) == t.wellFormed /\ (tv.v2 /\ tv.scheme = "" => t.scheme = "")

-----------------------------------------------------------------------------
Init ==
    /\ raw \in Configs
    /\ tv = TVInit(TVZero, raw).tv
    /\ served = [u \in URLs |-> Down]
    /\ keys = [i \in DOMAIN Validators |-> <<>>]
    /\ fresh = {}
    /\ pc = "idle"
    /\ token = CHOOSE t \in Tokens : TRUE
    /\ found = ""
    /\ answer = NoAnswer

\* A check fails, or not; the first that does decides the answer.
Check(fails, code, kind) == [fails |-> fails, code |-> code, kind |-> kind]

First(checks) == SelectInSeq(checks, LAMBDA c : c.fails)

\* v1 answers 401 without a token, 403 to a bad one.
StatusOf(kind) ==
    IF tv.v2 THEN tv.onFailure[kind] ELSE IF kind = "missing_token" THEN 401 ELSE 403

Refuse(code, kind) ==
    /\ pc' = "answered"
    /\ answer' = [code |-> code, status |-> StatusOf(kind)]

\* Answers with the first failing check, or goes on to the next step.
Pass(checks, step) ==
    IF First(checks) # 0
    THEN Refuse(checks[First(checks)].code, checks[First(checks)].kind)
    ELSE pc' = step /\ UNCHANGED answer

-----------------------------------------------------------------------------
(* One request. *)

Arrive ==
    /\ pc = "idle"
    /\ token' \in Tokens
    /\ pc' = "screen"
    /\ UNCHANGED <<config, served, caches, found, answer>>

\* Before the signature is looked at.
Screening(t) == <<
    Check(~Carried(t), "MISSING_TOKEN", "missing_token"),
    Check(tv.v2 /\ tv.maxBytes > 0 /\ t.size > tv.maxBytes, "OVERSIZED_TOKEN", "oversized_token"),
    Check(tv.v2 /\ ~tv.testMode /\ ~WellFormed(t), "INVALID_TOKEN", "invalid_signature"),
    Check(tv.v2 /\ ~tv.testMode /\ t.alg \notin tv.algorithms,
          "DISALLOWED_ALGORITHM", "disallowed_algorithm"),
    Check(tv.v2 /\ ~tv.testMode /\ FindValidator(t.iss) = 0, "UNKNOWN_ISSUER", "unknown_issuer") >>

Screen ==
    /\ pc = "screen"
    /\ Pass(Screening(token), "lookup")
    /\ UNCHANGED <<config, served, caches, token, found>>

\* jwt.Parse up to its key function.
Parsing(t) == <<
    Check(~WellFormed(t), "INVALID_TOKEN", "invalid_signature"),
    Check(t.alg \notin Methods, "INVALID_TOKEN", "invalid_signature"),
    Check(~tv.testMode /\ t.alg \notin RSA, "INVALID_TOKEN", "invalid_signature") >>

ParseFails ==
    /\ pc = "lookup" /\ First(Parsing(token)) # 0
    /\ Pass(Parsing(token), "verify")
    /\ UNCHANGED <<config, served, caches, token, found>>

Parsed == pc = "lookup" /\ First(Parsing(token)) = 0

Resolve(key) ==
    /\ found' = key
    /\ pc' = "verify"
    /\ UNCHANGED <<config, served, token, answer>>

SecretKey ==
    /\ Parsed /\ tv.testMode
    /\ Resolve(tv.secret)
    /\ UNCHANGED caches

\* getKey, on the validator that is the i-th entry's own.
LooksUp(i) == Parsed /\ ~tv.testMode /\ i = FindValidator(token.iss)

Live(i) == token.kid \in DOMAIN keys[i] /\ i \in fresh

CachedKey(i) ==
    /\ LooksUp(i) /\ Live(i)
    /\ Resolve(keys[i][token.kid])
    /\ UNCHANGED caches

RefreshedKey(i) ==
    /\ LooksUp(i) /\ ~Live(i) /\ Answer(i) # Down
    /\ keys' = [keys EXCEPT ![i] = Answer(i)]
    /\ fresh' = fresh \cup {i}
    /\ Resolve(Get(Answer(i), token.kid, ""))

\* The stale key; a 503 when no key at all is cached.
StaleKey(i) ==
    /\ LooksUp(i) /\ ~Live(i) /\ Answer(i) = Down
    /\ keys[i] # <<>>
    /\ Resolve(Get(keys[i], token.kid, ""))
    /\ UNCHANGED caches

ColdStart(i) ==
    /\ LooksUp(i) /\ ~Live(i) /\ Answer(i) = Down
    /\ keys[i] = <<>>
    /\ IF tv.v2 THEN Refuse("JWKS_UNAVAILABLE", "jwks_unavailable")
                ELSE Refuse("INVALID_TOKEN", "invalid_signature")
    /\ UNCHANGED <<config, served, caches, token, found>>

\* The signature, then the claims: jwt reports all that is wrong with them,
\* and the handler asks for an expiry first.  In v1 they are all the same.
Expired(t) == t.exp # NoExp /\ ~(Now < t.exp + tv.skew)
NotYet(t) == Now < t.nbf - tv.skew
V1Audience(t) == tv.v2 \/ tv.audience = "" \/ tv.audience \in t.aud

Claims(t) == <<
    Check(tv.v2 /\ Expired(t), "TOKEN_EXPIRED", "expired"),
    Check(tv.v2 /\ NotYet(t), "TOKEN_NOT_YET_VALID", "not_yet_valid"),
    Check(t.exp = NoExp \/ Expired(t) \/ NotYet(t) \/ ~V1Audience(t),
          "INVALID_TOKEN", "invalid_signature"),
    Check(tv.v2 /\ tv.audiences # {} /\ t.aud \cap tv.audiences = {},
          "AUDIENCE_MISMATCH", "audience_mismatch"),
    Check(tv.v2 /\ ~(tv.required \subseteq t.claims),
          "REQUIRED_CLAIM_MISSING", "required_claim_missing") >>

Signature(t) == <<Check(t.key # found, "INVALID_TOKEN", "invalid_signature")>>

\* Mutant: the claims are read before the signature is verified.
VerifyClaimsFirst ==
    /\ pc = "verify"
    /\ First(Claims(token) \o Signature(token)) # 0
    /\ Pass(Claims(token) \o Signature(token), "answered")
    /\ UNCHANGED <<config, served, caches, token, found>>

VerifyFails ==
    /\ pc = "verify"
    /\ First(Signature(token) \o Claims(token)) # 0
    /\ Pass(Signature(token) \o Claims(token), "answered")
    /\ UNCHANGED <<config, served, caches, token, found>>

\* next.ServeHTTP with the claims in the context.
Accept ==
    /\ pc = "verify"
    /\ First(Signature(token) \o Claims(token)) = 0
    /\ pc' = "answered"
    /\ answer' = [code |-> "next", status |-> 200]
    /\ UNCHANGED <<config, served, caches, token, found>>

End ==
    /\ pc = "answered"
    /\ pc' = "idle"
    /\ token' = CHOOSE t \in Tokens : TRUE
    /\ found' = ""
    /\ answer' = NoAnswer
    /\ UNCHANGED <<config, served, caches>>

-----------------------------------------------------------------------------
(* The endpoints and the clock, between requests. *)

Serve(u) ==
    /\ pc = "idle"
    /\ \E doc \in KeySets[u] \cup {Down} : served' = [served EXCEPT ![u] = doc]
    /\ UNCHANGED <<config, caches, pc, token, found, answer>>

Expire(i) ==
    /\ pc = "idle" /\ i \in fresh
    /\ fresh' = fresh \ {i}
    /\ UNCHANGED <<config, served, keys, pc, token, found, answer>>

-----------------------------------------------------------------------------
Next ==
    \/ Arrive \/ Screen \/ ParseFails \/ SecretKey
    \/ \E i \in DOMAIN Validators :
           CachedKey(i) \/ RefreshedKey(i) \/ StaleKey(i) \/ ColdStart(i) \/ Expire(i)
    \/ VerifyFails \/ Accept \/ End
    \/ \E u \in URLs : Serve(u)

Spec == Init /\ [][Next]_vars

-----------------------------------------------------------------------------
(* Properties. *)

Codes == {"MISSING_TOKEN", "OVERSIZED_TOKEN", "INVALID_TOKEN", "DISALLOWED_ALGORITHM",
          "UNKNOWN_ISSUER", "JWKS_UNAVAILABLE", "TOKEN_EXPIRED", "TOKEN_NOT_YET_VALID",
          "AUDIENCE_MISMATCH", "REQUIRED_CLAIM_MISSING"}

\* Types; every answer has a status that net/http takes.
TypeOK ==
    /\ raw \in Configs
    /\ \A u \in URLs : served[u] \in KeySets[u] \cup {Down}
    /\ \A i \in DOMAIN Validators : keys[i] \in KeySets[Validators[i].url] \cup {<<>>}
    /\ fresh \in SUBSET DOMAIN Validators
    /\ pc \in {"idle", "screen", "lookup", "verify", "answered"}
    /\ token \in Tokens
    /\ IF pc = "answered" THEN answer.code \in Codes \cup {"next"} /\ answer.status \in 100 .. 599
                          ELSE answer = NoAnswer

\* The entries that speak for a token's issuer.
Own(t) == {i \in DOMAIN Validators : Validators[i].issuer \in {t.iss, ""}}

\* A token is genuine when the secret, or the key that its own entry, the first
\* of its issuer's, was last given under its kid, has signed it with an
\* algorithm of the configuration that goes with such a key.
Genuine(t) ==
    /\ WellFormed(t)
    /\ t.alg \in Methods
    /\ IF tv.testMode THEN t.key = tv.secret
       ELSE /\ t.alg \in RSA
            /\ \E i \in Own(t) :
                  /\ \A j \in Own(t) : i <= j
                  /\ t.kid \in DOMAIN keys[i]
                  /\ keys[i][t.kid] = t.key

\* What passes: a genuine token, within its time, with an audience and the
\* claims that are required.
Admissible(t) ==
    /\ Carried(t) /\ Genuine(t)
    /\ tv.v2 => t.size <= tv.maxBytes
    /\ t.exp # NoExp /\ t.exp + tv.skew > Now
    /\ t.nbf - tv.skew <= Now
    /\ tv.v2 /\ tv.audiences # {} => \E a \in tv.audiences : a \in t.aud
    /\ ~tv.v2 /\ tv.audience # "" => tv.audience \in t.aud
    /\ tv.v2 => \A c \in tv.required : c \in t.claims

\* The verdict, over all that reaches it: exactly the admissible tokens pass
\* (plugin.go:517-655).
PassesExactlyValid ==
    pc = "answered" => (answer.code = "next" <=> Admissible(token))

ClaimsCodes == {"TOKEN_EXPIRED", "TOKEN_NOT_YET_VALID", "AUDIENCE_MISMATCH",
                "REQUIRED_CLAIM_MISSING"}

\* What a token's claims say is told only of genuine tokens: nobody learns
\* that a token which nobody has signed is expired (plugin.go:607-643).
ClaimsJudgedAfterSignature ==
    pc = "answered" /\ answer.code \in ClaimsCodes => Genuine(token)
=============================================================================
