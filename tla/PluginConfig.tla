----------------------------- MODULE PluginConfig -----------------------------
(***************************************************************************)
(* What the plugins' Init functions make of a YAML block.  A block is a    *)
(* function on the keys that are present; a list is a set when its order   *)
(* means nothing; a value of another type than the accessor wants is       *)
(* Mistyped.  Each XInit returns [error, <plugin's fields>].                *)
(***************************************************************************)
EXTENDS Integers, SequencesExt

CONSTANTS
    Mistyped,
    AbsoluteURL,   \* URLs that Init takes: they parse, and are absolute
    LookupURL,     \* URLs that parse and hold {principal} exactly once
    SetEnv,        \* environment variables that are set and not empty
    Readable       \* files that can be stat'ed

\* MapConfig's accessors and tenantinjector's mapStr, mapInt and submap: an
\* absent or mistyped value is the zero value.
Get(raw, key, zero) ==
    IF key \in DOMAIN raw /\ raw[key] # Mistyped THEN raw[key] ELSE zero

\* A value of zero or less, and no value, is the default.
Clamped(n, default) == IF n <= 0 THEN default ELSE n

NoMap == <<>>

-----------------------------------------------------------------------------
(* token-validator *)

FailureKinds == {"missing_token", "invalid_signature", "expired", "not_yet_valid",
    "unknown_issuer", "audience_mismatch", "required_claim_missing",
    "disallowed_algorithm", "oversized_token", "jwks_unavailable"}

\* defaultFailureCodes with 401, defaultFailureCodesV1 with 403.
FailureCodes(credential) == [f \in FailureKinds |->
    CASE f = "oversized_token" -> 400
      [] f = "jwks_unavailable" -> 503
      [] OTHER -> credential]

\* Mutant: what on_failure leaves out has no default.
ParseFailureCodesGiven(m, def) == [f \in FailureKinds |-> Get(m, f, 0)]

ParseFailureCodes(m, def) == [f \in FailureKinds |-> Get(m, f, def[f])]

\* The validator before any Init.
TVZero == [v2 |-> FALSE, testMode |-> FALSE, secret |-> "", jwks |-> "", audience |-> "",
           pool |-> <<>>, algorithms |-> {}, audiences |-> {}, skew |-> 0,
           required |-> {}, propagate |-> "all", allow |-> {}, header |-> "",
           scheme |-> "", maxBytes |-> 0, onFailure |-> FailureCodes(0)]

IsV2Config(raw) == DOMAIN raw \cap
    {"issuers", "audiences", "algorithms", "clock_skew_seconds", "required_claims",
     "propagate_claims", "token", "on_failure", "max_token_bytes"} # {}

TestMode(raw) == Get(raw, "test_mode", FALSE)
Secret(raw) == Get(raw, "jwt_secret", "")
JWKSURL(raw) == Get(raw, "jwks_url", "")

InitV1(tv, raw) ==
    [error |-> IF TestMode(raw) THEN Secret(raw) = "" ELSE JWKSURL(raw) = "",
     tv |-> [tv EXCEPT !.testMode = IF TestMode(raw) THEN TRUE ELSE @,
                       !.secret = IF TestMode(raw) THEN Secret(raw) ELSE @,
                       !.jwks = IF TestMode(raw) THEN @ ELSE JWKSURL(raw),
                       !.audience = Get(raw, "audience", "")]]

\* parseIssuers, and the checks of its items: a list of [issuer, jwks_url].
Issuers(raw) == Get(raw, "issuers", <<>>)

IssuersFail(raw) ==
    \/ "issuers" \in DOMAIN raw /\ raw.issuers = Mistyped
    \/ \E i \in DOMAIN Issuers(raw) :
          \/ Get(Issuers(raw)[i], "issuer", "") = ""
          \/ Get(Issuers(raw)[i], "jwks_url", "") \notin AbsoluteURL

\* No issuers and no test mode: the v1 form within a v2 configuration.
IsShim(raw) == ~TestMode(raw) /\ Issuers(raw) = <<>>

\* One entry per issuer; the shim's only entry matches any issuer.
Pool(raw) ==
    IF IsShim(raw) THEN <<[issuer |-> "", url |-> JWKSURL(raw)]>>
    ELSE [i \in DOMAIN Issuers(raw) |->
             [issuer |-> Issuers(raw)[i].issuer, url |-> Issuers(raw)[i].jwks_url]]

Algorithms(raw) ==
    LET algs == Get(raw, "algorithms", {})
    IN IF TestMode(raw) THEN {"HS256"}
       ELSE IF algs = {} THEN {"RS256", "ES256"} ELSE algs

Audiences(raw) ==
    LET auds == Get(raw, "audiences", {})
        aud == Get(raw, "audience", "")
    IN IF auds = {} /\ IsShim(raw) /\ aud # "" THEN {aud} ELSE auds

Skew(raw) == LET n == Get(raw, "clock_skew_seconds", 0) IN IF n = 0 THEN 60 ELSE n

MaxBytes(raw) == LET n == Get(raw, "max_token_bytes", 0) IN IF n = 0 THEN 8192 ELSE n

SkewRange == 0 .. 600
BytesRange == 0 .. 65536

Required(raw) ==
    LET claims == Get(raw, "required_claims", {}) IN IF claims = {} THEN {"sub"} ELSE claims

PropagateMode(raw) ==
    LET mode == Get(Get(raw, "propagate_claims", NoMap), "mode", "")
    IN IF mode = "" THEN "all" ELSE mode

Allowed(raw) == Get(Get(raw, "propagate_claims", NoMap), "claims", {})

V2Error(raw) ==
    \/ TestMode(raw) /\ Secret(raw) = ""
    \/ ~TestMode(raw) /\ IssuersFail(raw)
    \/ IsShim(raw) /\ JWKSURL(raw) = ""
    \/ "none" \in Algorithms(raw)
    \/ Skew(raw) \notin SkewRange
    \/ PropagateMode(raw) \notin {"all", "allowlist"}
    \/ PropagateMode(raw) = "allowlist" /\ Allowed(raw) = {}
    \/ MaxBytes(raw) \notin BytesRange

InitV2(tv, raw) ==
    LET token == Get(raw, "token", NoMap)
        header == Get(token, "header", "")
    IN [error |-> V2Error(raw),
        tv |-> [tv EXCEPT
            !.testMode = IF TestMode(raw) THEN TRUE ELSE @,
            !.secret = IF TestMode(raw) THEN Secret(raw) ELSE @,
            !.jwks = IF IsShim(raw) THEN JWKSURL(raw) ELSE @,
            !.pool = IF TestMode(raw) THEN @ ELSE Pool(raw),
            !.algorithms = Algorithms(raw),
            !.audiences = IF Audiences(raw) = {} THEN @ ELSE Audiences(raw),
            !.skew = Skew(raw),
            !.required = Required(raw),
            !.propagate = PropagateMode(raw),
            !.allow = IF PropagateMode(raw) = "allowlist" THEN Allowed(raw) ELSE @,
            !.header = IF header = "" THEN "Authorization" ELSE header,
            !.scheme = Get(token, "scheme", "Bearer"),
            !.maxBytes = MaxBytes(raw),
            !.onFailure = ParseFailureCodes(Get(raw, "on_failure", NoMap),
                              FailureCodes(IF IsShim(raw) THEN 403 ELSE 401))]]

\* Mutant: the loader's check is thought to be enough.
TVInitTrusting(tv, raw) ==
    LET r == IF IsV2Config(raw) THEN InitV2(tv, raw) ELSE InitV1(tv, raw)
    IN [error |-> r.error, tv |-> [r.tv EXCEPT !.v2 = IsV2Config(raw)]]

\* TokenValidator.Init: it writes over what an earlier Init has left.
TVInit(tv, raw) ==
    LET r == IF IsV2Config(raw) THEN InitV2(tv, raw) ELSE InitV1(tv, raw)
    IN [error |-> ~Get(raw, "enabled", FALSE) \/ r.error,
        tv |-> [r.tv EXCEPT !.v2 = IsV2Config(raw)]]

\* A block that Init takes when nothing was initialised before.
InitTakes(raw) ==
    ~TVInit(TVZero, raw).error /\ Issuers(raw) \in Seq(ToSet(Issuers(raw)))

-----------------------------------------------------------------------------
(* tenant-injector *)

TIZero == [ttl |-> 0, negativeTTL |-> 0, max |-> 0, timeout |-> 0, claim |-> "", header |-> ""]

\* mapIntPresent: an explicit zero, or a mistyped value, is not an absent one.
Present(m, key, default) == IF key \in DOMAIN m THEN Get(m, key, 0) ELSE default

AuthFails(auth) ==
    CASE Get(auth, "mode", "") \in {"", "none"} -> FALSE
      [] Get(auth, "mode", "") = "bearer" -> Get(auth, "bearer_token_env", "") \notin SetEnv
      [] Get(auth, "mode", "") = "mtls" ->
             ~({Get(auth, "client_cert_path", ""), Get(auth, "client_key_path", "")} \subseteq Readable)
      [] OTHER -> TRUE

LookupMap(raw) == Get(raw, "lookup", NoMap)
CacheMap(raw) == Get(LookupMap(raw), "cache", NoMap)

PrincipalClaim(raw) == Get(Get(raw, "principal", NoMap), "claim", "")
TenantHeader(raw) == Get(Get(raw, "inject", NoMap), "tenant_header", "")
TimeoutMs(raw) == Clamped(Get(LookupMap(raw), "timeout_ms", 0), 500)
TTLSec(raw) == Present(CacheMap(raw), "ttl_seconds", 300)
MaxEntriesOf(raw) == Present(CacheMap(raw), "max_entries", 10000)
NegTTLSec(raw) ==
    LET n == Get(CacheMap(raw), "negative_ttl_seconds", 0) IN IF n = 0 THEN 30 ELSE n

MaxTimeoutMs == 30000

TIError(raw) ==
    \/ ~Get(raw, "enabled", FALSE)
    \/ PrincipalClaim(raw) = ""
    \/ Get(LookupMap(raw), "url", "") \notin LookupURL
    \/ Get(LookupMap(raw), "method", "") \notin {"", "GET", "POST"}
    \/ TimeoutMs(raw) > MaxTimeoutMs
    \/ AuthFails(Get(LookupMap(raw), "auth", NoMap))
    \/ Get(Get(LookupMap(raw), "response", NoMap), "mode", "") \notin {"", "single"}
    \/ TTLSec(raw) <= 0 \/ MaxEntriesOf(raw) <= 0
    \/ TenantHeader(raw) = ""

TIInit(raw) ==
    [error |-> TIError(raw),
     ti |-> [ttl |-> TTLSec(raw), negativeTTL |-> NegTTLSec(raw), max |-> MaxEntriesOf(raw),
             timeout |-> TimeoutMs(raw), claim |-> PrincipalClaim(raw), header |-> TenantHeader(raw)]]

-----------------------------------------------------------------------------
(* license-check and cors *)

LCZero == [ttl |-> 0, max |-> 0, timeout |-> 0, url |-> ""]

LCInit(raw) ==
    [error |-> Get(raw, "license_url", "") \notin AbsoluteURL,
     lc |-> [ttl |-> Clamped(Get(raw, "cache_ttl_seconds", 0), 300),
             max |-> Clamped(Get(raw, "max_cache_size", 0), 1024),
             timeout |-> Clamped(Get(raw, "timeout_seconds", 0), 5),
             url |-> Get(raw, "license_url", "")]]

\* CORSPlugin.Init never fails; no origins means disabled.
CORSInit(raw) == [error |-> FALSE, origins |-> Get(raw, "allowed_origins", {})]
=============================================================================
