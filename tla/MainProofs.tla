------------------------------ MODULE MainProofs ------------------------------
(***************************************************************************)
(* Proofs about main, its boot and its shutdown.                           *)
(*                                                                         *)
(* Boot, for any route files, plugin files and environment: its types, the *)
(* chain that it composes, and that what serves is configured usably.  Each *)
(* Init of the token-validator writes over what an earlier one has left, so *)
(* the invariant says of the instance what the next Init may rely on        *)
(* (Sound), and of the entries in front of the loop's index what their Init *)
(* has left and no later one spoils (InitialisedSoFar).  With one block for *)
(* it the instance is as that block has it (FloorInv), which is where       *)
(* TokenValidator begins.                                                   *)
(*                                                                         *)
(* Shutdown, for any set of requests and any number of plugins: its types, *)
(* and that within the window plugins outlive the requests.  That no        *)
(* request is inside when the plugins' turn comes is kept by the order of   *)
(* three flags: a drain that has ended without the window found nobody      *)
(* busy, and busy nobody becomes once the listeners are closed.             *)
(***************************************************************************)
EXTENDS Boot, Shutdown, SequenceTheorems, WellFoundedInduction, TLAPS

-----------------------------------------------------------------------------
(* Boot: what the plugins' Init functions leave. *)

\* A token-validator that an Init, or none so far, has left.
Half(v) ==
    /\ DOMAIN v = DOMAIN TVZero
    /\ v.testMode \in BOOLEAN /\ v.skew \in 0 .. 600
    /\ v.testMode => v.secret # ""

Sound(v) == Half(v) /\ v.v2 \in BOOLEAN

\* And what it validates with.
Equipped(v) ==
    /\ ~v.testMode /\ v.v2 => v.pool # <<>>
    /\ ~v.testMode /\ ~v.v2 => v.jwks # ""

Enabled(raw) == "enabled" \in DOMAIN raw /\ raw.enabled = TRUE

\* A block that an Init has not refused.
Taken(name, raw) ==
    /\ name = TV => Enabled(raw)
    /\ name = "tenant-injector" => GivesPositive(raw)

LEMMA FieldsOfTV == DOMAIN TVZero =
    {"v2", "testMode", "secret", "jwks", "audience", "pool", "algorithms", "audiences",
     "skew", "required", "propagate", "allow", "header", "scheme", "maxBytes", "onFailure"}
BY DEF TVZero

LEMMA ZeroIsSound == Sound(TVZero)
BY DEF Sound, Half, TVZero

LEMMA V1Leaves ==
    ASSUME NEW v, Sound(v), NEW raw, ~InitV1(v, raw).error, NEW n, n = InitV1(v, raw).tv
    PROVE  Half(n) /\ (~n.testMode => n.jwks # "")
<1>1. n = [v EXCEPT !.testMode = IF TestMode(raw) THEN TRUE ELSE @,
                    !.secret = IF TestMode(raw) THEN Secret(raw) ELSE @,
                    !.jwks = IF TestMode(raw) THEN @ ELSE JWKSURL(raw),
                    !.audience = Get(raw, "audience", "")]
  BY DEF InitV1
<1>2. /\ DOMAIN n = DOMAIN TVZero
      /\ n.testMode = IF TestMode(raw) THEN TRUE ELSE v.testMode
      /\ n.secret = IF TestMode(raw) THEN Secret(raw) ELSE v.secret
      /\ n.jwks = IF TestMode(raw) THEN v.jwks ELSE JWKSURL(raw)
      /\ n.skew = v.skew
  BY <1>1, FieldsOfTV DEF Sound, Half
<1>3. IF TestMode(raw) THEN Secret(raw) # "" ELSE JWKSURL(raw) # ""
  BY DEF InitV1
<1>4. CASE TestMode(raw)
  <2>1. n.testMode = TRUE /\ n.secret # ""
    BY <1>2, <1>3, <1>4, Zenon
  <2>2. v.skew \in 0 .. 600
    BY Zenon DEF Sound, Half
  <2> QED
    BY <1>2, <2>1, <2>2, Zenon DEF Half
<1>5. CASE ~TestMode(raw)
  <2>1. n.testMode = v.testMode /\ n.secret = v.secret /\ n.jwks # ""
    BY <1>2, <1>3, <1>5, Zenon
  <2>2. /\ v.testMode \in BOOLEAN /\ v.skew \in 0 .. 600
        /\ v.testMode => v.secret # ""
    BY Zenon DEF Sound, Half
  <2> QED
    BY <1>2, <2>1, <2>2, Zenon DEF Half
<1> QED
  BY <1>4, <1>5

\* A pool without entries is left by no Init that is not in test mode.
LEMMA PoolIsFilled ==
    ASSUME NEW raw, Issuers(raw) \in Seq(ToSet(Issuers(raw))), ~TestMode(raw)
    PROVE  Pool(raw) # <<>>
<1>1. CASE IsShim(raw)
  <2>1. Len(<<[issuer |-> "", url |-> JWKSURL(raw)]>>) = 1 /\ Len(<<>>) = 0
    OBVIOUS
  <2> QED
    BY <1>1, <2>1 DEF Pool
<1>2. CASE ~IsShim(raw)
  <2>1. Issuers(raw) # <<>>
    BY <1>2 DEF IsShim
  <2>2. DOMAIN Issuers(raw) # {}
    <3>1. Len(Issuers(raw)) \in Nat \ {0}
      BY <2>1, EmptySeq, Zenon
    <3>2. DOMAIN Issuers(raw) = 1 .. Len(Issuers(raw))
      BY LenProperties, Zenon
    <3> QED
      BY <3>1, <3>2
  <2>3. DOMAIN Pool(raw) = DOMAIN Issuers(raw)
    BY <1>2 DEF Pool
  <2> QED
    BY <2>2, <2>3
<1> QED
  BY <1>1, <1>2

LEMMA V2Leaves ==
    ASSUME NEW v, Sound(v), NEW raw, Issuers(raw) \in Seq(ToSet(Issuers(raw))),
           ~InitV2(v, raw).error, NEW n, n = InitV2(v, raw).tv
    PROVE  Half(n) /\ (~n.testMode => n.pool # <<>>)
<1>1. /\ DOMAIN n = DOMAIN TVZero
      /\ n.testMode = IF TestMode(raw) THEN TRUE ELSE v.testMode
      /\ n.secret = IF TestMode(raw) THEN Secret(raw) ELSE v.secret
      /\ n.pool = IF TestMode(raw) THEN v.pool ELSE Pool(raw)
      /\ n.skew = Skew(raw)
  BY FieldsOfTV DEF Sound, Half, InitV2
<1>2. ~V2Error(raw)
  BY DEF InitV2
<1>3. (TestMode(raw) => Secret(raw) # "") /\ Skew(raw) \in 0 .. 600
  BY <1>2 DEF V2Error, SkewRange
<1>4. CASE TestMode(raw)
  <2>1. n.testMode = TRUE /\ n.secret = Secret(raw)
    BY <1>1, <1>4, Zenon
  <2>2. n.testMode \in BOOLEAN /\ n.secret # ""
    BY <1>3, <1>4, <2>1, Zenon
  <2>3. DOMAIN n = DOMAIN TVZero /\ n.skew \in 0 .. 600
    BY <1>1, <1>3, Zenon
  <2> QED
    BY <2>1, <2>2, <2>3, Zenon DEF Half
<1>5. CASE ~TestMode(raw)
  <2>1. n.testMode = v.testMode /\ n.secret = v.secret /\ n.pool # <<>>
    BY <1>1, <1>5, PoolIsFilled, Zenon
  <2>2. v.testMode \in BOOLEAN /\ (v.testMode => v.secret # "")
    BY Zenon DEF Sound, Half
  <2>3. n.testMode \in BOOLEAN /\ (n.testMode => n.secret # "")
    BY <2>1, <2>2, Zenon
  <2>4. DOMAIN n = DOMAIN TVZero /\ n.skew \in 0 .. 600
    BY <1>1, <1>3, Zenon
  <2> QED
    BY <2>1, <2>3, <2>4, Zenon DEF Half
<1> QED
  BY <1>4, <1>5

\* Whatever an earlier Init has left, one that does not fail leaves a validator
\* that has something to validate with.
LEMMA TVInitLeaves ==
    ASSUME NEW v, Sound(v), NEW raw, WellTyped(raw), ~TVInit(v, raw).error,
           NEW n, n = TVInit(v, raw).tv
    PROVE  Sound(n) /\ Equipped(n) /\ Enabled(raw)
<1>1. PICK r : r = IF IsV2Config(raw) THEN InitV2(v, raw) ELSE InitV1(v, raw)
  OBVIOUS
<1>2. n = [r.tv EXCEPT !.v2 = IsV2Config(raw)]
  BY <1>1 DEF TVInit
<1>3. ~(~Get(raw, "enabled", FALSE) \/ r.error)
  BY <1>1, Zenon DEF TVInit
<1>4. Issuers(raw) \in Seq(ToSet(Issuers(raw))) /\ Get(raw, "enabled", FALSE) \in BOOLEAN
  BY DEF WellTyped
<1>5. /\ Half(r.tv)
      /\ ~r.tv.testMode => IF IsV2Config(raw) THEN r.tv.pool # <<>> ELSE r.tv.jwks # ""
  <2>1. CASE IsV2Config(raw)
    BY <1>1, <1>3, <1>4, <2>1, V2Leaves, Zenon
  <2>2. CASE ~IsV2Config(raw)
    BY <1>1, <1>3, <2>2, V1Leaves, Zenon
  <2> QED
    BY <2>1, <2>2
<1>6. /\ DOMAIN n = DOMAIN TVZero /\ n.v2 = IsV2Config(raw)
      /\ n.testMode = r.tv.testMode /\ n.skew = r.tv.skew /\ n.secret = r.tv.secret
      /\ n.pool = r.tv.pool /\ n.jwks = r.tv.jwks
  BY <1>2, <1>5, FieldsOfTV DEF Half
<1>7. IsV2Config(raw) \in BOOLEAN
  BY DEF IsV2Config
<1>8. Enabled(raw)
  BY <1>3, <1>4 DEF Get, Enabled
<1>9. Half(n)
  BY <1>5, <1>6, Zenon DEF Half
<1>10. Equipped(n)
  BY <1>5, <1>6, Zenon DEF Equipped
<1> QED
  BY <1>6, <1>7, <1>8, <1>9, <1>10, Zenon DEF Sound

\* What the accessors of numbers return.
LEMMA ClampedIsPositive ==
    ASSUME NEW n \in Int, NEW d \in Nat, d > 0
    PROVE  Clamped(n, d) \in Nat /\ Clamped(n, d) > 0
BY DEF Clamped

LEMMA PresentIsInt ==
    ASSUME NEW m, NEW key, NEW d \in Int, Get(m, key, 0) \in Int
    PROVE  Present(m, key, d) \in Int
BY DEF Present

TITyped(t) == t.ttl \in Nat /\ t.max \in Nat
TIUsable(t) ==
    t.ttl > 0 /\ t.max > 0 /\ t.timeout > 0 /\ t.timeout <= MaxTimeoutMs /\ t.header # ""

LEMMA TIInitLeaves ==
    ASSUME NEW raw, WellTyped(raw), ~TIInit(raw).error, NEW t, t = TIInit(raw).ti
    PROVE  TITyped(t) /\ TIUsable(t) /\ GivesPositive(raw)
<1>1. /\ t.ttl = TTLSec(raw) /\ t.max = MaxEntriesOf(raw)
      /\ t.timeout = TimeoutMs(raw) /\ t.header = TenantHeader(raw)
  BY DEF TIInit
<1>2. ~TIError(raw)
  BY DEF TIInit
<1>3. /\ ~(TimeoutMs(raw) > MaxTimeoutMs) /\ TenantHeader(raw) # ""
      /\ ~(TTLSec(raw) <= 0) /\ ~(MaxEntriesOf(raw) <= 0)
  <2>1. \/ TimeoutMs(raw) > MaxTimeoutMs \/ TTLSec(raw) <= 0 \/ MaxEntriesOf(raw) <= 0
        \/ TenantHeader(raw) = ""
        => TIError(raw)
    BY Zenon DEF TIError
  <2> QED
    BY <1>2, <2>1, Zenon
<1>4. /\ Get(LookupMap(raw), "timeout_ms", 0) \in Int
      /\ Get(CacheMap(raw), "ttl_seconds", 0) \in Int
      /\ Get(CacheMap(raw), "max_entries", 0) \in Int
  BY DEF WellTyped
<1>5. TimeoutMs(raw) \in Int /\ TimeoutMs(raw) > 0
  BY <1>4, ClampedIsPositive DEF TimeoutMs
<1>6. TTLSec(raw) \in Int /\ MaxEntriesOf(raw) \in Int
  BY <1>4, PresentIsInt DEF TTLSec, MaxEntriesOf
<1>7. MaxTimeoutMs \in Int
  BY DEF MaxTimeoutMs
<1>8. /\ TTLSec(raw) \in Nat /\ TTLSec(raw) > 0
      /\ MaxEntriesOf(raw) \in Nat /\ MaxEntriesOf(raw) > 0
      /\ TimeoutMs(raw) <= MaxTimeoutMs
  <2>1. ASSUME NEW n \in Int, ~(n <= 0) PROVE n \in Nat /\ n > 0
    BY <2>1
  <2>2. ASSUME NEW n \in Int, NEW m \in Int, ~(n > m) PROVE n <= m
    BY <2>2
  <2> QED
    BY <1>3, <1>5, <1>6, <1>7, <2>1, <2>2, Zenon
<1>9. GivesPositive(raw)
  BY <1>8 DEF GivesPositive, TTLSec, MaxEntriesOf, Present
<1> QED
  BY <1>1, <1>3, <1>5, <1>8, <1>9, Zenon DEF TITyped, TIUsable

LCTyped(l) == l.ttl \in Nat /\ l.max \in Nat
LCUsable(l) == l.ttl > 0 /\ l.max > 0 /\ l.timeout > 0

LEMMA LCInitLeaves ==
    ASSUME NEW raw, WellTyped(raw), NEW l, l = LCInit(raw).lc
    PROVE  LCTyped(l) /\ LCUsable(l)
<1>1. /\ Get(raw, "timeout_seconds", 0) \in Int /\ Get(raw, "cache_ttl_seconds", 0) \in Int
      /\ Get(raw, "max_cache_size", 0) \in Int
  BY DEF WellTyped
<1>2. /\ l.ttl = Clamped(Get(raw, "cache_ttl_seconds", 0), 300)
      /\ l.max = Clamped(Get(raw, "max_cache_size", 0), 1024)
      /\ l.timeout = Clamped(Get(raw, "timeout_seconds", 0), 5)
  BY DEF LCInit
<1>3. /\ l.ttl \in Nat /\ l.ttl > 0
      /\ l.max \in Nat /\ l.max > 0
      /\ l.timeout > 0
  BY <1>1, <1>2 DEF Clamped
<1> QED
  BY <1>3, Zenon DEF LCTyped, LCUsable

-----------------------------------------------------------------------------
(* Boot: what the environment adds. *)

LEMMA WithKeeps ==
    ASSUME NEW raw, NEW key, NEW value
    PROVE  /\ DOMAIN raw \subseteq DOMAIN With(raw, key, value)
           /\ DOMAIN With(raw, key, value) \subseteq DOMAIN raw \cup {key}
           /\ \A k \in DOMAIN raw : With(raw, key, value)[k] = raw[k]
BY DEF With

\* No other key than the two that the environment may give is touched.
LEMMA MergedKeeps ==
    ASSUME NEW raw, NEW key, key \notin {"jwt_secret", "jwks_url"}, NEW zero
    PROVE  Get(Merged(raw), key, zero) = Get(raw, key, zero)
<1> DEFINE once == With(raw, "jwt_secret", secret)
<1>1. /\ DOMAIN raw \subseteq DOMAIN once
      /\ DOMAIN once \subseteq DOMAIN raw \cup {"jwt_secret"}
      /\ \A k \in DOMAIN raw : once[k] = raw[k]
  BY WithKeeps
<1>2. /\ DOMAIN once \subseteq DOMAIN Merged(raw)
      /\ DOMAIN Merged(raw) \subseteq DOMAIN once \cup {"jwks_url"}
      /\ \A k \in DOMAIN once : Merged(raw)[k] = once[k]
  BY WithKeeps DEF Merged
<1> HIDE DEF once
<1>3. key \in DOMAIN Merged(raw) <=> key \in DOMAIN raw
  BY <1>1, <1>2
<1>4. key \in DOMAIN raw => Merged(raw)[key] = raw[key]
  BY <1>1, <1>2
<1> QED
  BY <1>3, <1>4 DEF Get

LEMMA MergedIsWellTyped ==
    ASSUME NEW raw, WellTyped(raw)
    PROVE  WellTyped(Merged(raw))
<1>1. /\ Get(Merged(raw), "enabled", FALSE) = Get(raw, "enabled", FALSE)
      /\ Issuers(Merged(raw)) = Issuers(raw)
      /\ LookupMap(Merged(raw)) = LookupMap(raw)
      /\ Get(Merged(raw), "timeout_seconds", 0) = Get(raw, "timeout_seconds", 0)
      /\ Get(Merged(raw), "cache_ttl_seconds", 0) = Get(raw, "cache_ttl_seconds", 0)
      /\ Get(Merged(raw), "max_cache_size", 0) = Get(raw, "max_cache_size", 0)
  BY MergedKeeps DEF Issuers, LookupMap
<1>2. CacheMap(Merged(raw)) = CacheMap(raw)
  BY <1>1 DEF CacheMap
<1> QED
  BY <1>1, <1>2, Zenon DEF WellTyped

-----------------------------------------------------------------------------
(* Boot: the invariant. *)

ReadIn == {"init", "dispatcher", "serving"}
Before == {"routes", "overrides", "sink", "entries"}

\* The plugins block once it was read: the names are the file's, and every entry
\* is one that an Init can be given.
Read ==
    /\ DOMAIN entries = DOMAIN file
    /\ \A i \in DOMAIN file : entries[i].name = file[i].name /\ WellTyped(entries[i].cfg)

\* What the Init of a plugin has left, and goes on to leave, to its requests.
Left(name) ==
    /\ name = TV => Equipped(tv)
    /\ name = "tenant-injector" => TIUsable(ti)
    /\ name = "license-check" => LCUsable(lc)

\* The entries in front of the loop's index whose plugin the binary has were
\* initialised, in the order of the file.
InitialisedSoFar ==
    /\ Range(ordered) = {i \in DOMAIN file : i < next /\ file[i].name \in Registered}
    /\ \A k, l \in DOMAIN ordered : k < l => ordered[k] < ordered[l]
    /\ \A i \in DOMAIN file : i < next /\ file[i].name \in Registered =>
          Left(file[i].name) /\ Taken(file[i].name, entries[i].cfg)

BootInv ==
    /\ routes \in RouteFiles /\ file \in PluginFiles
    /\ pc \in Before \cup ReadIn \cup {"exited"}
    /\ next \in 1 .. Len(file) + 1
    /\ ordered \in Seq(Nat)
    /\ DOMAIN plugins = {"tv", "ti", "lc"}
    /\ Sound(tv) /\ TITyped(ti) /\ LCTyped(lc)
    /\ pc \in Before => next = 1 /\ ordered = <<>>
    /\ pc \in ReadIn => Read /\ InitialisedSoFar
    /\ pc \in {"dispatcher", "serving"} => next = Len(file) + 1
    /\ Range(ordered) \subseteq DOMAIN entries

LEMMA FileFacts ==
    ASSUME file \in PluginFiles
    PROVE  /\ file \in Seq(ToSet(file)) /\ Len(file) \in Nat
           /\ DOMAIN file = 1 .. Len(file)
           /\ \A i \in DOMAIN file : DOMAIN file[i] = {"name", "cfg"} /\ WellTyped(file[i].cfg)
<1>1. /\ file \in Seq(ToSet(file))
      /\ \A i \in DOMAIN file : DOMAIN file[i] = {"name", "cfg"} /\ WellTyped(file[i].cfg)
  BY FilesAssumption
<1>2. Len(file) \in Nat /\ DOMAIN file = 1 .. Len(file)
  BY <1>1, LenProperties
<1> QED
  BY <1>1, <1>2

LEMMA BootStarts == Init => BootInv
<1> SUFFICES ASSUME Init PROVE BootInv
  OBVIOUS
<1>1. Len(file) \in Nat
  BY FileFacts DEF Init
<1>2. next \in 1 .. Len(file) + 1
  BY <1>1 DEF Init
<1>3. tv = TVZero /\ ti = TIZero /\ lc = LCZero /\ DOMAIN plugins = {"tv", "ti", "lc"}
  BY DEF Init, tv, ti, lc
<1>4. Sound(tv) /\ TITyped(ti) /\ LCTyped(lc)
  BY <1>3, ZeroIsSound DEF TITyped, LCTyped, TIZero, LCZero
<1>5. ordered \in Seq(Nat) /\ Range(ordered) = {}
  BY DEF Init, Range
<1> QED
  BY <1>2, <1>3, <1>4, <1>5 DEF Init, BootInv, Before, ReadIn

\* A step of main up to the loader refuses the configuration or goes on.
LEMMA StepsBefore ==
    ASSUME BootInv, LoadRoutes \/ ValidateRouteOverrides \/ OpenSink
    PROVE  BootInv'
<1>1. /\ pc \in {"routes", "overrides", "sink"}
      /\ pc' \in {"overrides", "sink", "entries", "exited"}
      /\ UNCHANGED <<config, entries, next, ordered, plugins>>
  BY DEF LoadRoutes, ValidateRouteOverrides, OpenSink, Step
<1>2. pc \in Before /\ pc' \notin ReadIn /\ pc' \in Before \cup {"exited"}
  BY <1>1 DEF Before, ReadIn
<1>3. UNCHANGED <<tv, ti, lc>>
  BY <1>1 DEF tv, ti, lc
<1> QED
  BY <1>1, <1>2, <1>3 DEF BootInv, config, Before, ReadIn

LEMMA ReadEntriesKeeps ==
    ASSUME BootInv, ReadEntries
    PROVE  BootInv'
<1>1. /\ pc = "entries" /\ pc' \in {"init", "exited"}
      /\ UNCHANGED <<config, next, ordered, plugins>>
      /\ next = 1 /\ ordered = <<>>
  BY DEF ReadEntries, Step, BootInv, Before
<1>2. UNCHANGED <<routes, file, tv, ti, lc>>
  BY <1>1 DEF config, tv, ti, lc
<1>3. /\ DOMAIN file = 1 .. Len(file) /\ Len(file) \in Nat
      /\ \A i \in DOMAIN file : DOMAIN file[i] = {"name", "cfg"} /\ WellTyped(file[i].cfg)
  BY FileFacts DEF BootInv
<1>4. Read'
  <2>1. DOMAIN entries' = DOMAIN file
    BY DEF ReadEntries
  <2>2. ASSUME NEW i \in DOMAIN file
        PROVE  entries'[i].name = file[i].name /\ WellTyped(entries'[i].cfg)
    <3>1. \/ entries'[i] = file[i]
          \/ entries'[i] = [file[i] EXCEPT !.cfg = Merged(@)]
      BY DEF ReadEntries
    <3>2. CASE entries'[i] = file[i]
      BY <1>3, <3>2
    <3>3. CASE entries'[i] = [file[i] EXCEPT !.cfg = Merged(@)]
      <4>1. entries'[i].name = file[i].name /\ entries'[i].cfg = Merged(file[i].cfg)
        BY <1>3, <3>3
      <4> QED
        BY <1>3, <4>1, MergedIsWellTyped
    <3> QED
      BY <3>1, <3>2, <3>3
  <2> QED
    BY <1>2, <2>1, <2>2 DEF Read
<1>5. Range(ordered) = {} /\ DOMAIN ordered = {}
  BY <1>1 DEF Range
<1>6. InitialisedSoFar'
  BY <1>1, <1>2, <1>3, <1>5 DEF InitialisedSoFar, Range
<1> QED
  BY <1>1, <1>2, <1>4, <1>5, <1>6 DEF BootInv, Before, ReadIn, Range

\* One plugin's Init: what it fails with nobody sees, and what it leaves is
\* enough for its handler; the others it leaves alone.
LEMMA InitLeaves ==
    ASSUME BootInv, NEW name \in Registered, NEW cfg, WellTyped(cfg),
           plugins' = Initialised(name, cfg).after
    PROVE  /\ DOMAIN plugins' = {"tv", "ti", "lc"}
           /\ Sound(tv)' /\ TITyped(ti)' /\ LCTyped(lc)'
           /\ ~Initialised(name, cfg).error =>
                 /\ Left(name)' /\ Taken(name, cfg)
                 /\ \A other : Left(other) => Left(other)'
<1> DEFINE failed == Initialised(name, cfg).error
<1>1. /\ DOMAIN plugins = {"tv", "ti", "lc"}
      /\ Sound(plugins.tv) /\ TITyped(plugins.ti) /\ LCTyped(plugins.lc)
  BY DEF BootInv, tv, ti, lc
<1>2. CASE name = TV
  <2> DEFINE r == TVInit(tv, cfg)
  <2>1. failed = r.error /\ plugins' = IF r.error THEN plugins ELSE [plugins EXCEPT !.tv = r.tv]
    BY <1>2 DEF Initialised, TV
  <2>2. CASE failed
    <3>1. plugins' = plugins
      BY <2>1, <2>2
    <3> QED
      BY <1>1, <2>2, <3>1 DEF tv, ti, lc
  <2>3. CASE ~failed
    <3>1. Sound(r.tv) /\ Equipped(r.tv) /\ Enabled(cfg)
      BY <1>1, <2>1, <2>3, TVInitLeaves DEF tv
    <3>2. plugins' = [plugins EXCEPT !.tv = r.tv]
      BY <2>1, <2>3
    <3> HIDE DEF r
    <3>3. /\ DOMAIN plugins' = {"tv", "ti", "lc"}
          /\ plugins'.tv = r.tv /\ plugins'.ti = plugins.ti /\ plugins'.lc = plugins.lc
      BY <1>1, <3>2
    <3> QED
      BY <1>1, <1>2, <3>1, <3>3 DEF tv, ti, lc, Left, TV, Taken
  <2> QED
    BY <2>2, <2>3
<1>3. CASE name = "tenant-injector"
  <2> DEFINE r == TIInit(cfg)
  <2>1. failed = r.error /\ plugins' = IF r.error THEN plugins ELSE [plugins EXCEPT !.ti = r.ti]
    BY <1>3 DEF Initialised, TV
  <2>2. CASE failed
    <3>1. plugins' = plugins
      BY <2>1, <2>2
    <3> QED
      BY <1>1, <2>2, <3>1 DEF tv, ti, lc
  <2>3. CASE ~failed
    <3>1. TITyped(r.ti) /\ TIUsable(r.ti) /\ GivesPositive(cfg)
      BY <2>1, <2>3, TIInitLeaves
    <3>2. plugins' = [plugins EXCEPT !.ti = r.ti]
      BY <2>1, <2>3
    <3> HIDE DEF r
    <3>3. /\ DOMAIN plugins' = {"tv", "ti", "lc"}
          /\ plugins'.ti = r.ti /\ plugins'.tv = plugins.tv /\ plugins'.lc = plugins.lc
      BY <1>1, <3>2
    <3> QED
      BY <1>1, <1>3, <3>1, <3>3 DEF tv, ti, lc, Left, TV, Taken
  <2> QED
    BY <2>2, <2>3
<1>4. CASE name = "license-check"
  <2> DEFINE r == LCInit(cfg)
  <2>1. failed = r.error /\ plugins' = IF r.error THEN plugins ELSE [plugins EXCEPT !.lc = r.lc]
    BY <1>4 DEF Initialised, TV
  <2>2. CASE failed
    <3>1. plugins' = plugins
      BY <2>1, <2>2
    <3> QED
      BY <1>1, <2>2, <3>1 DEF tv, ti, lc
  <2>3. CASE ~failed
    <3>1. LCTyped(r.lc) /\ LCUsable(r.lc)
      BY LCInitLeaves
    <3>2. plugins' = [plugins EXCEPT !.lc = r.lc]
      BY <2>1, <2>3
    <3> HIDE DEF r
    <3>3. /\ DOMAIN plugins' = {"tv", "ti", "lc"}
          /\ plugins'.lc = r.lc /\ plugins'.tv = plugins.tv /\ plugins'.ti = plugins.ti
      BY <1>1, <3>2
    <3> QED
      BY <1>1, <1>4, <3>1, <3>3 DEF tv, ti, lc, Left, TV, Taken
  <2> QED
    BY <2>2, <2>3
<1>5. CASE name = "cors"
  <2>1. plugins' = plugins
    BY <1>5 DEF Initialised, TV
  <2> QED
    BY <1>1, <1>5, <2>1 DEF tv, ti, lc, Left, TV, Taken
<1> QED
  BY <1>2, <1>3, <1>4, <1>5, RegisteredAssumption

\* The loop's next round leaves what the rounds before have done.
LEMMA SkipKeeps ==
    ASSUME BootInv, SkipPlugin
    PROVE  BootInv'
<1>1. /\ pc = "init" /\ next \in DOMAIN entries /\ entries[next].name \notin Registered
      /\ next' = next + 1
      /\ UNCHANGED <<routes, file, entries, pc, ordered, plugins, tv, ti, lc>>
  BY DEF SkipPlugin, AtPlugin, Current, config, tv, ti, lc
<1>2. Read /\ InitialisedSoFar
  BY <1>1 DEF BootInv, ReadIn
<1>3. DOMAIN file = 1 .. Len(file) /\ Len(file) \in Nat
  BY FileFacts DEF BootInv
<1>4. next \in DOMAIN file /\ file[next].name \notin Registered
  BY <1>1, <1>2 DEF Read
<1>5. next' \in 1 .. Len(file) + 1
  BY <1>1, <1>3, <1>4
<1>6. \A i \in DOMAIN file :
         file[i].name \in Registered => (i < next' <=> i < next)
  BY <1>1, <1>3, <1>4
<1>7. ASSUME NEW name, Left(name) PROVE Left(name)'
  BY <1>1, <1>7 DEF Left
<1>8. Read'
  BY <1>1, <1>2 DEF Read
<1>9. InitialisedSoFar'
  BY <1>1, <1>2, <1>6, <1>7 DEF InitialisedSoFar
<1> QED
  BY <1>1, <1>5, <1>8, <1>9 DEF BootInv, Before, ReadIn

LEMMA InitKeeps ==
    ASSUME BootInv, InitPlugin
    PROVE  BootInv'
<1> PICK name, cfg : name = entries[next].name /\ cfg = entries[next].cfg
  OBVIOUS
<1> DEFINE r == Initialised(name, cfg)
<1>1. /\ pc = "init" /\ next \in DOMAIN entries /\ name \in Registered
      /\ next' = next + 1
      /\ pc' = IF r.error THEN "exited" ELSE "init"
      /\ plugins' = r.after
      /\ ordered' = IF r.error THEN ordered ELSE Append(ordered, next)
      /\ UNCHANGED <<routes, file, entries>>
  BY DEF InitPlugin, AtPlugin, Current, Step, config
<1>2. Read /\ InitialisedSoFar
  BY <1>1 DEF BootInv, ReadIn
<1>3. DOMAIN file = 1 .. Len(file) /\ Len(file) \in Nat
  BY FileFacts DEF BootInv
<1>4. next \in DOMAIN file /\ name = file[next].name /\ WellTyped(cfg)
  BY <1>1, <1>2 DEF Read
<1>5. next' \in 1 .. Len(file) + 1
  BY <1>1, <1>3, <1>4
<1>6. /\ DOMAIN plugins' = {"tv", "ti", "lc"}
      /\ Sound(tv)' /\ TITyped(ti)' /\ LCTyped(lc)'
      /\ ~r.error =>
            /\ Left(name)' /\ Taken(name, cfg)
            /\ \A other : Left(other) => Left(other)'
  BY <1>1, <1>4, InitLeaves
<1> HIDE DEF r
<1>7. CASE r.error
  BY <1>1, <1>5, <1>6, <1>7 DEF BootInv, Before, ReadIn
<1>8. CASE ~r.error
  <2>1. ordered \in Seq(Nat) /\ next \in Nat /\ ordered' = Append(ordered, next)
    BY <1>1, <1>3, <1>4, <1>8 DEF BootInv
  <2>2. /\ ordered' \in Seq(Nat) /\ Len(ordered) \in Nat
        /\ DOMAIN ordered = 1 .. Len(ordered) /\ DOMAIN ordered' = 1 .. Len(ordered) + 1
        /\ \A k \in 1 .. Len(ordered) : ordered'[k] = ordered[k]
        /\ ordered'[Len(ordered) + 1] = next
    BY <2>1
  <2>3. Range(ordered') = Range(ordered) \cup {next}
    BY <2>2 DEF Range
  <2>4. Range(ordered)' = {i \in DOMAIN file : i < next' /\ file[i].name \in Registered}
    <3>1. \A i \in DOMAIN file : i < next' <=> i < next \/ i = next
      BY <1>1, <1>3, <1>4
    <3> QED
      BY <1>1, <1>2, <1>4, <2>3, <3>1 DEF InitialisedSoFar
  <2>5. ASSUME NEW k \in DOMAIN ordered', NEW l \in DOMAIN ordered', k < l
        PROVE  ordered'[k] < ordered'[l]
    <3>1. k \in 1 .. Len(ordered) /\ ordered'[k] = ordered[k]
      BY <2>2, <2>5
    <3>2. CASE l \in 1 .. Len(ordered)
      BY <1>2, <2>2, <2>5, <3>1, <3>2 DEF InitialisedSoFar
    <3>3. CASE l = Len(ordered) + 1
      <4>1. ordered[k] \in Range(ordered)
        BY <2>2, <3>1 DEF Range
      <4>2. ordered[k] < next
        BY <1>2, <4>1 DEF InitialisedSoFar
      <4> QED
        BY <2>2, <3>1, <3>3, <4>2
    <3> QED
      BY <2>2, <3>2, <3>3
  <2>6. ASSUME NEW i \in DOMAIN file, i < next', file[i].name \in Registered
        PROVE  Left(file[i].name)' /\ Taken(file[i].name, entries[i].cfg)
    <3> PICK other : other = file[i].name
      OBVIOUS
    <3>0. file'[i].name = other
      BY <1>1
    <3>1. CASE i = next
      <4>1. other = name /\ Left(other)' /\ Taken(other, entries[i].cfg)
        BY <1>4, <1>6, <1>8, <3>1
      <4> QED
        BY <3>0, <4>1 DEF Left
    <3>2. CASE i < next
      <4>1. Left(other) /\ Taken(other, entries[i].cfg)
        BY <1>2, <2>6, <3>2 DEF InitialisedSoFar
      <4>2. Left(other)'
        BY <1>6, <1>8, <4>1
      <4> QED
        BY <3>0, <4>1, <4>2 DEF Left
    <3> QED
      BY <1>1, <1>3, <1>4, <2>6, <3>1, <3>2
  <2>7. InitialisedSoFar'
    BY <1>1, <2>4, <2>5, <2>6 DEF InitialisedSoFar
  <2>8. Read'
    BY <1>1, <1>2 DEF Read
  <2>9. Range(ordered)' \subseteq DOMAIN entries'
    BY <1>1, <1>2, <2>4 DEF Read
  <2> QED
    BY <1>1, <1>5, <1>6, <1>8, <2>2, <2>7, <2>8, <2>9 DEF BootInv, Before, ReadIn
<1> QED
  BY <1>7, <1>8

\* The loop ends behind the last entry, and the gateway serves.
LEMMA EndKeeps ==
    ASSUME BootInv, EndInit \/ Serve
    PROVE  BootInv'
<1>1. /\ pc \in {"init", "dispatcher"} /\ pc' \in {"dispatcher", "serving"}
      /\ UNCHANGED <<routes, file, entries, next, ordered, plugins, tv, ti, lc>>
      /\ pc = "init" => next \notin DOMAIN entries
  BY DEF EndInit, Serve, Step, config, tv, ti, lc
<1>2. Read /\ InitialisedSoFar
  BY <1>1 DEF BootInv, ReadIn
<1>3. DOMAIN file = 1 .. Len(file) /\ Len(file) \in Nat
  BY FileFacts DEF BootInv
<1>4. next = Len(file) + 1
  BY <1>1, <1>2, <1>3 DEF BootInv, Read
<1>5. Read' /\ InitialisedSoFar'
  BY <1>1, <1>2 DEF Read, InitialisedSoFar, Left
<1> QED
  BY <1>1, <1>4, <1>5 DEF BootInv, Before, ReadIn

LEMMA BootInvariant == Spec => []BootInv
<1>1. BootInv /\ [Next]_vars => BootInv'
  <2> SUFFICES ASSUME BootInv, [Next]_vars PROVE BootInv'
    OBVIOUS
  <2>1. CASE Next
    BY <2>1, StepsBefore, ReadEntriesKeeps, SkipKeeps, InitKeeps, EndKeeps DEF Next
  <2>2. CASE UNCHANGED vars
    BY <2>2 DEF vars, BootInv, Read, InitialisedSoFar, Left, tv, ti, lc
  <2> QED
    BY <2>1, <2>2
<1> QED
  BY BootStarts, <1>1, PTL DEF Spec

-----------------------------------------------------------------------------
(* Boot: the results. *)

\* Types; what the plugins are left with is typed also after an Init that fails,
\* for any files and environment.
THEOREM BootTypeCorrect == Spec => []TypeOK
<1>1. BootInv => TypeOK
  BY DEF BootInv, TypeOK, Before, ReadIn, Sound, Half, TITyped, LCTyped
<1> QED
  BY BootInvariant, <1>1, PTL

\* Whatever a gateway that serves has listed and the binary has, it has
\* initialised, each entry once and in the order of the file
\* (loader.go:74-101, plugin.go:31-37).
THEOREM ChainAsListedHolds == Spec => []ChainAsListed
<1>1. BootInv => ChainAsListed
  <2> SUFFICES ASSUME BootInv, pc = "serving"
               PROVE  /\ Range(ordered) = {i \in DOMAIN file : file[i].name \in Registered}
                      /\ \A k, l \in DOMAIN ordered : k < l => ordered[k] < ordered[l]
                      /\ \A k \in DOMAIN Chain : Chain[k] = file[ordered[k]].name
    BY DEF ChainAsListed
  <2>1. Read /\ InitialisedSoFar /\ next = Len(file) + 1
    BY DEF BootInv, ReadIn
  <2>2. DOMAIN file = 1 .. Len(file) /\ Len(file) \in Nat
    BY FileFacts DEF BootInv
  <2>3. Range(ordered) = {i \in DOMAIN file : file[i].name \in Registered}
    BY <2>1, <2>2 DEF InitialisedSoFar
  <2>4. \A k \in DOMAIN Chain : Chain[k] = entries[ordered[k]].name /\ ordered[k] \in DOMAIN file
    BY <2>3 DEF Chain, Range
  <2> QED
    BY <2>1, <2>3, <2>4 DEF Read, InitialisedSoFar
<1> QED
  BY BootInvariant, <1>1, PTL

-----------------------------------------------------------------------------
(* Boot: what it hands over to the token-validator's handler. *)

OneBlock == \A i, j \in DOMAIN file : file[i].name = TV /\ file[j].name = TV => i = j

\* An entry that the token-validator's Init is called for.
Listed(i) == file[i].name = TV /\ TV \in Registered

MergedIn == entries = IF FirstTV = 0 THEN file ELSE [file EXCEPT ![FirstTV].cfg = Merged(@)]

\* The instance is fresh until its Init, and then as its one block has it.
FloorInv ==
    /\ pc \in Before => tv = TVZero
    /\ pc \in ReadIn =>
          /\ MergedIn
          /\ (\A i \in DOMAIN file : i < next => ~Listed(i)) => tv = TVZero
          /\ OneBlock => \A i \in DOMAIN file : i < next /\ Listed(i) =>
                ~TVInit(TVZero, entries[i].cfg).error /\ tv = TVInit(TVZero, entries[i].cfg).tv

LEMMA LeastOfNaturals ==
    ASSUME NEW S \in SUBSET Nat, S # {}
    PROVE  Min(S) \in S /\ \A m \in S : Min(S) <= m
<1> DEFINE R == {ss \in Nat \X Nat : ss[1] < ss[2]}
<1>1. IsWellFoundedOn(R, Nat)
  BY NatLessThanWellFounded DEF OpToRel
<1>2. PICK n \in S : \A m \in S : <<m, n>> \notin R
  <2> HIDE DEF R
  <2> QED
    BY <1>1, WFMin
<1>3. ASSUME NEW m \in S
      PROVE  n <= m
  <2>1. m \in Nat /\ n \in Nat
    OBVIOUS
  <2>2. <<m, n>> \in Nat \X Nat
    BY <2>1
  <2>3. <<m, n>>[1] = m /\ <<m, n>>[2] = n
    OBVIOUS
  <2>4. ~(m < n)
    BY <1>2, <2>2, <2>3, Zenon
  <2> QED
    BY <2>1, <2>4
<1> QED
  BY <1>3 DEF Min

LEMMA FirstTVIsLeast ==
    ASSUME file \in PluginFiles
    PROVE  FirstTV # 0 => /\ FirstTV \in DOMAIN file /\ file[FirstTV].name = TV
                          /\ \A j \in DOMAIN file : file[j].name = TV => FirstTV <= j
<1> DEFINE I == {j \in 1 .. Len(file) : file[j].name = TV}
<1>1. DOMAIN file = 1 .. Len(file) /\ Len(file) \in Nat
  BY FileFacts
<1>2. FirstTV = IF I # {} THEN Min(I) ELSE 0
  BY DEF FirstTV, SelectInSeq
<1>3. I # {} => Min(I) \in I /\ \A j \in I : Min(I) <= j
  <2>1. I \in SUBSET Nat
    OBVIOUS
  <2> HIDE DEF I
  <2> QED
    BY <2>1, LeastOfNaturals
<1> QED
  BY <1>1, <1>2, <1>3

LEMMA OneBlockIsFirst ==
    ASSUME file \in PluginFiles, OneBlock, NEW i \in DOMAIN file, file[i].name = TV
    PROVE  FirstTV = i
<1> DEFINE I == {j \in 1 .. Len(file) : file[j].name = TV}
<1>1. DOMAIN file = 1 .. Len(file) /\ Len(file) \in Nat
  BY FileFacts
<1>2. I = {i}
  BY <1>1 DEF OneBlock
<1>3. Min({i}) = i
  <2>1. i \in {i} /\ \A y \in {i} : i =< y
    BY <1>1
  <2> QED
    BY <2>1, Zenon DEF Min
<1>4. FirstTV = IF I # {} THEN Min(I) ELSE 0
  BY DEF FirstTV, SelectInSeq
<1> QED
  BY <1>2, <1>3, <1>4

\* What the environment adds changes nothing of the file.
LEMMA FilesStayRead ==
    ASSUME file \in PluginFiles, MergedIn
    PROVE  FileStays
<1>1. /\ DOMAIN file = 1 .. Len(file) /\ Len(file) \in Nat
      /\ \A i \in DOMAIN file : DOMAIN file[i] = {"name", "cfg"}
  BY FileFacts
<1>2. FirstTV # 0 => /\ FirstTV \in DOMAIN file /\ file[FirstTV].name = TV
                     /\ \A j \in DOMAIN file : file[j].name = TV => FirstTV <= j
  BY <1>1, FirstTVIsLeast
<1>3. CASE FirstTV = 0
  BY <1>3 DEF MergedIn, FileStays
<1>4. CASE FirstTV # 0
  <2>1. /\ entries[FirstTV] = [file[FirstTV] EXCEPT !.cfg = Merged(@)]
        /\ \A i \in DOMAIN file : i # FirstTV => entries[i] = file[i]
    BY <1>2, <1>4 DEF MergedIn
  <2>2. entries[FirstTV].cfg = Merged(file[FirstTV].cfg)
    BY <1>1, <1>2, <1>4, <2>1
  <2>3. \A key \in DOMAIN file[FirstTV].cfg :
           entries[FirstTV].cfg[key] = file[FirstTV].cfg[key]
    BY <2>2, WithKeeps DEF Merged
  <2>4. ASSUME NEW i \in DOMAIN file,
               file[i].name # TV \/ \E j \in 1 .. i - 1 : file[j].name = TV
        PROVE  i # FirstTV
    BY <1>1, <1>2, <1>4, <2>4
  <2> QED
    BY <2>1, <2>3, <2>4 DEF FileStays
<1> QED
  BY <1>3, <1>4

LEMMA FilesStay ==
    ASSUME UNCHANGED <<file, entries, secret, jwksURL>>
    PROVE  /\ MergedIn => MergedIn'
           /\ OneBlock' => OneBlock
           /\ \A i \in DOMAIN file : Listed(i)' <=> Listed(i)
<1>1. file' = file /\ entries' = entries /\ FirstTV' = FirstTV
  BY DEF FirstTV, SelectInSeq
<1>2. Merged(file[FirstTV].cfg)' = Merged(file[FirstTV].cfg)
  BY <1>1 DEF Merged
<1>3. MergedIn => MergedIn'
  BY <1>1, <1>2 DEF MergedIn
<1>4. OneBlock' => OneBlock
  BY <1>1 DEF OneBlock
<1>5. \A i \in DOMAIN file : Listed(i)' <=> Listed(i)
  BY <1>1 DEF Listed
<1> QED
  BY <1>3, <1>4, <1>5

\* The file is read, with the environment merged into its first block.
LEMMA FloorReadKeeps ==
    ASSUME BootInv, FloorInv, ReadEntries
    PROVE  FloorInv'
<1>1. /\ pc = "entries" /\ pc' \in {"init", "exited"} /\ next = 1 /\ next' = 1
      /\ UNCHANGED <<file, secret, jwksURL, plugins>>
      /\ entries' = IF FirstTV = 0 THEN file ELSE [file EXCEPT ![FirstTV].cfg = Merged(@)]
  BY DEF ReadEntries, Step, config, BootInv, Before
<1>2. tv' = TVZero
  BY <1>1 DEF FloorInv, Before, tv
<1>3. MergedIn'
  <2>1. FirstTV' = FirstTV
    BY <1>1 DEF FirstTV, SelectInSeq
  <2>2. Merged(file[FirstTV].cfg)' = Merged(file[FirstTV].cfg)
    BY <1>1, <2>1 DEF Merged
  <2> QED
    BY <1>1, <2>1, <2>2 DEF MergedIn
<1>4. DOMAIN file = 1 .. Len(file) /\ Len(file) \in Nat
  BY FileFacts DEF BootInv
<1>5. \A i \in DOMAIN file' : ~(i < next')
  BY <1>1, <1>4
<1> QED
  BY <1>1, <1>2, <1>3, <1>5, Zenon DEF FloorInv

\* The steps that call no Init.
LEMMA FloorOthersKeep ==
    ASSUME BootInv, FloorInv,
           LoadRoutes \/ ValidateRouteOverrides \/ OpenSink \/ SkipPlugin \/ EndInit \/ Serve
    PROVE  FloorInv'
<1>1. UNCHANGED <<file, entries, secret, jwksURL>> /\ tv' = tv
  BY DEF LoadRoutes, ValidateRouteOverrides, OpenSink, SkipPlugin, EndInit, Serve, config, tv
<1>2. DOMAIN file = 1 .. Len(file) /\ Len(file) \in Nat
  BY FileFacts DEF BootInv
<1>3. CASE LoadRoutes \/ ValidateRouteOverrides \/ OpenSink
  <2>1. pc \in Before /\ pc' \notin ReadIn
    BY <1>3 DEF LoadRoutes, ValidateRouteOverrides, OpenSink, Step, Before, ReadIn
  <2> QED
    BY <1>1, <2>1 DEF FloorInv
<1>4. CASE SkipPlugin \/ EndInit \/ Serve
  <2>1. /\ pc \in ReadIn /\ pc' \notin Before
        /\ \A i \in DOMAIN file : Listed(i) => (i < next' <=> i < next)
    <3>1. CASE SkipPlugin
      <4>1. /\ pc = "init" /\ pc' = "init" /\ next' = next + 1
            /\ next \in DOMAIN entries /\ entries[next].name \notin Registered
        BY <3>1 DEF SkipPlugin, AtPlugin, Current
      <4>2. next \in DOMAIN file /\ file[next].name \notin Registered
        BY <4>1 DEF BootInv, ReadIn, Read
      <4>3. \A i \in DOMAIN file : i < next' <=> i < next \/ i = next
        BY <1>2, <4>1, <4>2
      <4> QED
        BY <4>1, <4>2, <4>3 DEF Before, ReadIn, Listed
    <3>2. CASE EndInit \/ Serve
      BY <3>2 DEF EndInit, Serve, Step, Before, ReadIn
    <3> QED
      BY <1>4, <3>1, <3>2
  <2>2. /\ MergedIn
        /\ (\A i \in DOMAIN file : i < next => ~Listed(i)) => tv = TVZero
        /\ OneBlock => \A i \in DOMAIN file : i < next /\ Listed(i) =>
              ~TVInit(TVZero, entries[i].cfg).error /\ tv = TVInit(TVZero, entries[i].cfg).tv
    BY <2>1, Zenon DEF FloorInv
  <2>3. /\ MergedIn'
        /\ OneBlock' => OneBlock
        /\ \A i \in DOMAIN file : Listed(i)' <=> Listed(i)
    BY <1>1, <2>2, FilesStay
  <2>4. (\A i \in DOMAIN file : i < next' => ~Listed(i)) => tv = TVZero
    BY <2>1, <2>2, Zenon
  <2>5. OneBlock => \A i \in DOMAIN file : i < next' /\ Listed(i) =>
              ~TVInit(TVZero, entries[i].cfg).error /\ tv = TVInit(TVZero, entries[i].cfg).tv
    BY <2>1, <2>2, Zenon
  <2> QED
    BY <1>1, <2>1, <2>3, <2>4, <2>5 DEF FloorInv
<1> QED
  BY <1>3, <1>4

\* One round of the loop for an entry that Init takes.
LEMMA FloorInitKeeps ==
    ASSUME BootInv, FloorInv, InitPlugin
    PROVE  FloorInv'
<1> PICK name, cfg : name = entries[next].name /\ cfg = entries[next].cfg
  OBVIOUS
<1> DEFINE r == Initialised(name, cfg)
<1>1. /\ pc = "init" /\ next \in DOMAIN entries /\ name \in Registered
      /\ next' = next + 1
      /\ pc' = IF r.error THEN "exited" ELSE "init"
      /\ plugins' = r.after
      /\ UNCHANGED <<file, entries, secret, jwksURL>>
  BY DEF InitPlugin, AtPlugin, Current, Step, config
<1>2. /\ MergedIn
      /\ (\A i \in DOMAIN file : i < next => ~Listed(i)) => tv = TVZero
      /\ OneBlock => \A i \in DOMAIN file : i < next /\ Listed(i) =>
            ~TVInit(TVZero, entries[i].cfg).error /\ tv = TVInit(TVZero, entries[i].cfg).tv
  BY <1>1, Zenon DEF FloorInv, ReadIn
<1>3. DOMAIN file = 1 .. Len(file) /\ Len(file) \in Nat
  BY FileFacts DEF BootInv
<1>4. next \in DOMAIN file /\ name = file[next].name
  BY <1>1 DEF BootInv, ReadIn, Read
<1>5. \A i \in DOMAIN file : i < next' <=> i < next \/ i = next
  BY <1>1, <1>3, <1>4
<1>6. DOMAIN plugins = {"tv", "ti", "lc"}
  BY DEF BootInv
<1>7. MergedIn' /\ (OneBlock' => OneBlock) /\ \A i \in DOMAIN file : Listed(i)' <=> Listed(i)
  BY <1>1, <1>2, FilesStay
<1>8. CASE r.error
  BY <1>1, <1>8 DEF FloorInv, Before, ReadIn
<1>9. CASE ~r.error /\ name # TV
  <2>1. tv' = tv
    BY <1>1, <1>6, <1>9, RegisteredAssumption DEF Initialised, tv
  <2>2. ~Listed(next)
    BY <1>4, <1>9 DEF Listed
  <2>3. (\A i \in DOMAIN file : i < next' => ~Listed(i)) => tv' = TVZero
    BY <1>2, <1>5, <2>1
  <2>4. ASSUME OneBlock, NEW i \in DOMAIN file, i < next', Listed(i)
        PROVE  ~TVInit(TVZero, entries[i].cfg).error /\ tv' = TVInit(TVZero, entries[i].cfg).tv
    BY <1>2, <1>5, <2>1, <2>2, <2>4
  <2> QED
    BY <1>7, <1>1, <1>9, <2>3, <2>4 DEF FloorInv, Before, ReadIn
<1>10. CASE ~r.error /\ name = TV
  <2>1. r.error = TVInit(tv, cfg).error /\ tv' = TVInit(tv, cfg).tv
    BY <1>1, <1>6, <1>10 DEF Initialised, tv, TV
  <2>2. Listed(next)
    BY <1>1, <1>4, <1>10 DEF Listed
  <2>3. ASSUME OneBlock, NEW i \in DOMAIN file, i < next', Listed(i)
        PROVE  ~TVInit(TVZero, entries[i].cfg).error /\ tv' = TVInit(TVZero, entries[i].cfg).tv
    <3>1. i = next
      BY <1>4, <2>2, <2>3 DEF Listed, OneBlock
    <3>2. \A j \in DOMAIN file : j < next => ~Listed(j)
      BY <1>3, <1>4, <2>2, <2>3 DEF Listed, OneBlock
    <3> QED
      BY <1>2, <1>10, <2>1, <3>1, <3>2
  <2>4. ~\A i \in DOMAIN file : i < next' => ~Listed(i)
    BY <1>4, <1>5, <2>2
  <2> QED
    BY <1>7, <1>1, <1>10, <2>3, <2>4 DEF FloorInv, Before, ReadIn
<1> QED
  BY <1>8, <1>9, <1>10

LEMMA FloorInvariant == Spec => [](BootInv /\ FloorInv)
<1>1. Init => FloorInv
  <2> SUFFICES ASSUME Init PROVE FloorInv
    OBVIOUS
  <2>1. tv = TVZero /\ pc = "routes"
    BY DEF Init, tv
  <2> QED
    BY <2>1 DEF FloorInv, ReadIn
<1>2. BootInv /\ FloorInv /\ [Next]_vars => FloorInv'
  <2> SUFFICES ASSUME BootInv, FloorInv, [Next]_vars PROVE FloorInv'
    OBVIOUS
  <2>1. CASE Next
    BY <2>1, FloorReadKeeps, FloorOthersKeep, FloorInitKeeps DEF Next
  <2>2. CASE UNCHANGED vars
    <3>1. /\ UNCHANGED <<file, entries, secret, jwksURL>>
          /\ pc' = pc /\ next' = next /\ tv' = tv
      BY <2>2 DEF vars, config, tv
    <3>2. /\ MergedIn => MergedIn'
          /\ OneBlock' => OneBlock
          /\ \A i \in DOMAIN file : Listed(i)' <=> Listed(i)
      BY <3>1, FilesStay
    <3> QED
      BY <3>1, <3>2 DEF FloorInv
  <2> QED
    BY <2>1, <2>2
<1> QED
  BY BootInvariant, <1>1, <1>2, PTL DEF Spec

\* Whatever sequence of blocks the files hold and whatever the environment adds,
\* the token-validator of a gateway that serves has something to validate with
\* and none of its blocks is off, the environment has changed nothing that the
\* file says, and the plugins with caches can serve, with no zero of the file
\* turned into a default
\* (loader.go:183-216, tokenvalidator/plugin.go:214-226,
\* tenantinjector/plugin.go:150-245, licensecheck/plugin.go:89-102).
THEOREM ConfiguredUsablyHolds == Spec => []ConfiguredUsably
<1>1. BootInv /\ FloorInv => ConfiguredUsably
  <2> SUFFICES ASSUME BootInv, FloorInv, pc = "serving"
               PROVE  FileStays /\ FloorIsUsable /\ CachesCanServe
    BY DEF ConfiguredUsably
  <2>1. Read /\ InitialisedSoFar /\ next = Len(file) + 1
    BY DEF BootInv, ReadIn
  <2>2. DOMAIN file = 1 .. Len(file) /\ Len(file) \in Nat
    BY FileFacts DEF BootInv
  <2>3. \A i \in DOMAIN file : i < next
    BY <2>1, <2>2
  <2>4. ASSUME NEW name \in Range(Chain)
        PROVE  Left(name) /\ name \in Registered
    <3>1. PICK k \in DOMAIN ordered : name = entries[ordered[k]].name
      BY DEF Chain, Range
    <3>2. ordered[k] \in DOMAIN file /\ file[ordered[k]].name \in Registered
      BY <2>1 DEF InitialisedSoFar, Range
    <3>3. name = file[ordered[k]].name
      BY <2>1, <3>1, <3>2 DEF Read
    <3> QED
      BY <2>1, <2>3, <3>2, <3>3 DEF InitialisedSoFar
  <2>5. FloorIsUsable
    <3> SUFFICES ASSUME TV \in Range(Chain)
                 PROVE  /\ tv.testMode => tv.secret # ""
                        /\ Equipped(tv)
                        /\ \A i \in DOMAIN entries : entries[i].name = TV => Enabled(entries[i].cfg)
      BY DEF FloorIsUsable, Equipped, Enabled
    <3>1. Equipped(tv) /\ TV \in Registered
      BY <2>4 DEF Left
    <3>2. tv.testMode => tv.secret # ""
      BY DEF BootInv, Sound, Half
    <3>3. ASSUME NEW i \in DOMAIN entries, entries[i].name = TV
          PROVE  Enabled(entries[i].cfg)
      BY <2>1, <2>3, <3>1, <3>3 DEF Read, InitialisedSoFar, Taken
    <3> QED
      BY <3>1, <3>2, <3>3
  <2>6. CachesCanServe
    <3>1. ASSUME "tenant-injector" \in Range(Chain), NEW i \in DOMAIN entries,
                 entries[i].name = "tenant-injector"
          PROVE  GivesPositive(entries[i].cfg)
      BY <2>1, <2>3, <2>4, <3>1 DEF Read, InitialisedSoFar, Taken
    <3> QED
      BY <2>4, <3>1 DEF CachesCanServe, Left, TIUsable, LCUsable
  <2>7. FileStays
    BY FilesStayRead DEF BootInv, FloorInv, ReadIn
  <2> QED
    BY <2>5, <2>6, <2>7
<1> QED
  BY FloorInvariant, <1>1, PTL

\* The block is the file's only one, with what the environment adds to it.
FloorAsConfigured ==
    pc = "serving" /\ TV \in Range(Chain) /\ OneBlock =>
        LET block == Merged(file[FirstTV].cfg)
        IN InitTakes(block) /\ tv = TVInit(TVZero, block).tv

\* The validator of a gateway that serves, when the file has one block for it,
\* is what a fresh instance's Init makes of that block and of the environment's
\* secret and key URL, whatever plugins come before and after it
\* (loader.go:74-101 and 183-216, tokenvalidator/plugin.go:206-226).  That is the
\* state which TokenValidator's Init starts from, and InitTakes is all that its
\* ConfigsAssumption asks of a configuration.
THEOREM FloorAsConfiguredHolds == Spec => []FloorAsConfigured
<1>1. BootInv /\ FloorInv => FloorAsConfigured
  <2> DEFINE block == Merged(file[FirstTV].cfg)
  <2> SUFFICES ASSUME BootInv, FloorInv, pc = "serving", TV \in Range(Chain), OneBlock
               PROVE  InitTakes(block) /\ tv = TVInit(TVZero, block).tv
    BY DEF FloorAsConfigured
  <2>1. Read /\ InitialisedSoFar /\ next = Len(file) + 1
    BY DEF BootInv, ReadIn
  <2>2. DOMAIN file = 1 .. Len(file) /\ Len(file) \in Nat
    BY FileFacts DEF BootInv
  <2>3. PICK i \in DOMAIN file : file[i].name = TV /\ TV \in Registered
    <3>1. PICK k \in DOMAIN ordered : TV = entries[ordered[k]].name
      BY DEF Chain, Range
    <3>2. ordered[k] \in DOMAIN file /\ file[ordered[k]].name \in Registered
      BY <2>1 DEF InitialisedSoFar, Range
    <3> QED
      BY <2>1, <3>1, <3>2 DEF Read
  <2>4. FirstTV = i /\ i # 0 /\ i < next
    BY <2>1, <2>2, <2>3, OneBlockIsFirst DEF BootInv
  <2>5. /\ entries = [file EXCEPT ![FirstTV].cfg = Merged(@)]
        /\ ~TVInit(TVZero, entries[i].cfg).error /\ tv = TVInit(TVZero, entries[i].cfg).tv
    BY <2>3, <2>4, Zenon DEF FloorInv, MergedIn, ReadIn, Listed
  <2>6. DOMAIN file[i] = {"name", "cfg"} /\ WellTyped(entries[i].cfg)
    BY <2>1, FileFacts DEF BootInv, Read
  <2>7. entries[i].cfg = block
    BY <2>4, <2>5, <2>6
  <2> QED
    BY <2>5, <2>6, <2>7 DEF InitTakes, WellTyped
<1> QED
  BY FloorInvariant, <1>1, PTL

-----------------------------------------------------------------------------
(* Shutdown. *)

Draining == {"draining", "plugins", "done"}
Drained == {"plugins", "done"}

\* What the signal goroutine has done by the point it has reached.
InOrder ==
    /\ sig \in Draining => closing
    /\ sig \in Drained => expired \/ Busy = {}
    /\ down # {} => sig \in Drained

ShutdownInv == ShutdownTypeOK /\ InOrder

LEMMA ShutdownStarts == ShutdownInit => ShutdownInv
<1> SUFFICES ASSUME ShutdownInit PROVE ShutdownTypeOK /\ InOrder
  BY DEF ShutdownInv
<1>1. ShutdownTypeOK
  <2>1. Plugins \in 0 .. Plugins
    BY PluginsAssumption
  <2> QED
    BY <2>1 DEF ShutdownInit, ShutdownTypeOK
<1>2. InOrder
  BY DEF ShutdownInit, InOrder, Draining, Drained
<1> QED
  BY <1>1, <1>2

LEMMA PluginsOutlive == ShutdownInv => PluginsOutliveRequests
BY DEF ShutdownInv, InOrder, PluginsOutliveRequests, Busy, Drained

\* The steps of main keep what the signal goroutine relies on.
LEMMA MainStep ==
    ASSUME ShutdownInv, Main \/ ListenFails
    PROVE  ShutdownInv'
<1> USE DEF ShutdownInv, ShutdownTypeOK, InOrder, Draining, Drained, Busy
<1>1. CASE Listen
  BY <1>1 DEF Listen
<1>2. CASE ListenAndServeReturns
  BY <1>2 DEF ListenAndServeReturns
<1>3. CASE Exit
  BY <1>3 DEF Exit
<1>4. CASE ListenFails
  BY <1>4 DEF ListenFails
<1> QED
  BY <1>1, <1>2, <1>3, <1>4 DEF Main

\* The drain ends with nobody busy or the window passed; a plugin is shut down
\* after that only.
LEMMA SignalStep ==
    ASSUME ShutdownInv, Signal \/ SignalGoroutine \/ WindowPasses
    PROVE  ShutdownInv'
<1> USE DEF ShutdownInv, ShutdownTypeOK, InOrder, Draining, Drained, Busy
<1>1. CASE Signal
  BY <1>1 DEF Signal, Sig
<1>2. CASE SetGate
  BY <1>2 DEF SetGate, Sig
<1>3. CASE BeginDrain
  BY <1>3 DEF BeginDrain, Sig
<1>4. CASE EndDrain
  BY <1>4 DEF EndDrain, Sig
<1>5. CASE ShutPlugin
  <2>1. index' \in 0 .. Plugins /\ down' \in SUBSET (1 .. Plugins)
    BY <1>5, PluginsAssumption DEF ShutPlugin
  <2> QED
    BY <1>5, <2>1 DEF ShutPlugin, Sig
<1>6. CASE EndPlugins
  BY <1>6 DEF EndPlugins, Sig
<1>7. CASE WindowPasses
  BY <1>7 DEF WindowPasses
<1> QED
  BY <1>1, <1>2, <1>3, <1>4, <1>5, <1>6, <1>7 DEF SignalGoroutine

\* No request becomes busy once the listeners are closed.
LEMMA RequestStep ==
    ASSUME ShutdownInv, NEW r \in Request, Arrive(r) \/ PassGate(r) \/ ServeRequest(r)
    PROVE  ShutdownInv'
<1> USE DEF ShutdownInv, ShutdownTypeOK, InOrder, Draining, Drained
<1>1. CASE Arrive(r)
  <2>1. ~closing
    BY <1>1 DEF Arrive
  <2> QED
    BY <1>1, <2>1 DEF Arrive, process
<1>2. CASE PassGate(r) \/ ServeRequest(r)
  <2>1. Busy # {} /\ Busy' \subseteq Busy
    BY <1>2 DEF PassGate, ServeRequest, Busy
  <2>2. sig \in Drained => expired
    BY <2>1
  <2> QED
    BY <1>2, <2>2 DEF PassGate, ServeRequest, process
<1> QED
  BY <1>1, <1>2

LEMMA ShutdownKeeps ==
    ASSUME ShutdownInv, [ShutdownNext]_shutdownVars
    PROVE  ShutdownInv'
<1>1. CASE UNCHANGED shutdownVars
  BY <1>1 DEF shutdownVars, ShutdownInv, ShutdownTypeOK, InOrder, Draining, Drained, Busy
<1>2. CASE ShutdownNext
  BY <1>2, MainStep, SignalStep, RequestStep DEF ShutdownNext
<1> QED
  BY <1>1, <1>2

\* In every reachable state each variable has its type; the loop over the
\* plugins stays within them (main.go:134-153, loader.go:138-149).
THEOREM ShutdownTypeCorrect == ShutdownSpec => []ShutdownTypeOK
<1>1. ShutdownInv => ShutdownTypeOK
  BY DEF ShutdownInv
<1> QED
  BY <1>1, ShutdownStarts, ShutdownKeeps, PTL DEF ShutdownSpec

\* Within the shutdown window no request is inside the plugin chain once a
\* plugin's Shutdown has been called, for any number of requests and plugins
\* (main.go:138-146, 161).
THEOREM PluginsOutliveHolds == ShutdownSpec => []PluginsOutliveRequests
BY ShutdownStarts, ShutdownKeeps, PluginsOutlive, PTL DEF ShutdownSpec
=============================================================================
