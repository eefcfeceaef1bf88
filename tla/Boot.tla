--------------------------------- MODULE Boot ---------------------------------
(***************************************************************************)
(* The gateway's boot: main and the plugin loader, from the files and the  *)
(* environment to a server that serves or a process that has exited.       *)
(*                                                                         *)
(* The configuration is chosen once; every step that can refuse it is an   *)
(* action, in the order of main.  The plugins are singletons of the        *)
(* registry, and their fields are the state that Init leaves behind.       *)
(***************************************************************************)
EXTENDS PluginConfig

CONSTANTS
    RouteFiles,    \* lists of [id, method, path, params, target, plugins]: params
                   \* are the {..} of the path, plugins a function of names to
                   \* the overrides' "enabled"
    PluginFiles,   \* lists of [name, cfg]
    Secrets,       \* values of GATEWAY_JWT_SECRET and GATEWAY_JWT_JWKS_URL,
    EnvURLs,       \* "" when unset
    Registered     \* names of the plugins that the binary imports

TV == "token-validator"

ASSUME RegisteredAssumption ==
    Registered \subseteq {TV, "tenant-injector", "license-check", "cors"}

\* YAML gives a list of plugins; what an accessor returns has the type that it
\* is named for, since any other value is Mistyped.
WellTyped(raw) ==
    /\ Get(raw, "enabled", FALSE) \in BOOLEAN
    /\ Issuers(raw) \in Seq(ToSet(Issuers(raw)))
    /\ {Get(LookupMap(raw), "timeout_ms", 0), Get(CacheMap(raw), "ttl_seconds", 0),
        Get(CacheMap(raw), "max_entries", 0), Get(raw, "timeout_seconds", 0),
        Get(raw, "cache_ttl_seconds", 0), Get(raw, "max_cache_size", 0)} \subseteq Int

ASSUME FilesAssumption == \A f \in PluginFiles :
    /\ f \in Seq(ToSet(f))
    /\ \A i \in DOMAIN f : DOMAIN f[i] = {"name", "cfg"} /\ WellTyped(f[i].cfg)

VARIABLES
    routes, file, secret, jwksURL,   \* the configuration
    entries,  \* the plugins block, with the environment merged in
    pc,       \* "routes", "overrides", "sink", "entries", "init", "dispatcher",
              \* "serving" or "exited"
    next,     \* the loader's loop index
    ordered,  \* Loader.ordered, as indices of entries
    plugins   \* the fields of the registered instances

config == <<routes, file, secret, jwksURL>>
vars == <<routes, file, secret, jwksURL, entries, pc, next, ordered, plugins>>

tv == plugins.tv
ti == plugins.ti
lc == plugins.lc

Init ==
    /\ routes \in RouteFiles /\ file \in PluginFiles
    /\ secret \in Secrets /\ jwksURL \in EnvURLs
    /\ entries = <<>>
    /\ pc = "routes"
    /\ next = 1
    /\ ordered = <<>>
    /\ plugins = [tv |-> TVZero, ti |-> TIZero, lc |-> LCZero]

\* log.Error and os.Exit(1) when the step fails.
Step(from, fails, to) ==
    /\ pc = from
    /\ pc' = IF fails THEN "exited" ELSE to

-----------------------------------------------------------------------------
(* main, up to the loader. *)

ValidMethods == {"GET", "POST", "PUT", "PATCH", "DELETE", "HEAD", "OPTIONS"}

\* validate, over all routes; methods are upper-cased before.
RoutesInvalid(rs) == \E i \in DOMAIN rs :
    \/ rs[i].id = "" \/ \E j \in 1 .. i - 1 : rs[j].id = rs[i].id
    \/ rs[i].method \notin ValidMethods
    \/ rs[i].path = "" \/ "" \in Range(rs[i].params) \/ ~IsInjective(rs[i].params)
    \/ rs[i].target \notin AbsoluteURL

LoadRoutes ==
    /\ Step("routes", RoutesInvalid(routes), "overrides")
    /\ UNCHANGED <<config, entries, next, ordered, plugins>>

\* A route's override says enabled: false.
Disables(r, name) == name \in DOMAIN r.plugins /\ r.plugins[name] = FALSE

ValidateRouteOverrides ==
    /\ Step("overrides", \E i \in DOMAIN routes : Disables(routes[i], TV), "sink")
    /\ UNCHANGED <<config, entries, next, ordered, plugins>>

OpenSink == \E fails \in BOOLEAN :
    /\ Step("sink", fails, "entries")
    /\ UNCHANGED <<config, entries, next, ordered, plugins>>

-----------------------------------------------------------------------------
(* loader.Load *)

FirstTV == SelectInSeq(file, LAMBDA e : e.name = TV)

\* assertTokenValidatorAlwaysOn looks at the first entry of that name.
DisabledTV ==
    /\ FirstTV # 0
    /\ "enabled" \in DOMAIN file[FirstTV].cfg
    /\ file[FirstTV].cfg.enabled = FALSE

With(cfg, key, value) ==
    IF key \in DOMAIN cfg \/ value = "" THEN cfg
    ELSE [k \in DOMAIN cfg \cup {key} |-> IF k = key THEN value ELSE cfg[k]]

\* mergeTokenValidatorEnv: a key that the YAML has stays, even an empty one.
Merged(cfg) == With(With(cfg, "jwt_secret", secret), "jwks_url", jwksURL)

ReadEntries ==
    /\ Step("entries", DisabledTV \/ \E i \in DOMAIN file : file[i].name = "", "init")
    /\ entries' = IF FirstTV = 0 THEN file ELSE [file EXCEPT ![FirstTV].cfg = Merged(@)]
    /\ UNCHANGED <<config, next, ordered, plugins>>

Current == entries[next]
AtPlugin == pc = "init" /\ next \in DOMAIN entries

\* Listed and not registered: a warning, and the next one.
SkipPlugin ==
    /\ AtPlugin /\ Current.name \notin Registered
    /\ next' = next + 1
    /\ UNCHANGED <<config, entries, pc, ordered, plugins>>

\* Mutant: what Init has parsed is kept although it has failed.
InitialisedAnyway(name, cfg) ==
    CASE name = TV ->
            [error |-> TVInit(tv, cfg).error, after |-> [plugins EXCEPT !.tv = TVInit(@, cfg).tv]]
      [] name = "tenant-injector" ->
            [error |-> TIInit(cfg).error, after |-> [plugins EXCEPT !.ti = TIInit(cfg).ti]]
      [] name = "license-check" ->
            [error |-> LCInit(cfg).error, after |-> [plugins EXCEPT !.lc = LCInit(cfg).lc]]
      [] name = "cors" -> [error |-> CORSInit(cfg).error, after |-> plugins]

\* p.Init(cfg) of the one instance that is registered under the name.  What a
\* failing Init has already written is seen by nobody: the process exits.
Initialised(name, cfg) ==
    CASE name = TV ->
            LET r == TVInit(tv, cfg)
            IN [error |-> r.error, after |-> IF r.error THEN plugins ELSE [plugins EXCEPT !.tv = r.tv]]
      [] name = "tenant-injector" ->
            LET r == TIInit(cfg)
            IN [error |-> r.error, after |-> IF r.error THEN plugins ELSE [plugins EXCEPT !.ti = r.ti]]
      [] name = "license-check" ->
            LET r == LCInit(cfg)
            IN [error |-> r.error, after |-> IF r.error THEN plugins ELSE [plugins EXCEPT !.lc = r.lc]]
      [] name = "cors" -> [error |-> CORSInit(cfg).error, after |-> plugins]

\* Mutant: a plugin whose Init fails is left out, and the boot goes on.
InitPluginLenient ==
    /\ AtPlugin /\ Current.name \in Registered
    /\ LET r == Initialised(Current.name, Current.cfg)
       IN /\ plugins' = r.after
          /\ ordered' = IF r.error THEN ordered ELSE Append(ordered, next)
    /\ next' = next + 1
    /\ UNCHANGED <<config, entries, pc>>

InitPlugin ==
    /\ AtPlugin /\ Current.name \in Registered
    /\ LET r == Initialised(Current.name, Current.cfg)
       IN /\ Step("init", r.error, "init")
          /\ plugins' = r.after
          /\ ordered' = IF r.error THEN ordered ELSE Append(ordered, next)
    /\ next' = next + 1
    /\ UNCHANGED <<config, entries>>

EndInit ==
    /\ pc = "init" /\ next \notin DOMAIN entries
    /\ pc' = "dispatcher"
    /\ UNCHANGED <<config, entries, next, ordered, plugins>>

\* proxy.New, Chain and ListenAndServe; the targets have been parsed before.
Serve ==
    /\ Step("dispatcher", FALSE, "serving")
    /\ UNCHANGED <<config, entries, next, ordered, plugins>>

Next ==
    \/ LoadRoutes \/ ValidateRouteOverrides \/ OpenSink \/ ReadEntries
    \/ SkipPlugin \/ InitPlugin \/ EndInit \/ Serve

Spec == Init /\ [][Next]_vars

-----------------------------------------------------------------------------
(* The chain that requests pass, outermost first. *)

\* Chain: the same for every route, whatever its overrides say; ChainFor, which
\* would honour them, is called by nobody.
Chain == [i \in DOMAIN ordered |-> entries[ordered[i]].name]

-----------------------------------------------------------------------------
(* Properties. *)

TypeOK ==
    /\ routes \in RouteFiles
    /\ pc \in {"routes", "overrides", "sink", "entries", "init", "dispatcher", "serving", "exited"}
    /\ next \in 1 .. Len(file) + 1
    /\ Range(ordered) \subseteq DOMAIN entries
    /\ tv.testMode \in BOOLEAN /\ tv.v2 \in BOOLEAN /\ tv.skew \in 0 .. 600
    /\ ti.ttl \in Nat /\ ti.max \in Nat /\ lc.ttl \in Nat /\ lc.max \in Nat

\* A gateway that serves has initialised every plugin of the file that the
\* binary has, in the order of the file: a configuration that one of them
\* refuses does not get past the boot (loader.go:74-101, plugin.go:31-37).
ChainAsListed ==
    pc = "serving" =>
        /\ Range(ordered) = {i \in DOMAIN file : file[i].name \in Registered}
        /\ \A k, l \in DOMAIN ordered : k < l => ordered[k] < ordered[l]
        /\ \A k \in DOMAIN Chain : Chain[k] = file[ordered[k]].name

\* What the file says stays; the environment reaches its first block alone.
FileStays == \A i \in DOMAIN file :
    /\ \A key \in DOMAIN file[i].cfg : entries[i].cfg[key] = file[i].cfg[key]
    /\ file[i].name # TV \/ (\E j \in 1 .. i - 1 : file[j].name = TV) => entries[i] = file[i]

FloorIsUsable ==
    TV \in Range(Chain) =>
        /\ tv.testMode => tv.secret # ""
        /\ ~tv.testMode /\ tv.v2 => tv.pool # <<>>
        /\ ~tv.testMode /\ ~tv.v2 => tv.jwks # ""
        /\ \A i \in DOMAIN entries :
              entries[i].name = TV => "enabled" \in DOMAIN entries[i].cfg /\ entries[i].cfg.enabled = TRUE

\* No size or lifetime that a block gives is zero, or silently the default.
GivesPositive(raw) == \A key \in {"ttl_seconds", "max_entries"} :
    key \in DOMAIN CacheMap(raw) => Get(CacheMap(raw), key, 0) > 0

CachesCanServe ==
    /\ "tenant-injector" \in Range(Chain) =>
          /\ ti.ttl > 0 /\ ti.max > 0
          /\ ti.timeout > 0 /\ ti.timeout <= MaxTimeoutMs /\ ti.header # ""
          /\ \A i \in DOMAIN entries :
                entries[i].name = "tenant-injector" => GivesPositive(entries[i].cfg)
    /\ "license-check" \in Range(Chain) => lc.ttl > 0 /\ lc.max > 0 /\ lc.timeout > 0

\* The token-validator of a gateway that serves has something to validate with,
\* whatever an earlier block of the file left behind, no block of it says that
\* it is off, and the environment has changed nothing that the file says
\* (loader.go:183-216, tokenvalidator/plugin.go:214-226); the plugins' caches
\* have room and a lifetime, never a default in place of a zero in the file, and
\* their clients a timeout, as TenantInjector and LicenseCheck assume
\* (tenantinjector/plugin.go:150-245, licensecheck/plugin.go:89-102).
ConfiguredUsably == pc = "serving" => FileStays /\ FloorIsUsable /\ CachesCanServe
=============================================================================
