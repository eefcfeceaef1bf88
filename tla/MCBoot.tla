-------------------------------- MODULE MCBoot --------------------------------
(* Boot for TLC: files that boot and files that one step or another refuses.  *)
EXTENDS Boot

CONSTANT mistyped

Route(id, over) == [id |-> id, method |-> "GET", path |-> "/", params |-> <<"p", "q">>,
                    target |-> "u", plugins |-> over]
NoOverride == <<>>

MCRouteFiles == {
    << >>,
    <<Route("a", NoOverride), Route("b", "tenant-injector" :> FALSE)>>,
    <<Route("a", TV :> TRUE)>>,
    <<Route("a", NoOverride), Route("a", NoOverride)>>,
    <<Route("a", TV :> FALSE)>>,
    <<[Route("a", NoOverride) EXCEPT !.params = <<"p", "p">>]>>,
    <<[Route("a", NoOverride) EXCEPT !.path = "", !.params = <<>>]>>,
    <<[Route("a", NoOverride) EXCEPT !.method = "FETCH"]>> }

Entry(name, cfg) == [name |-> name, cfg |-> cfg]

On == [enabled |-> TRUE]
TestMode1 == On @@ [test_mode |-> TRUE]
TVBlocks == {
    On, <<>>, [enabled |-> FALSE], TestMode1, TestMode1 @@ [jwt_secret |-> ""],
    TestMode1 @@ [jwt_secret |-> "yaml"], On @@ [jwks_url |-> "u"],
    On @@ [issuers |-> <<[issuer |-> "A", jwks_url |-> "u"]>>],
    On @@ [issuers |-> <<>>, clock_skew_seconds |-> 601],
    On @@ [issuers |-> mistyped] }

Lookup(cache) == On @@ [principal |-> [claim |-> "sub"], inject |-> [tenant_header |-> "T"],
                        lookup |-> [url |-> "l", cache |-> cache, timeout_ms |-> -5]]
TIBlocks == {Lookup(<<>>), Lookup([ttl_seconds |-> 0]), Lookup([max_entries |-> mistyped]),
             Lookup([ttl_seconds |-> 7, max_entries |-> 2])}
LCBlocks == {[license_url |-> "u", cache_ttl_seconds |-> -1, max_cache_size |-> 0], <<>>}

MCPluginFiles ==
    {<<>>, <<Entry("", On)>>}
    \cup {<<Entry("cors", <<>>), Entry(TV, c)>> : c \in TVBlocks}
    \cup {<<Entry(TV, c), Entry("other", <<>>), Entry(TV, d)>> : c, d \in TVBlocks}
    \cup {<<Entry(TV, TestMode1), Entry("tenant-injector", c), Entry("license-check", d)>> :
             c \in TIBlocks, d \in LCBlocks}

MCSecrets == {"", "env"}
MCEnvURLs == {"", "u"}
MCURL == {"u"}
MCLookupURL == {"l"}

MCAllPlugins == {TV, "tenant-injector", "license-check", "cors"}
=============================================================================
