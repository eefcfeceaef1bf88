--------------------------- MODULE MCTokenValidator ---------------------------
(* TokenValidator for TLC: every form of configuration, and the tokens that   *)
(* differ in one respect from a good one or from a forged one.                *)
EXTENDS TokenValidator, TLC

CONSTANTS mistyped, down

MCNow == 1000
MCNoExp == -1

V1 == [enabled |-> TRUE, jwks_url |-> "ua", audience |-> "api"]
TestV1 == [enabled |-> TRUE, test_mode |-> TRUE, jwt_secret |-> "s", audience |-> "api"]
TwoIssuers == [enabled |-> TRUE,
    issuers |-> <<[issuer |-> "A", jwks_url |-> "ua"], [issuer |-> "B", jwks_url |-> "ub"]>>]

MCConfigs == {
    V1, TestV1,
    V1 @@ [max_token_bytes |-> 8192],
    V1 @@ [algorithms |-> {"RS256", "HS256"}, audiences |-> mistyped],
    TestV1 @@ [audiences |-> {"api"}, clock_skew_seconds |-> 10],
    TwoIssuers,
    [TwoIssuers EXCEPT !.issuers = <<[issuer |-> "B", jwks_url |-> "ua"]>> \o @],
    TwoIssuers @@ [audiences |-> {"api", "ops"}, required_claims |-> {"sub", "org"}],
    TwoIssuers @@ [token |-> [header |-> "X-Token", scheme |-> ""],
                   on_failure |-> [expired |-> 403]] }

Good == [header |-> "Authorization", scheme |-> "Bearer", size |-> 100, wellFormed |-> TRUE,
         alg |-> "RS256", iss |-> "A", kid |-> "k", key |-> "a1",
         exp |-> 1600, nbf |-> 900, aud |-> {"api"}, claims |-> {"sub", "org"}]

\* Values of the fields other than Good's.
Others == [header |-> {"X-Token", ""}, scheme |-> {""}, size |-> {9000}, wellFormed |-> {FALSE},
           alg |-> {"ES256", "HS256", "none"}, iss |-> {"B", ""}, kid |-> {"j"},
           key |-> {"b", "s"}, exp |-> {MCNoExp, 500, 940, 941, 1000}, nbf |-> {1060, 1061},
           aud |-> {{}, {"ops", "x"}}, claims |-> {{"sub"}}]

\* Good tokens of each form of configuration, and a forged one.
Bases == {Good, [Good EXCEPT !.iss = "B", !.key = "b"], [Good EXCEPT !.key = "b"],
          [Good EXCEPT !.alg = "HS256", !.key = "s"],
          [Good EXCEPT !.header = "X-Token", !.scheme = ""]}

Changed(t) == UNION {{[t EXCEPT ![f] = v] : v \in Others[f]} : f \in DOMAIN Others}

MCTokens == Bases \cup UNION {Changed(t) : t \in Bases}

MCURLs == {"ua", "ub"}
MCKeySets == [ua |-> {[k |-> "a1"], [k |-> "b", j |-> "a1"]}, ub |-> {[k |-> "b"]}]
MCAbsoluteURL == MCURLs
=============================================================================
