------------------------------ MODULE MCPipeline ------------------------------
(* Pipeline for TLC: ten configurations of six chains, three routes of      *)
(* which two overlap, and requests that differ in route, token, origin and   *)
(* in what they claim.                                                       *)
EXTENDS Pipeline

CONSTANTS r1, r2, slash, param, none, get, options, jobs, stats, chat, id,
          reader, writer, acme, beta, evil, ann, mallory, listed, foreign,
          theirs, fresh1, k1, k2

MCRequest == {r1, r2}

Route(path, roles, tenant, audit, timed, sse) ==
    [method |-> get, path |-> path, roles |-> roles, tenantRequired |-> tenant,
     audit |-> audit, timed |-> timed, sse |-> sse]

\* /jobs/stats before /jobs/{id}, which matches the same path.
MCRoutes ==
    << Route(<<slash, jobs, stats>>, {reader, writer}, FALSE, TRUE, FALSE, FALSE),
       Route(<<slash, jobs, param>>, {reader}, TRUE, TRUE, TRUE, FALSE),
       Route(<<slash, chat>>, {}, FALSE, FALSE, TRUE, TRUE) >>

MCDirectory == [s \in {ann} |-> beta]

Config(chain, origins, propagates, jwks, secret) ==
    [chain |-> chain, origins |-> origins, propagates |-> propagates,
     jwks |-> jwks, secret |-> secret]

MCConfigs ==
    LET main == <<"cors", "token-validator">>
        full == <<"cors", "token-validator", "tenant-injector", "license-check">>
    IN { Config(<<>>, {}, TRUE, FALSE, FALSE),
         Config(main, {listed}, TRUE, FALSE, FALSE),
         Config(main, {}, TRUE, FALSE, FALSE),
         Config(full, {listed}, TRUE, FALSE, FALSE),
         Config(full, {listed}, FALSE, FALSE, FALSE),
         Config(<<"token-validator", "cors">>, {listed}, TRUE, FALSE, FALSE),
         Config(<<"tenant-injector", "token-validator">>, {}, TRUE, FALSE, FALSE),
         Config(<<"auth", "context">>, {}, TRUE, TRUE, TRUE),
         Config(<<"auth", "context">>, {}, TRUE, FALSE, TRUE),
         Config(<<"auth", "context">>, {}, TRUE, FALSE, FALSE) }

Tok(good, alg, kid, roles, tenant) ==
    [good |-> good, alg |-> alg, kid |-> kid, sub |-> ann, roles |-> roles, tenant |-> tenant]

MCTokens == { none,
              Tok(FALSE, "RS256", k1, {reader, writer}, acme),
              Tok(TRUE, "RS256", k1, {}, none),
              Tok(TRUE, "RS256", k1, {reader}, acme),
              Tok(TRUE, "RS256", k2, {reader, writer}, none),
              Tok(TRUE, "HS256", k1, {reader, writer}, acme) }

Plain == [tenant |-> none, subject |-> none, roles |-> {}, corr |-> none, id |-> none]

\* Headers of the gateway's own names, sent by the client.
Claimed == [tenant |-> evil, subject |-> mallory, roles |-> {reader, writer},
            corr |-> theirs, id |-> theirs]

Arrival(m, p, h, o, t) ==
    [method |-> m, path |-> p, header |-> h, origin |-> o, token |-> t]

Paths == {<<slash, jobs, stats>>, <<slash, jobs, slash, id, slash>>, <<slash, chat>>}

MCFirst ==
    {Arrival(get, p, h, none, t) : p \in Paths, h \in {Plain, Claimed}, t \in MCTokens}
    \cup {Arrival(m, <<slash, jobs, id>>, Plain, o, t) :
             m \in {get, options}, o \in {listed, foreign}, t \in {none, Tok(TRUE, "RS256", k1, {reader}, acme)}}
    \cup {Arrival(get, <<slash, jobs>>, Plain, none, Tok(TRUE, "RS256", k1, {}, none))}

Both(as, b) == {[r \in MCRequest |-> IF r = r1 THEN a ELSE b] : a \in as}

\* The other request has no token, or it is on the same routes with the same
\* token as a few of the first ones.
MCArrivals ==
    LET t == Tok(TRUE, "RS256", k1, {reader}, acme)
        u == Tok(TRUE, "RS256", k2, {reader, writer}, none)
    IN Both(MCFirst, Arrival(get, <<slash, jobs, id>>, Plain, listed, none))
       \cup Both({Arrival(get, <<slash, jobs, id>>, Claimed, none, t),
                  Arrival(get, <<slash, jobs, stats>>, Plain, none, u)},
                 Arrival(get, <<slash, jobs, id>>, Claimed, none, t))
=============================================================================
