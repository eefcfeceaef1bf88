----------------------------- MODULE LicenseCheck -----------------------------
(***************************************************************************)
(* The license-check plugin: an LRU+TTL cache in front of a remote license *)
(* server, with one retry and no singleflight: requests with one token may *)
(* ask at the same time and store what they hear in any order.             *)
(*                                                                         *)
(* One goroutine per request, cut at the critical sections of the cache's *)
(* mutex and around each HTTP attempt.  The server and the clock are the  *)
(* environment; verdict[t] is the history of the server's verdicts on t,  *)
(* a version being a position in it.                                       *)
(***************************************************************************)
EXTENDS LRUCache

CONSTANTS
    Request, Token,
    TokenOf,      \* [Request -> Token]; an absent header is a token too
    MaxSize, TTL, \* max_cache_size, cache_ttl_seconds
    Timeout,      \* timeout_seconds, of one attempt
    MaxAttempts,  \* maxAttempts, 2
    Prompt,       \* do running goroutines take less than a tick of the clock?
    Horizon,      \* bound: the last moment of the clock
    Versions      \* bound: verdicts the server has on a token over time

ASSUME TokenAssumption == TokenOf \in [Request -> Token]
ASSUME ConfigAssumption ==
    /\ MaxSize \in Nat \ {0} /\ TTL \in Nat \ {0} /\ Timeout \in Nat \ {0}
    /\ MaxAttempts \in Nat \ {0}
ASSUME BoundAssumption ==
    Prompt \in BOOLEAN /\ Horizon \in Nat /\ Versions \in Nat \ {0}

VARIABLES
    now,      \* the clock
    verdict,  \* per token: a sequence of [value, until]
    cache,    \* lruList and lruMap; an entry is [valid, expires]
    pc,       \* "new", "next" attempt, "dialing", "transit" or "done"
    attempt,  \* attempts begun
    began,    \* when the latest one began
    heard,    \* the version the server's answer in transit carries
    answer    \* what a request ended with

world == <<now, verdict>>
call == <<attempt, began, heard>>
vars == <<now, verdict, cache, pc, attempt, began, heard, answer>>

Current(t) == Len(verdict[t])
Valid(t, v) == verdict[t][v].value

\* next is called, or 403 license_invalid.
Judged(valid) == IF valid THEN "admitted" ELSE "invalid"

\* 403 license_invalid with the dependency "license-server".
Unverified == "unverified"

Init ==
    /\ now = 0
    /\ verdict \in [Token -> {<<[value |-> b, until |-> 0]>> : b \in BOOLEAN}]
    /\ cache = Empty
    /\ pc = [r \in Request |-> "new"]
    /\ attempt = [r \in Request |-> 0]
    /\ began = [r \in Request |-> 0]
    /\ heard = [r \in Request |-> 0]
    /\ answer = [r \in Request |-> "none"]

Goto(r, from, to) ==
    /\ pc[r] = from
    /\ pc' = [pc EXCEPT ![r] = to]

Return(r, from, a) ==
    /\ Goto(r, from, "done")
    /\ answer' = [answer EXCEPT ![r] = a]

-----------------------------------------------------------------------------
(* The handler's cache lookup. *)

Entry(valid) == [valid |-> valid, expires |-> now + TTL]

\* A live entry decides at once and moves to the front.
CacheHit(r) ==
    LET t == TokenOf[r] IN
    /\ Live(cache, t, now)
    /\ Return(r, "new", Judged(cache.entry[t].valid))
    /\ cache' = Hit(cache, t)
    /\ UNCHANGED <<world, call>>

CacheMiss(r) ==
    LET t == TokenOf[r] IN
    /\ ~Live(cache, t, now)
    /\ Goto(r, "new", "next")
    /\ cache' = Forget(cache, t)
    /\ UNCHANGED <<world, call, answer>>

-----------------------------------------------------------------------------
(* verify. *)

\* Mutant: the budget is compared before the attempt is counted.
AttemptOnceMore(r) ==
    /\ attempt[r] <= MaxAttempts
    /\ Goto(r, "next", "dialing")
    /\ attempt' = [attempt EXCEPT ![r] = @ + 1]
    /\ began' = [began EXCEPT ![r] = now]
    /\ UNCHANGED <<world, cache, heard, answer>>

Attempt(r) ==
    /\ attempt[r] < MaxAttempts
    /\ Goto(r, "next", "dialing")
    /\ attempt' = [attempt EXCEPT ![r] = @ + 1]
    /\ began' = [began EXCEPT ![r] = now]
    /\ UNCHANGED <<world, cache, heard, answer>>

\* A transport error or the client's timeout: back to the loop's head.
AttemptFails(r) ==
    /\ pc[r] \in {"dialing", "transit"}
    /\ pc' = [pc EXCEPT ![r] = "next"]
    /\ heard' = [heard EXCEPT ![r] = 0]
    /\ UNCHANGED <<world, cache, attempt, began, answer>>

\* Mutant: a server that cannot be reached is remembered as a refusal.
GiveUpAndCache(r) ==
    /\ attempt[r] = MaxAttempts
    /\ Return(r, "next", Unverified)
    /\ cache' = Put(cache, TokenOf[r], Entry(FALSE), MaxSize)
    /\ UNCHANGED <<world, call>>

\* The retry budget is exhausted; nothing is cached.
GiveUp(r) ==
    /\ attempt[r] = MaxAttempts
    /\ Return(r, "next", Unverified)
    /\ UNCHANGED <<world, cache, call>>

\* The server reaches a verdict; 2xx or another status is on its way.
ServerAnswers(r) ==
    /\ Goto(r, "dialing", "transit")
    /\ heard' = [heard EXCEPT ![r] = Current(TokenOf[r])]
    /\ UNCHANGED <<world, cache, attempt, began, answer>>

\* The verdict is cached, whichever way it goes, and decides the request.
AnswerArrives(r) ==
    LET t == TokenOf[r]
        valid == Valid(t, heard[r])
    IN
    /\ Return(r, "transit", Judged(valid))
    /\ cache' = Put(cache, t, Entry(valid), MaxSize)
    /\ UNCHANGED <<world, call>>

-----------------------------------------------------------------------------
(* The environment. *)

\* The server changes its mind about a token: a license ends or is renewed.
Change(t) ==
    /\ Current(t) < Versions
    /\ verdict' = [verdict EXCEPT
          ![t] = Append([@ EXCEPT ![Len(@)].until = now],
                        [value |-> ~Valid(t, Current(t)), until |-> 0])]
    /\ UNCHANGED <<now, cache, pc, call, answer>>

Overdue(r) == now >= began[r] + Timeout

\* Nobody is between two steps that wait for nothing.
Settled == \A r \in Request :
    \/ pc[r] \in {"new", "done"}
    \/ pc[r] \in {"dialing", "transit"} /\ ~Overdue(r)

Tick ==
    /\ now < Horizon
    /\ Prompt => Settled
    /\ now' = now + 1
    /\ UNCHANGED <<verdict, cache, pc, call, answer>>

-----------------------------------------------------------------------------
Proceed(r) == Attempt(r) \/ GiveUp(r)

\* Mutant: the timeout is the dialer's and ends with the connection.
TimesOutDialing(r) ==
    pc[r] = "dialing" /\ (Overdue(r) \/ now = Horizon) /\ AttemptFails(r)

\* Where the clock ends, the timeout of a pending attempt has passed.
TimesOut(r) == (Overdue(r) \/ now = Horizon) /\ AttemptFails(r)

Next ==
    \/ \E r \in Request :
          \/ CacheHit(r) \/ CacheMiss(r) \/ Proceed(r)
          \/ ServerAnswers(r) \/ AnswerArrives(r) \/ AttemptFails(r)
    \/ \E t \in Token : Change(t)
    \/ Tick

Spec == Init /\ [][Next]_vars

\* Goroutines that can run do, the clock advances, the client's timer fires.
\* Of the license server nothing is assumed.
Fairness ==
    /\ \A r \in Request : WF_vars(Proceed(r)) /\ WF_vars(TimesOut(r))
    /\ WF_vars(Tick)

FairSpec == Spec /\ Fairness

-----------------------------------------------------------------------------
(* Properties. *)

TypeOK ==
    /\ now \in 0 .. Horizon
    /\ \A t \in Token :
          /\ verdict[t] \in Seq([value : BOOLEAN, until : 0 .. Horizon])
          /\ Len(verdict[t]) \in 1 .. Versions
    /\ cache.order \in Seq(Token)
    /\ \A t \in Held(cache) :
          cache.entry[t] \in [valid : BOOLEAN, expires : 0 .. Horizon + TTL]
    /\ pc \in [Request -> {"new", "next", "dialing", "transit", "done"}]
    /\ attempt \in [Request -> 0 .. MaxAttempts]
    /\ began \in [Request -> 0 .. Horizon]
    /\ heard \in [Request -> 0 .. Versions]
    /\ answer \in [Request -> {"none", "admitted", "invalid", "unverified"}]

R == INSTANCE RecentAnswers WITH
        Key <- Token, Value <- BOOLEAN,
        Result <- LAMBDA valid : IF valid THEN "admitted" ELSE "invalid",
        MaxAge <- LAMBDA valid : TTL + Timeout,
        Pending <- "none", Failures <- {Unverified},
        keyOf <- TokenOf, truth <- verdict, result <- answer

\* The plugin is a cache of bounded age in front of the license server: a
\* request is admitted, or refused as invalid, only as the server itself decided
\* about its token no longer ago than the ttl and one attempt's timeout, although
\* an older verdict may be stored after a newer one; a failure to reach the server
\* never passes for a verdict, not even on a later request
\* (licensecheck/plugin.go:121-158, 181-214, 227, 245).
ImplementsRecentAnswers == R!Spec

\* Every request that missed the cache is decided, also when the server never
\* answers (licensecheck/plugin.go:181-214).
CheckEnds == \A r \in Request : pc[r] = "next" ~> pc[r] = "done"
=============================================================================
