----------------------------- MODULE RecentAnswers -----------------------------
(***************************************************************************)
(* What a cache in front of an authority promises: each request is decided *)
(* once, by what the authority itself says, or said recently, of its key,  *)
(* or it fails.  TenantInjector and LicenseCheck implement it, with caches, *)
(* lookups that overlap, timeouts and retries.                             *)
(***************************************************************************)
EXTENDS Integers, Sequences

CONSTANTS
    Request, Key, Value,
    Result(_),   \* what an authority's value makes of a request
    MaxAge(_),   \* for how long a value may decide after it was given up
    Pending,     \* the result of a request that is not decided yet
    Failures     \* results that need no authority

VARIABLES
    now,      \* the clock
    keyOf,    \* what each request is about; no Key, and it can only fail
    truth,    \* per key: a sequence of [value, until], the last one current
    result    \* per request

vars == <<now, keyOf, truth, result>>

Lag(k, v) == IF v = Len(truth[k]) THEN 0 ELSE now - truth[k][v].until

\* What a request about k may be decided by at this moment.
Admissible(k) ==
    {Result(truth[k][v].value) :
        v \in {w \in DOMAIN truth[k] : Lag(k, w) <= MaxAge(truth[k][w].value)}}

Init ==
    /\ now = 0
    /\ \A k \in Key : \E x \in Value : truth[k] = <<[value |-> x, until |-> 0]>>
    /\ result = [r \in Request |-> Pending]

\* Some requests end, each by its own key's answer or by a failure.
Decide ==
    /\ DOMAIN result' = Request
    /\ \A r \in Request : result'[r] # result[r] =>
          /\ result[r] = Pending
          /\ \/ result'[r] \in Failures
             \/ keyOf[r] \in Key /\ result'[r] \in Admissible(keyOf[r])
    /\ UNCHANGED <<now, keyOf, truth>>

\* The authority changes its mind about a key.
Change(k) ==
    /\ \E x \in Value : truth' = [truth EXCEPT
          ![k] = Append([@ EXCEPT ![Len(@)].until = now], [value |-> x, until |-> 0])]
    /\ UNCHANGED <<now, keyOf, result>>

Tick == now' = now + 1 /\ UNCHANGED <<keyOf, truth, result>>

Next == Decide \/ (\E k \in Key : Change(k)) \/ Tick

Spec == Init /\ [][Next]_vars
=============================================================================
