------------------------- MODULE TenantInjectorProofs -------------------------
(***************************************************************************)
(* Proofs about TenantInjector, for any requests, principals, tenants,    *)
(* allowlist, cache size, ttls and timeout: its types, its cache's shape,  *)
(* that answers never go back in time, and that it implements             *)
(* RecentAnswers.                                                          *)
(*                                                                         *)
(* What a lookup brings back is what the directory said at some moment     *)
(* since the lookup began (FlightTrue), and there is one lookup of a       *)
(* principal at a time: so a lookup in progress is never older than the    *)
(* cache's entry, and neither is older than an answer already given        *)
(* (Ordered).  Where running goroutines take no time, a lookup lands       *)
(* within its timeout (OnTime), and an entry is no older than its ttl and  *)
(* that timeout (EntriesRecent).                                           *)
(***************************************************************************)
EXTENDS TenantInjector, LRUCacheProofs

InTransit(p) == flight[p].phase \in {"transit", "landed"}

Life(t) == IF t = NoTenant THEN NegativeTTL ELSE TTL

\* The directory says version v of p, or said it at this moment or later.
SaidSince(p, v, moment) ==
    v \in 1 .. Current(p) /\ (v = Current(p) \/ directory[p][v].until >= moment)

Shape ==
    /\ cache = [order |-> cache.order, entry |-> cache.entry]
    /\ Coherent(cache, MaxEntries)
    /\ DOMAIN directory = Principal /\ DOMAIN flight = Principal

Undecided == \A r \in Request : pc[r] # "done" => answer[r] = Answered(Pending, 0)

FlightTrue == \A p \in Principal : InTransit(p) =>
    /\ flight[p].tenant = TenantAt(p, flight[p].ver)
    /\ SaidSince(p, flight[p].ver, flight[p].deadline - Timeout)

FailureKnown == \A p \in Principal : flight[p].phase = "failed" => flight[p].err \in Failure

EntriesTrue == \A p \in Held(cache) :
    /\ cache.entry[p].ver \in 1 .. Current(p)
    /\ cache.entry[p].tenant = TenantAt(p, cache.entry[p].ver)

\* Nobody was given a newer answer about p than version v.
NoneNewer(p, v) == \A r \in Request : principal[r] = p => answer[r].ver <= v

Ordered == \A p \in Principal :
    /\ NoneNewer(p, Current(p))
    /\ p \in Held(cache) => NoneNewer(p, cache.entry[p].ver)
    /\ InTransit(p) => NoneNewer(p, flight[p].ver)
    /\ InTransit(p) /\ p \in Held(cache) => cache.entry[p].ver <= flight[p].ver
    /\ flight[p].phase = "landed" /\ p \in Held(cache) => cache.entry[p].ver = flight[p].ver

\* What a request may not be answered less than was given to another.
Floors == \A r \in Request : pc[r] \in {"missed", "leading", "waiting"} =>
    /\ principal[r] \in Principal
    /\ \/ floor[r] = 0
       \/ \E q \in Request : principal[q] = principal[r] /\ floor[r] <= answer[q].ver

Stamps ==
    /\ \A p \in Principal : flight[p].deadline - Timeout <= now
    /\ \A p \in Held(cache) : cache.entry[p].expires <= now + Life(cache.entry[p].tenant)

OnTime == Prompt => \A p \in Principal :
    flight[p].phase \in {"dialing", "transit", "landed"} => now <= flight[p].deadline

EntriesRecent == Prompt => \A p \in Held(cache) :
    SaidSince(p, cache.entry[p].ver,
              cache.entry[p].expires - Life(cache.entry[p].tenant) - Timeout)

IInv == TypeOK /\ Shape /\ Undecided /\ FlightTrue /\ FailureKnown /\ EntriesTrue
        /\ Ordered /\ Floors /\ AnswersNeverGoBack /\ Stamps /\ OnTime /\ EntriesRecent

-----------------------------------------------------------------------------
LEMMA TypeFacts ==
    ASSUME TypeOK, Shape
    PROVE  /\ now \in Nat /\ Horizon \in Nat /\ TTL \in Nat /\ Timeout \in Nat
           /\ NegativeTTL \in Int /\ MaxEntries \in Nat \ {0}
           /\ principal \in [Request -> Principal \cup {NoPrincipal}]
           /\ \A p \in Principal : /\ Versions[p] \in Nat /\ Current(p) \in 1 .. Versions[p]
                                   /\ flight[p].deadline \in Nat /\ flight[p].ver \in Nat
                                   /\ flight[p].tenant \in Tenant \cup {NoTenant}
           /\ \A p \in Principal : \A v \in 1 .. Current(p) :
                 TenantAt(p, v) \in Tenant \cup {NoTenant} /\ directory[p][v].until \in Nat
           /\ \A p \in Held(cache) : /\ p \in Principal /\ cache.entry[p].expires \in Int
                                     /\ cache.entry[p].ver \in Nat
                                     /\ cache.entry[p].tenant \in Tenant \cup {NoTenant}
           /\ \A r \in Request : answer[r].ver \in Nat
           /\ \A t : Life(t) \in Int
<1> USE CacheAssumption, TimeAssumption, AskingAssumption
<1>0. principal \in [Request -> Principal \cup {NoPrincipal}]
      /\ now \in Nat /\ Horizon \in Nat /\ TTL \in Nat /\ Timeout \in Nat
      /\ NegativeTTL \in Int /\ MaxEntries \in Nat \ {0}
      /\ (\A t : Life(t) \in Int) /\ (\A p \in Principal : Versions[p] \in Nat)
  BY DEF TypeOK, Life
<1>1. ASSUME NEW p \in Principal
      PROVE  Current(p) \in 1 .. Versions[p]
  BY DEF Current, TypeOK
<1>2. ASSUME NEW p \in Principal
      PROVE  /\ flight[p].deadline \in Nat /\ flight[p].ver \in Nat
             /\ flight[p].tenant \in Tenant \cup {NoTenant}
  <2>1. flight[p] \in [phase : {"idle", "dialing", "transit", "landed", "failed"},
                        tenant : Tenant \cup {NoTenant}, ver : 0 .. Versions[p],
                        err : Failure \cup {"none"}, deadline : 0 .. Horizon + Timeout]
    BY DEF TypeOK
  <2> QED
    BY <1>0, <2>1
<1>3. ASSUME NEW p \in Principal, NEW v \in 1 .. Current(p)
      PROVE  TenantAt(p, v) \in Tenant \cup {NoTenant} /\ directory[p][v].until \in Nat
  <2>1. directory[p] \in Seq([value : Tenant \cup {NoTenant}, until : 0 .. Horizon])
        /\ v \in 1 .. Len(directory[p])
    BY DEF TypeOK, Current
  <2>2. directory[p][v] \in [value : Tenant \cup {NoTenant}, until : 0 .. Horizon]
    BY <2>1, ElementOfSeq
  <2> QED
    BY <2>2 DEF TenantAt
<1>4. ASSUME NEW p \in Held(cache)
      PROVE  /\ p \in Principal /\ cache.entry[p].expires \in Int
             /\ cache.entry[p].ver \in Nat /\ cache.entry[p].tenant \in Tenant \cup {NoTenant}
  <2>1. p \in Principal
    BY DEF TypeOK, Shape, Coherent, ToSet
  <2>2. cache.entry[p] \in
          [tenant : Tenant \cup {NoTenant}, ver : 1 .. Versions[p], expires : Int]
    BY DEF TypeOK
  <2> QED
    BY <1>0, <2>1, <2>2
<1>5. ASSUME NEW r \in Request
      PROVE  answer[r].ver \in Nat
  <2>1. answer[r] \in [ends : [kind : Kind, tenant : Tenant \cup {NoTenant}], ver : Nat]
    BY DEF TypeOK
  <2> QED
    BY <2>1
<1> QED
  BY <1>0, <1>1, <1>2, <1>3, <1>4, <1>5

\* Only a lookup's answer puts an entry into the cache.
Stored(p) == AnswerArrives(p) /\ cache'.entry[p] = Entry(flight[p].tenant, flight[p].ver)

\* What the cache still holds, it holds as before, or an answer has just come.
CacheGoesOn ==
    /\ cache'.order \in Seq(Principal) /\ Coherent(cache, MaxEntries)'
    /\ cache' = [order |-> cache'.order, entry |-> cache'.entry]
    /\ \A p \in Held(cache)' :
          \/ p \in Held(cache) /\ cache'.entry[p] = cache.entry[p]
          \/ Stored(p)

LEMMA CacheStep ==
    ASSUME TypeOK, Shape, [Next]_vars
    PROVE  CacheGoesOn
<1>0. cache.order \in Seq(Principal) /\ Coherent(cache, MaxEntries)
      /\ cache = [order |-> cache.order, entry |-> cache.entry]
      /\ MaxEntries \in Nat \ {0} /\ MaxEntries \in Nat
  BY TypeFacts DEF TypeOK, Shape
<1>1. ASSUME NEW r \in Request, CacheHit(r)
      PROVE  CacheGoesOn
  <2>1. principal[r] \in Held(cache) /\ cache' = Hit(cache, principal[r])
    BY <1>1 DEF CacheHit, Fresh, Live
  <2>2. /\ cache'.order \in Seq(Principal) /\ Coherent(cache', MaxEntries)
        /\ cache' = [order |-> cache'.order, entry |-> cache'.entry]
        /\ Held(cache') = Held(cache) /\ cache'.entry = cache.entry
    BY <1>0, <2>1, HitProperties
  <2> QED
    BY <2>2 DEF CacheGoesOn, Held
<1>2. ASSUME NEW r \in Request, CacheMiss(r)
      PROVE  CacheGoesOn
  <2>1. cache' = Forget(cache, principal[r])
    BY <1>2 DEF CacheMiss
  <2>2. /\ cache'.order \in Seq(Principal) /\ Coherent(cache', MaxEntries)
        /\ cache' = [order |-> cache'.order, entry |-> cache'.entry]
        /\ \A p \in Held(cache') : p \in Held(cache) /\ cache'.entry[p] = cache.entry[p]
    BY <1>0, <2>1, ForgetProperties
  <2> QED
    BY <2>2 DEF CacheGoesOn, Held
<1>3. ASSUME NEW p \in Principal, AnswerArrives(p)
      PROVE  CacheGoesOn
  <2> DEFINE e == Entry(flight[p].tenant, flight[p].ver)
  <2>1. cache' = Put(cache, p, e, MaxEntries)
    BY <1>3 DEF AnswerArrives, CacheSet
  <2> HIDE DEF e
  <2>2. /\ cache'.order \in Seq(Principal) /\ Coherent(cache', MaxEntries)
        /\ cache' = [order |-> cache'.order, entry |-> cache'.entry]
        /\ Held(cache') \subseteq Held(cache) \cup {p}
        /\ cache'.entry[p] = e
        /\ \A q \in Held(cache') \ {p} : cache'.entry[q] = cache.entry[q]
    BY <1>0, <2>1, PutProperties
  <2>3. Stored(p)
    BY <1>3, <2>2 DEF Stored, e
  <2> QED
    BY <2>2, <2>3 DEF CacheGoesOn, Held
<1>4. ASSUME cache' = cache
      PROVE  CacheGoesOn
  BY <1>0, <1>4 DEF CacheGoesOn, Held
<1>5. ASSUME NEW r \in Request, ClaimMissing(r) \/ Proceed(r)
      PROVE  cache' = cache
  BY <1>5 DEF ClaimMissing, Proceed, JoinFlight, LeadFlight
<1>6. ASSUME NEW p \in Principal, DirectoryAnswers(p) \/ LookupFails(p) \/ LookupTimesOut(p)
                                 \/ EndFlight(p) \/ Change(p)
      PROVE  cache' = cache
  BY <1>6 DEF DirectoryAnswers, LookupFails, LookupTimesOut, EndFlight, Change
<1>7. ASSUME Tick \/ UNCHANGED vars
      PROVE  cache' = cache
  BY <1>7 DEF Tick, vars
<1> QED
  BY <1>1, <1>2, <1>3, <1>4, <1>5, <1>6, <1>7 DEF Next, Arrive

\* The clock and the directory move in steps of their own.
LEMMA WorldStep ==
    ASSUME Next
    PROVE  /\ principal' = principal
           /\ now' = now \/ Tick
           /\ directory' = directory \/ \E p \in Principal : Change(p)
<1>1. ASSUME NEW r \in Request, Arrive(r) \/ Proceed(r)
      PROVE  UNCHANGED <<now, principal, directory>>
  <2>1. ASSUME ClaimMissing(r) \/ CacheHit(r) \/ CacheMiss(r)
        PROVE  UNCHANGED <<now, principal, directory>>
    BY <2>1 DEF ClaimMissing, CacheHit, CacheMiss, world
  <2>2. ASSUME JoinFlight(r) \/ LeadFlight(r)
        PROVE  UNCHANGED <<now, principal, directory>>
    BY <2>2 DEF JoinFlight, LeadFlight, world
  <2> QED
    BY <1>1, <2>1, <2>2 DEF Arrive, Proceed
<1>2. ASSUME NEW p \in Principal, DirectoryAnswers(p) \/ AnswerArrives(p) \/ LookupFails(p)
                                 \/ LookupTimesOut(p) \/ EndFlight(p)
      PROVE  UNCHANGED <<now, principal, directory>>
  BY <1>2 DEF DirectoryAnswers, AnswerArrives, LookupFails, LookupTimesOut, EndFlight, world
<1>3. ASSUME NEW p \in Principal, Change(p)
      PROVE  UNCHANGED <<now, principal>>
  BY <1>3 DEF Change
<1>4. ASSUME Tick
      PROVE  UNCHANGED <<principal, directory>>
  BY <1>4 DEF Tick
<1> QED
  BY <1>1, <1>2, <1>3, <1>4 DEF Next

\* What the directory has said of a principal stays said.
Continues(p) ==
    /\ directory'[p] \in Seq([value : Tenant \cup {NoTenant}, until : 0 .. Horizon])
    /\ Current(p)' \in 1 .. Versions[p] /\ Current(p) <= Current(p)'
    /\ \A v \in 1 .. Current(p) : TenantAt(p, v)' = TenantAt(p, v)
    /\ \A v, moment \in Int :
          moment <= now /\ SaidSince(p, v, moment) => SaidSince(p, v, moment)'

LEMMA DirectoryStep ==
    ASSUME TypeOK, Shape, [Next]_vars
    PROVE  DOMAIN directory' = Principal /\ \A p \in Principal : Continues(p)
<1>0. /\ now \in Nat /\ Horizon \in Nat /\ \A p \in Principal : Versions[p] \in Nat
  BY TypeFacts
<1>1. ASSUME NEW u \in Principal, directory'[u] = directory[u]
      PROVE  Continues(u)
  <2>1. /\ directory[u] \in Seq([value : Tenant \cup {NoTenant}, until : 0 .. Horizon])
        /\ Len(directory[u]) \in 1 .. Versions[u]
    BY DEF TypeOK
  <2>2. Len(directory'[u]) = Len(directory[u]) /\ Len(directory[u]) <= Len(directory[u])
    BY <1>0, <1>1, <2>1
  <2>3. ASSUME NEW v, NEW moment, SaidSince(u, v, moment)
        PROVE  SaidSince(u, v, moment)'
    BY <1>1, <2>3 DEF SaidSince, Current
  <2> QED
    BY <1>1, <2>1, <2>2, <2>3 DEF Continues, Current, TenantAt
<1>2. ASSUME NEW p \in Principal, Change(p)
      PROVE  Continues(p) /\ DOMAIN directory' = Principal
             /\ \A u \in Principal \ {p} : directory'[u] = directory[u]
  <2> DEFINE V == Tenant \cup {NoTenant}
             U == 0 .. Horizon
             Rec == [value : V, until : U]
             s == directory[p]
  <2>1. PICK x \in Says[p] : /\ Current(p) < Versions[p]
          /\ directory' = [directory EXCEPT ![p] =
               Append([s EXCEPT ![Len(s)].until = now], [value |-> x, until |-> 0])]
    BY <1>2 DEF Change
  <2> DEFINE e == [value |-> x, until |-> 0]
             h == Append([s EXCEPT ![Len(s)].until = now], e)
  <2>2. s \in Seq(Rec) /\ Len(s) >= 1 /\ Len(s) \in Nat /\ now \in U
    <3>1. /\ directory[p] \in Seq([value : Tenant \cup {NoTenant}, until : 0 .. Horizon])
          /\ Len(directory[p]) \in 1 .. Versions[p] /\ now \in 0 .. Horizon
      BY DEF TypeOK
    <3> QED
      BY <1>0, <3>1
  <2>3. e \in Rec
    <3>1. 0 \in U /\ x \in V
      BY <1>0, DirectoryAssumption
    <3> QED
      BY <3>1
  <2>4. /\ h \in Seq(Rec) /\ Len(h) = Len(s) + 1
        /\ \A i \in 1 .. Len(s) : /\ h[i].value = s[i].value
                                   /\ h[i].until = IF i = Len(s) THEN now ELSE s[i].until
    <3>1. h = GoneOn(s, now, e) /\ IsSaying(Rec, V, U)
      BY DEF GoneOn, IsSaying
    <3> HIDE DEF s, e, h, U, V, Rec
    <3> QED
      BY <2>2, <2>3, <3>1, HistoryGoesOn
  <2>5. directory'[p] = h /\ DOMAIN directory' = Principal
        /\ \A u \in Principal \ {p} : directory'[u] = directory[u]
    BY <2>1 DEF Shape
  <2> HIDE DEF h
  <2>6. Current(p)' = Current(p) + 1 /\ Current(p) = Len(s)
    BY <2>4, <2>5 DEF Current
  <2>7. ASSUME NEW v \in Int, NEW moment \in Int, moment <= now, SaidSince(p, v, moment)
        PROVE  SaidSince(p, v, moment)'
    <3>1. v \in 1 .. Len(s) /\ (v = Len(s) \/ s[v].until >= moment)
      BY <2>6, <2>7 DEF SaidSince
    <3>2. h[v].until >= moment
      BY <1>0, <2>4, <2>7, <3>1
    <3>3. v \in 1 .. Current(p)'
      BY <2>2, <2>6, <3>1
    <3> QED
      BY <2>5, <3>2, <3>3 DEF SaidSince
  <2>8. Current(p)' \in 1 .. Versions[p] /\ Current(p) <= Current(p)'
    BY <1>0, <2>1, <2>2, <2>6
  <2>9. \A v \in 1 .. Current(p) : TenantAt(p, v)' = TenantAt(p, v)
    BY <2>4, <2>5, <2>6 DEF TenantAt
  <2> QED
    BY <2>4, <2>5, <2>7, <2>8, <2>9 DEF Continues
<1>3. directory' = directory \/ \E p \in Principal : Change(p)
  BY WorldStep DEF vars, world
<1>4. CASE directory' = directory
  BY <1>1, <1>4 DEF Shape
<1>5. CASE \E p \in Principal : Change(p)
  BY <1>1, <1>2, <1>5
<1> QED
  BY <1>3, <1>4, <1>5

\* How one principal's lookup goes on: it begins, is answered, lands, fails, or
\* ends; nothing else touches it.
Begins(p) == /\ flight[p].phase = "idle"
             /\ flight'[p] = [Idle EXCEPT !.phase = "dialing", !.deadline = now + Timeout]
Fails(p) == \E err \in Failure :
    /\ flight[p].phase \in {"dialing", "transit"}
    /\ flight'[p] = [flight[p] EXCEPT !.phase = "failed", !.err = err]
IsAnswered(p) ==
    /\ flight[p].phase = "dialing"
    /\ flight'[p] = [flight[p] EXCEPT !.phase = "transit", !.ver = Current(p),
                                      !.tenant = TenantAt(p, Current(p))]
Lands(p) == /\ flight[p].phase = "transit" /\ AnswerArrives(p)
            /\ flight'[p] = [flight[p] EXCEPT !.phase = "landed"]
Finishes(p) == EndFlight(p) /\ flight'[p] = Idle

FliesOn(p) == \/ flight'[p] = flight[p] /\ ~AnswerArrives(p)
              \/ Begins(p) \/ Fails(p) \/ IsAnswered(p) \/ Lands(p) \/ Finishes(p)

LEMMA FlightStep ==
    ASSUME TypeOK, Shape, Next
    PROVE  DOMAIN flight' = Principal /\ \A p \in Principal : FliesOn(p)
<1> DEFINE OneFliesOn(p) == /\ DOMAIN flight' = Principal
                            /\ \A q \in Principal \ {p} : flight'[q] = flight[q]
<1>0. DOMAIN flight = Principal
  BY DEF Shape
<1>1. ASSUME NEW p \in Principal, AnswerArrives(p)
      PROVE  /\ flight[p].phase = "transit" /\ flight'[p].phase = "landed"
             /\ flight'[p] = [flight[p] EXCEPT !.phase = "landed"] /\ OneFliesOn(p)
  <2>1. flight[p] \in [phase : {"idle", "dialing", "transit", "landed", "failed"},
                        tenant : Tenant \cup {NoTenant}, ver : 0 .. Versions[p],
                        err : Failure \cup {"none"}, deadline : 0 .. Horizon + Timeout]
    BY DEF TypeOK
  <2> QED
    BY <1>0, <1>1, <2>1 DEF AnswerArrives
<1>2. ASSUME NEW p \in Principal, flight'[p] = flight[p]
      PROVE  FliesOn(p)
  <2>1. ~AnswerArrives(p)
    BY <1>1, <1>2
  <2> QED
    BY <1>2, <2>1 DEF FliesOn
<1>3. ASSUME flight' = flight
      PROVE  DOMAIN flight' = Principal /\ \A p \in Principal : FliesOn(p)
  BY <1>0, <1>2, <1>3
<1>4. ASSUME NEW p \in Principal, OneFliesOn(p), FliesOn(p)
      PROVE  DOMAIN flight' = Principal /\ \A q \in Principal : FliesOn(q)
  <2>1. ASSUME NEW q \in Principal \ {p}
        PROVE  FliesOn(q)
    BY <1>2, <1>4, <2>1
  <2> QED
    BY <1>4, <2>1
<1>5. ASSUME NEW r \in Request, Arrive(r) \/ JoinFlight(r)
      PROVE  flight' = flight
  BY <1>5 DEF Arrive, ClaimMissing, CacheHit, CacheMiss, JoinFlight
<1>6. ASSUME NEW r \in Request, LeadFlight(r)
      PROVE  \E p \in Principal : OneFliesOn(p) /\ FliesOn(p)
  <2>1. /\ principal[r] \in Principal /\ Begins(principal[r]) /\ OneFliesOn(principal[r])
    BY <1>0, <1>6 DEF LeadFlight, Begins
  <2> QED
    BY <2>1 DEF FliesOn
<1>7. ASSUME NEW p \in Principal, DirectoryAnswers(p)
      PROVE  OneFliesOn(p) /\ FliesOn(p)
  <2>1. IsAnswered(p) /\ OneFliesOn(p)
    BY <1>0, <1>7 DEF DirectoryAnswers, IsAnswered
  <2> QED
    BY <2>1 DEF FliesOn
<1>8. ASSUME NEW p \in Principal, AnswerArrives(p)
      PROVE  OneFliesOn(p) /\ FliesOn(p)
  <2>1. Lands(p) /\ OneFliesOn(p)
    BY <1>1, <1>8 DEF Lands
  <2> QED
    BY <2>1 DEF FliesOn
<1>9. ASSUME NEW p \in Principal, LookupFails(p) \/ LookupTimesOut(p)
      PROVE  OneFliesOn(p) /\ FliesOn(p)
  <2>1. Fails(p) /\ OneFliesOn(p)
    BY <1>0, <1>9 DEF LookupFails, LookupTimesOut, Fails, Failure
  <2> QED
    BY <2>1 DEF FliesOn
<1>10. ASSUME NEW p \in Principal, EndFlight(p)
      PROVE  OneFliesOn(p) /\ FliesOn(p)
  <2>1. Finishes(p) /\ OneFliesOn(p)
    BY <1>0, <1>10 DEF EndFlight, Finishes
  <2> QED
    BY <2>1 DEF FliesOn
<1>11. ASSUME (\E p \in Principal : Change(p)) \/ Tick
       PROVE  flight' = flight
  BY <1>11 DEF Change, Tick
<1> HIDE DEF OneFliesOn
<1> QED
  BY <1>3, <1>4, <1>5, <1>6, <1>7, <1>8, <1>9, <1>10, <1>11 DEF Next, Proceed

\* What a request is given: nothing yet, a refusal without claims, the cache's
\* entry, or what its lookup brought.
GetsFromLookup(r, p) == /\ p \in Principal /\ EndFlight(p)
                        /\ r \in Aboard(p) /\ answer'[r] = Outcome(p)
IsGiven(r) ==
    \/ answer'[r] = answer[r]
    \/ ClaimMissing(r) /\ answer'[r] = Answered(Failed("claim_missing"), 0)
    \/ CacheHit(r) /\ answer'[r] = Kept(principal[r])
    \/ \E p \in Principal : GetsFromLookup(r, p)

LEMMA AnswerStep ==
    ASSUME TypeOK, [Next]_vars
    PROVE  answer' = [r \in Request |-> answer'[r]] /\ \A r \in Request : IsGiven(r)
<1>0. DOMAIN answer = Request /\ answer = [r \in Request |-> answer[r]]
  BY DEF TypeOK
<1>1. ASSUME answer' = answer
      PROVE  answer' = [r \in Request |-> answer'[r]] /\ \A r \in Request : IsGiven(r)
  BY <1>0, <1>1 DEF IsGiven
<1>2. ASSUME NEW q \in Request, ClaimMissing(q) \/ CacheHit(q)
      PROVE  answer' = [r \in Request |-> answer'[r]] /\ \A r \in Request : IsGiven(r)
  <2>1. \/ ClaimMissing(q) /\ answer' = [answer EXCEPT ![q] = Answered(Failed("claim_missing"), 0)]
        \/ CacheHit(q) /\ answer' = [answer EXCEPT ![q] = Kept(principal[q])]
    BY <1>2 DEF ClaimMissing, CacheHit
  <2> QED
    BY <1>0, <2>1 DEF IsGiven
<1>3. ASSUME NEW p \in Principal, EndFlight(p)
      PROVE  answer' = [r \in Request |-> answer'[r]] /\ \A r \in Request : IsGiven(r)
  <2>1. answer' = [r \in Request |-> IF r \in Aboard(p) THEN Outcome(p) ELSE answer[r]]
    BY <1>3 DEF EndFlight
  <2> QED
    BY <1>3, <2>1 DEF IsGiven, GetsFromLookup
<1>4. ASSUME NEW r \in Request, CacheMiss(r) \/ Proceed(r)
      PROVE  answer' = answer
  BY <1>4 DEF CacheMiss, Proceed, JoinFlight, LeadFlight
<1>5. ASSUME NEW p \in Principal, DirectoryAnswers(p) \/ AnswerArrives(p) \/ LookupFails(p)
                                 \/ LookupTimesOut(p) \/ Change(p)
      PROVE  answer' = answer
  BY <1>5 DEF DirectoryAnswers, AnswerArrives, LookupFails, LookupTimesOut, Change
<1>6. ASSUME Tick \/ UNCHANGED vars
      PROVE  answer' = answer
  BY <1>6 DEF Tick, vars
<1> QED
  BY <1>1, <1>2, <1>3, <1>4, <1>5, <1>6 DEF Next, Arrive

\* What the handler makes of an answer is what the request is owed.
LEMMA DerivedIsOwed ==
    ASSUME NEW t \in Tenant \cup {NoTenant}
    PROVE  Derived(t) = Owed(t) /\ Derived(t) \in [kind : Kind, tenant : Tenant \cup {NoTenant}]
<1> USE NoneAssumption, AllowlistAssumption DEF Owed, Derived, Ends, Admitted, Kind
<1>1. CASE t = NoTenant
  BY <1>1
<1>2. CASE t # NoTenant /\ Allowlist # {} /\ t \notin Allowlist
  BY <1>2
<1>3. CASE t # NoTenant /\ (Allowlist = {} \/ t \in Allowlist)
  BY <1>3
<1> QED
  BY <1>1, <1>2, <1>3

\* The newest version among those given is one of them.
LEMMA NewestIsGiven ==
    ASSUME TypeOK, Shape, Ordered, NEW p \in Principal
    PROVE  Newest(p) \in Nat /\ (Newest(p) = 0 \/ \E q \in Request :
              principal[q] = p /\ Newest(p) = answer[q].ver)
<1> DEFINE S == {0} \cup {answer[q].ver : q \in {x \in Request : principal[x] = p}}
<1>1. Current(p) \in Nat
  BY TypeFacts
<1>2. S \in SUBSET (0 .. Current(p)) /\ S # {}
  <2>1. ASSUME NEW q \in Request, principal[q] = p
        PROVE  answer[q].ver \in 0 .. Current(p)
    <3>1. answer[q].ver \in Nat /\ answer[q].ver <= Current(p)
      BY <2>1, TypeFacts DEF Ordered, NoneNewer
    <3> QED
      BY <1>1, <3>1
  <2> QED
    BY <1>1, <2>1
<1>3. Max(S) \in S
  <2> HIDE DEF S
  <2> QED
    BY <1>1, <1>2, GreatestOfBounded
<1>4. Newest(p) \in S
  BY <1>3 DEF Newest
<1> QED
  BY <1>1, <1>2, <1>4

-----------------------------------------------------------------------------
LEMMA InitEstablishes == Init => IInv
<1> SUFFICES ASSUME Init PROVE IInv
  OBVIOUS
<1> USE CacheAssumption, TimeAssumption, AskingAssumption
<1>1. /\ cache.order \in Seq(Principal) /\ Coherent(cache, MaxEntries) /\ Held(cache) = {}
      /\ cache = [order |-> cache.order, entry |-> cache.entry]
  BY EmptyProperties DEF Init
<1>2. DOMAIN directory = Principal /\ \A p \in Principal :
         /\ directory[p] \in Seq([value : Tenant \cup {NoTenant}, until : 0 .. Horizon])
         /\ Len(directory[p]) = 1
  <2> SUFFICES ASSUME NEW p \in Principal
        PROVE  /\ directory[p] \in Seq([value : Tenant \cup {NoTenant}, until : 0 .. Horizon])
               /\ Len(directory[p]) = 1
    BY DEF Init
  <2>1. PICK t \in Tenant \cup {NoTenant} : directory[p] = <<[value |-> t, until |-> 0]>>
    BY DEF Init
  <2>2. [value |-> t, until |-> 0] \in [value : Tenant \cup {NoTenant}, until : 0 .. Horizon]
    OBVIOUS
  <2> QED
    BY <2>1, <2>2
<1>3. \A p \in Principal : flight[p] = Idle /\ flight[p].phase = "idle"
                          /\ flight[p].deadline = 0
  BY DEF Init, Idle
<1>4. \A r \in Request : answer[r] = Answered(Pending, 0) /\ answer[r].ver = 0
  BY DEF Init, Answered
<1>5. TypeOK
  <2>1. \A p \in Principal :
          /\ directory[p] \in Seq([value : Tenant \cup {NoTenant}, until : 0 .. Horizon])
          /\ Len(directory[p]) \in 1 .. Versions[p]
    <3>1. \A p \in Principal : 1 \in 1 .. Versions[p]
      OBVIOUS
    <3> QED
      BY <1>2, <3>1, Zenon
  <2>2. \A p \in Principal : flight[p] \in
          [phase : {"idle", "dialing", "transit", "landed", "failed"},
           tenant : Tenant \cup {NoTenant}, ver : 0 .. Versions[p],
           err : Failure \cup {"none"}, deadline : 0 .. Horizon + Timeout]
    BY <1>3 DEF Idle
  <2>3. answer \in [Request -> [ends : [kind : Kind, tenant : Tenant \cup {NoTenant}], ver : Nat]]
    BY DEF Init, Answered, Pending, Ends, Kind
  <2>4. /\ pc \in [Request -> {"new", "missed", "leading", "waiting", "done"}]
        /\ floor \in [Request -> Nat] /\ now \in 0 .. Horizon /\ principal \in Askings
    BY DEF Init
  <2> QED
    BY <1>1, <2>1, <2>2, <2>3, <2>4 DEF TypeOK
<1>6. Shape /\ Undecided /\ EntriesTrue /\ EntriesRecent
  BY <1>1, <1>2, <1>4 DEF Shape, Undecided, EntriesTrue, EntriesRecent, Init
<1>7. FlightTrue /\ FailureKnown /\ OnTime /\ Stamps
  BY <1>1, <1>3 DEF FlightTrue, FailureKnown, OnTime, Stamps, InTransit, Init
<1>8. Ordered /\ Floors /\ AnswersNeverGoBack
  <2>1. \A p \in Principal : NoneNewer(p, Current(p))
    BY <1>2, <1>4 DEF NoneNewer, Current
  <2> QED
    BY <1>1, <1>3, <1>4, <2>1 DEF Ordered, Floors, AnswersNeverGoBack, InTransit, Init
<1> QED
  BY <1>5, <1>6, <1>7, <1>8 DEF IInv

-----------------------------------------------------------------------------
LEMMA FlightTypeKept ==
    ASSUME TypeOK, Shape, Next, NEW p \in Principal
    PROVE  flight'[p] \in
              [phase : {"idle", "dialing", "transit", "landed", "failed"},
               tenant : Tenant \cup {NoTenant}, ver : 0 .. Versions[p],
               err : Failure \cup {"none"}, deadline : 0 .. Horizon + Timeout]
<1>1. /\ flight[p] \in [phase : {"idle", "dialing", "transit", "landed", "failed"},
                        tenant : Tenant \cup {NoTenant}, ver : 0 .. Versions[p],
                        err : Failure \cup {"none"}, deadline : 0 .. Horizon + Timeout]
      /\ now \in 0 .. Horizon
  BY DEF TypeOK
<1>2. /\ now + Timeout \in 0 .. Horizon + Timeout /\ 0 \in 0 .. Horizon + Timeout
      /\ 0 \in 0 .. Versions[p] /\ Current(p) \in 0 .. Versions[p]
      /\ TenantAt(p, Current(p)) \in Tenant \cup {NoTenant}
  <2>1. /\ Current(p) \in 1 .. Versions[p] /\ Versions[p] \in Nat
        /\ Timeout \in Nat /\ Horizon \in Nat
    BY TypeFacts
  <2>2. Current(p) \in 1 .. Current(p)
    BY <2>1
  <2>3. TenantAt(p, Current(p)) \in Tenant \cup {NoTenant}
    BY <2>2, TypeFacts
  <2> QED
    BY <1>1, <2>1, <2>3
<1>3. CASE Begins(p)
  BY <1>2, <1>3 DEF Begins, Idle
<1>4. CASE Finishes(p)
  BY <1>2, <1>4 DEF Finishes, Idle
<1>5. CASE Fails(p) \/ Lands(p)
  BY <1>1, <1>5 DEF Fails, Lands
<1>6. CASE IsAnswered(p)
  BY <1>1, <1>2, <1>6 DEF IsAnswered
<1> QED
  BY <1>1, <1>3, <1>4, <1>5, <1>6, FlightStep DEF FliesOn

LEMMA TypeKept ==
    ASSUME TypeOK, Shape, FlightTrue, Ordered, Next
    PROVE  TypeOK'
<1> USE CacheAssumption, TimeAssumption
<1>1. now' \in 0 .. Horizon /\ principal' \in Askings
  <2>1. now \in 0 .. Horizon /\ principal \in Askings /\ principal' = principal
        /\ (now' = now \/ (now < Horizon /\ now' = now + 1))
    BY WorldStep DEF TypeOK, Tick
  <2> QED
    BY <2>1
<1>2. \A p \in Principal :
        /\ directory'[p] \in Seq([value : Tenant \cup {NoTenant}, until : 0 .. Horizon])
        /\ Len(directory'[p]) \in 1 .. Versions[p]
  BY DirectoryStep DEF Continues, Current
<1>3. cache'.order \in Seq(Principal)
  BY CacheStep DEF CacheGoesOn
<1>4. \A p \in Held(cache)' : cache'.entry[p] \in
        [tenant : Tenant \cup {NoTenant}, ver : 1 .. Versions[p], expires : Int]
  <2> SUFFICES ASSUME NEW p \in Held(cache)'
               PROVE  cache'.entry[p] \in
                        [tenant : Tenant \cup {NoTenant}, ver : 1 .. Versions[p], expires : Int]
    OBVIOUS
  <2>1. CASE p \in Held(cache) /\ cache'.entry[p] = cache.entry[p]
    BY <2>1 DEF TypeOK
  <2>2. CASE Stored(p)
    <3>1. p \in Principal
      BY CacheStep DEF CacheGoesOn, Coherent, ToSet
    <3>2. InTransit(p)
      BY <2>2 DEF Stored, AnswerArrives, InTransit
    <3>3. flight[p].ver \in 1 .. Current(p) /\ Current(p) \in 1 .. Versions[p]
          /\ Versions[p] \in Nat
      BY <3>1, <3>2, TypeFacts DEF FlightTrue, SaidSince
    <3>4. flight[p].ver \in 1 .. Versions[p]
      BY <3>3
    <3>5. flight[p].tenant \in Tenant \cup {NoTenant} /\ now \in Int
          /\ now + NegativeTTL \in Int /\ now + TTL \in Int
      BY <3>1, TypeFacts
    <3> QED
      BY <2>2, <3>4, <3>5 DEF Stored, Entry
  <2> QED
    BY <2>1, <2>2, CacheStep DEF CacheGoesOn
<1>5. answer' \in [Request -> [ends : [kind : Kind, tenant : Tenant \cup {NoTenant}], ver : Nat]]
  <2> DEFINE A == [ends : [kind : Kind, tenant : Tenant \cup {NoTenant}], ver : Nat]
  <2>1. ASSUME NEW r \in Request
        PROVE  answer'[r] \in A
    <3>1. CASE answer'[r] = answer[r]
      BY <3>1 DEF TypeOK
    <3>2. CASE answer'[r] = Answered(Failed("claim_missing"), 0)
      BY <3>2 DEF Answered, Failed, Ends, Kind
    <3>3. CASE CacheHit(r) /\ answer'[r] = Kept(principal[r])
      <4>1. principal[r] \in Held(cache)
        BY <3>3 DEF CacheHit, Fresh, Live
      <4>2. /\ cache.entry[principal[r]].ver \in Nat
            /\ Derived(cache.entry[principal[r]].tenant)
                  \in [kind : Kind, tenant : Tenant \cup {NoTenant}]
        BY <4>1, TypeFacts, DerivedIsOwed
      <4> QED
        BY <3>3, <4>2 DEF Kept, Answered
    <3>4. ASSUME NEW p \in Principal, GetsFromLookup(r, p)
          PROVE  answer'[r] \in A
      <4>1. flight[p] \in [phase : {"idle", "dialing", "transit", "landed", "failed"},
                            tenant : Tenant \cup {NoTenant}, ver : 0 .. Versions[p],
                            err : Failure \cup {"none"}, deadline : 0 .. Horizon + Timeout]
        BY DEF TypeOK
      <4>2. Derived(flight[p].tenant) \in [kind : Kind, tenant : Tenant \cup {NoTenant}]
            /\ flight[p].ver \in Nat
        BY <4>1, DerivedIsOwed
      <4>3. Ends(flight[p].err, NoTenant) \in [kind : Kind, tenant : Tenant \cup {NoTenant}]
        BY <4>1 DEF Ends, Kind
      <4> QED
        BY <3>4, <4>2, <4>3 DEF GetsFromLookup, Outcome, Answered, Failed
    <3> QED
      BY <3>1, <3>2, <3>3, <3>4, AnswerStep DEF IsGiven
  <2> HIDE DEF A
  <2>2. answer' \in [Request -> A]
    BY <2>1, AnswerStep
  <2> QED
    BY <2>2 DEF A
<1>6. /\ pc' \in [Request -> {"new", "missed", "leading", "waiting", "done"}]
      /\ floor' \in [Request -> Nat]
  <2> DEFINE Pcs == {"new", "missed", "leading", "waiting", "done"}
  <2>1. pc \in [Request -> Pcs] /\ floor \in [Request -> Nat]
    BY DEF TypeOK
  <2>2. ASSUME NEW r \in Request, ClaimMissing(r) \/ JoinFlight(r) \/ LeadFlight(r)
        PROVE  pc' \in [Request -> Pcs] /\ floor' \in [Request -> Nat]
    BY <2>1, <2>2 DEF ClaimMissing, JoinFlight, LeadFlight, Goto
  <2>3. ASSUME NEW r \in Request, CacheHit(r) \/ CacheMiss(r)
        PROVE  pc' \in [Request -> Pcs] /\ floor' \in [Request -> Nat]
    <3>1. principal[r] \in Principal
      BY <2>3 DEF CacheHit, CacheMiss
    <3>2. Newest(principal[r]) \in Nat
      BY <3>1, NewestIsGiven
    <3> QED
      BY <2>1, <2>3, <3>2 DEF CacheHit, CacheMiss, Goto
  <2>4. ASSUME NEW p \in Principal, EndFlight(p)
        PROVE  pc' \in [Request -> Pcs] /\ floor' \in [Request -> Nat]
    BY <2>1, <2>4 DEF EndFlight
  <2>5. ASSUME NEW p \in Principal, DirectoryAnswers(p) \/ AnswerArrives(p) \/ LookupFails(p)
                                   \/ LookupTimesOut(p) \/ Change(p)
        PROVE  pc' \in [Request -> Pcs] /\ floor' \in [Request -> Nat]
    BY <2>1, <2>5 DEF DirectoryAnswers, AnswerArrives, LookupFails, LookupTimesOut, Change
  <2>6. ASSUME Tick
        PROVE  pc' \in [Request -> Pcs] /\ floor' \in [Request -> Nat]
    BY <2>1, <2>6 DEF Tick
  <2> HIDE DEF Pcs
  <2>7. pc' \in [Request -> Pcs] /\ floor' \in [Request -> Nat]
    BY <2>2, <2>3, <2>4, <2>5, <2>6 DEF Next, Arrive, Proceed
  <2> QED
    BY <2>7 DEF Pcs
<1> QED
  BY <1>1, <1>2, <1>3, <1>4, <1>5, <1>6, FlightTypeKept DEF TypeOK

LEMMA ShapeKept ==
    ASSUME TypeOK, Shape, Next
    PROVE  Shape'
BY CacheStep, DirectoryStep, FlightStep DEF Shape, CacheGoesOn

LEMMA UndecidedKept ==
    ASSUME TypeOK, Undecided, Next
    PROVE  Undecided'
<1>1. pc \in [Request -> {"new", "missed", "leading", "waiting", "done"}]
  BY DEF TypeOK
<1> SUFFICES ASSUME NEW r \in Request, pc'[r] # "done"
             PROVE  answer'[r] = Answered(Pending, 0)
  BY DEF Undecided
<1>2. pc[r] # "done"
  <2>1. ASSUME NEW q \in Request, Arrive(q) \/ Proceed(q)
        PROVE  pc[r] # "done"
    BY <1>1, <2>1 DEF Arrive, ClaimMissing, CacheHit, CacheMiss, Proceed, JoinFlight, LeadFlight,
                      Goto
  <2>2. ASSUME NEW p \in Principal, EndFlight(p)
        PROVE  pc[r] # "done"
    BY <1>1, <2>2 DEF EndFlight
  <2>3. ASSUME NEW p \in Principal, DirectoryAnswers(p) \/ AnswerArrives(p) \/ LookupFails(p)
                                   \/ LookupTimesOut(p) \/ Change(p)
        PROVE  pc[r] # "done"
    BY <2>3 DEF DirectoryAnswers, AnswerArrives, LookupFails, LookupTimesOut, Change
  <2> QED
    BY <2>1, <2>2, <2>3 DEF Next, Tick
<1>3. ASSUME answer'[r] # answer[r]
      PROVE  pc'[r] = "done"
  <2>1. CASE ClaimMissing(r) \/ CacheHit(r)
    BY <1>1, <2>1 DEF ClaimMissing, CacheHit, Goto
  <2>2. CASE \E p \in Principal : GetsFromLookup(r, p)
    BY <2>2 DEF GetsFromLookup, EndFlight
  <2> QED
    BY <1>3, <2>1, <2>2, AnswerStep DEF IsGiven
<1> QED
  BY <1>2, <1>3 DEF Undecided

LEMMA EntriesTrueKept ==
    ASSUME TypeOK, Shape, FlightTrue, EntriesTrue, Next
    PROVE  EntriesTrue'
<1> SUFFICES ASSUME NEW p \in Held(cache)'
             PROVE  /\ cache'.entry[p].ver \in 1 .. Current(p)'
                    /\ cache'.entry[p].tenant = TenantAt(p, cache.entry[p].ver)'
  BY DEF EntriesTrue
<1>1. p \in Principal
  BY CacheStep DEF CacheGoesOn, Coherent, ToSet
<1>2. PICK v : v = cache'.entry[p].ver
  OBVIOUS
<1>3. v \in 1 .. Current(p) /\ cache'.entry[p].tenant = TenantAt(p, v)
  <2>1. CASE p \in Held(cache) /\ cache'.entry[p] = cache.entry[p]
    BY <1>2, <2>1 DEF EntriesTrue
  <2>2. CASE Stored(p)
    <3>1. InTransit(p)
      BY <2>2 DEF Stored, AnswerArrives, InTransit
    <3> QED
      BY <1>1, <1>2, <2>2, <3>1 DEF FlightTrue, SaidSince, Stored, Entry
  <2> QED
    BY <2>1, <2>2, CacheStep DEF CacheGoesOn
<1>4. Continues(p) /\ Current(p) \in Nat
  BY <1>1, DirectoryStep, TypeFacts
<1>5. v \in 1 .. Current(p)' /\ TenantAt(p, v)' = TenantAt(p, v)
  BY <1>3, <1>4 DEF Continues
<1> QED
  BY <1>2, <1>3, <1>5 DEF TenantAt

LEMMA StampsKept ==
    ASSUME TypeOK, Shape, Stamps, Next
    PROVE  Stamps'
<1>1. now \in Nat /\ now' \in Nat /\ now <= now' /\ Timeout \in Nat
  <2>1. now' = now \/ now' = now + 1
    BY WorldStep DEF Tick
  <2> QED
    BY <2>1, TypeFacts
<1>2. ASSUME NEW p \in Principal
      PROVE  flight'[p].deadline - Timeout <= now'
  <2>1. flight[p].deadline \in Nat /\ flight[p].deadline - Timeout <= now
    BY TypeFacts DEF Stamps
  <2>2. flight'[p].deadline \in {flight[p].deadline, now + Timeout, 0}
    <3>1. flight[p] \in [phase : {"idle", "dialing", "transit", "landed", "failed"},
                          tenant : Tenant \cup {NoTenant}, ver : 0 .. Versions[p],
                          err : Failure \cup {"none"}, deadline : 0 .. Horizon + Timeout]
      BY DEF TypeOK
    <3>2. CASE Begins(p)
      BY <3>2 DEF Begins, Idle
    <3>3. CASE Finishes(p)
      BY <3>3 DEF Finishes, Idle
    <3>4. CASE IsAnswered(p) \/ Lands(p)
      BY <3>1, <3>4 DEF IsAnswered, Lands
    <3>5. CASE Fails(p)
      BY <3>1, <3>5 DEF Fails
    <3> QED
      BY <3>2, <3>3, <3>4, <3>5, FlightStep DEF FliesOn
  <2> QED
    BY <1>1, <2>1, <2>2
<1>3. ASSUME NEW p \in Held(cache)'
      PROVE  cache'.entry[p].expires <= now' + Life(cache'.entry[p].tenant)
  <2>1. CASE p \in Held(cache) /\ cache'.entry[p] = cache.entry[p]
    <3>1. /\ cache.entry[p].expires <= now + Life(cache.entry[p].tenant)
          /\ cache.entry[p].expires \in Int /\ Life(cache.entry[p].tenant) \in Int
      BY <2>1, TypeFacts DEF Stamps
    <3> QED
      BY <1>1, <2>1, <3>1
  <2>2. CASE Stored(p)
    <3>1. cache'.entry[p].expires = now + Life(cache'.entry[p].tenant)
      BY <2>2 DEF Stored, Entry, Life
    <3>2. Life(cache'.entry[p].tenant) \in Int
      BY CacheAssumption DEF Life
    <3> QED
      BY <1>1, <3>1, <3>2
  <2> QED
    BY <2>1, <2>2, CacheStep DEF CacheGoesOn
<1> QED
  BY <1>2, <1>3 DEF Stamps, Life

LEMMA OnTimeKept ==
    ASSUME TypeOK, Shape, OnTime, Next
    PROVE  OnTime'
<1> SUFFICES ASSUME Prompt, NEW p \in Principal,
                    flight'[p].phase \in {"dialing", "transit", "landed"}
             PROVE  now' <= flight'[p].deadline
  BY DEF OnTime
<1>1. now \in Nat /\ Timeout \in Nat /\ flight[p].deadline \in Nat
  BY TypeFacts
<1>2. flight[p] \in [phase : {"idle", "dialing", "transit", "landed", "failed"},
                      tenant : Tenant \cup {NoTenant}, ver : 0 .. Versions[p],
                      err : Failure \cup {"none"}, deadline : 0 .. Horizon + Timeout]
  BY DEF TypeOK
<1>3. CASE now' = now
  <2>1. CASE flight'[p] = flight[p]
    BY <1>3, <2>1 DEF OnTime
  <2>2. CASE Begins(p)
    BY <1>1, <1>3, <2>2 DEF Begins, Idle
  <2>3. CASE IsAnswered(p) \/ Lands(p)
    <3>1. flight[p].phase \in {"dialing", "transit"} /\ flight'[p].deadline = flight[p].deadline
      BY <1>2, <2>3 DEF IsAnswered, Lands
    <3> QED
      BY <1>3, <3>1 DEF OnTime
  <2>4. CASE Fails(p)
    BY <1>2, <2>4 DEF Fails
  <2>5. CASE Finishes(p)
    BY <2>5 DEF Finishes, Idle
  <2> QED
    BY <2>1, <2>2, <2>3, <2>4, <2>5, FlightStep DEF FliesOn
<1>4. CASE Tick
  BY <1>1, <1>4 DEF Tick, Settled
<1> QED
  BY <1>3, <1>4, WorldStep

LEMMA FlightTrueKept ==
    ASSUME TypeOK, Shape, FlightTrue, Stamps, Next
    PROVE  FlightTrue'
<1> SUFFICES ASSUME NEW p \in Principal, InTransit(p)'
             PROVE  /\ flight'[p].tenant = TenantAt(p, flight[p].ver)'
                    /\ SaidSince(p, flight[p].ver, flight[p].deadline - Timeout)'
  BY DEF FlightTrue
<1>0. /\ now \in Nat /\ Timeout \in Nat /\ Current(p) \in Nat /\ Current(p) >= 1
      /\ flight[p].deadline \in Nat /\ flight[p].ver \in Nat /\ Continues(p)
  BY TypeFacts, DirectoryStep
<1>1. flight[p] \in [phase : {"idle", "dialing", "transit", "landed", "failed"},
                      tenant : Tenant \cup {NoTenant}, ver : 0 .. Versions[p],
                      err : Failure \cup {"none"}, deadline : 0 .. Horizon + Timeout]
  BY DEF TypeOK
<1>2. PICK v \in Nat, moment \in Int :
         /\ v = flight'[p].ver /\ moment = flight'[p].deadline - Timeout /\ moment <= now
         /\ flight'[p].tenant = TenantAt(p, v) /\ SaidSince(p, v, moment)
  <2>1. CASE flight'[p] = flight[p] \/ Lands(p)
    <3>1. InTransit(p) /\ flight'[p].ver = flight[p].ver
          /\ flight'[p].deadline = flight[p].deadline /\ flight'[p].tenant = flight[p].tenant
      BY <1>1, <2>1 DEF InTransit, Lands
    <3>2. /\ flight[p].tenant = TenantAt(p, flight[p].ver)
          /\ SaidSince(p, flight[p].ver, flight[p].deadline - Timeout)
          /\ flight[p].deadline - Timeout <= now
      BY <3>1 DEF FlightTrue, Stamps
    <3>3. PICK v \in Nat, moment \in Int :
             v = flight[p].ver /\ moment = flight[p].deadline - Timeout
      BY <1>0
    <3> QED
      BY <3>1, <3>2, <3>3
  <2>2. CASE IsAnswered(p)
    <3>1. /\ flight'[p].ver = Current(p) /\ flight'[p].deadline = flight[p].deadline
          /\ flight'[p].tenant = TenantAt(p, Current(p))
      BY <1>1, <2>2 DEF IsAnswered
    <3>2. flight[p].deadline - Timeout <= now
      BY DEF Stamps
    <3>3. PICK v \in Nat, moment \in Int :
             v = Current(p) /\ moment = flight[p].deadline - Timeout
      BY <1>0
    <3>4. SaidSince(p, v, moment)
      BY <1>0, <3>3 DEF SaidSince
    <3> QED
      BY <3>1, <3>2, <3>3, <3>4
  <2>3. CASE Begins(p)
    BY <2>3 DEF Begins, Idle, InTransit
  <2>4. CASE Fails(p)
    BY <1>1, <2>4 DEF Fails, InTransit
  <2>5. CASE Finishes(p)
    BY <2>5 DEF Finishes, Idle, InTransit
  <2> QED
    BY <2>1, <2>2, <2>3, <2>4, <2>5, FlightStep DEF FliesOn
<1>3. SaidSince(p, v, moment)'
  BY <1>0, <1>2 DEF Continues
<1>4. v \in 1 .. Current(p)
  BY <1>2 DEF SaidSince
<1>5. TenantAt(p, v)' = TenantAt(p, v)
  BY <1>0, <1>4 DEF Continues
<1> QED
  BY <1>2, <1>3, <1>5 DEF SaidSince, TenantAt

LEMMA FailureKnownKept ==
    ASSUME TypeOK, Shape, FailureKnown, Next
    PROVE  FailureKnown'
<1> SUFFICES ASSUME NEW p \in Principal, flight'[p].phase = "failed"
             PROVE  flight'[p].err \in Failure
  BY DEF FailureKnown
<1>1. flight[p] \in [phase : {"idle", "dialing", "transit", "landed", "failed"},
                      tenant : Tenant \cup {NoTenant}, ver : 0 .. Versions[p],
                      err : Failure \cup {"none"}, deadline : 0 .. Horizon + Timeout]
  BY DEF TypeOK
<1>2. CASE flight'[p] = flight[p]
  BY <1>2 DEF FailureKnown
<1>3. CASE Begins(p)
  BY <1>3 DEF Begins, Idle
<1>4. CASE Fails(p)
  BY <1>1, <1>4 DEF Fails
<1>5. CASE IsAnswered(p) \/ Lands(p)
  BY <1>1, <1>5 DEF IsAnswered, Lands
<1>6. CASE Finishes(p)
  BY <1>6 DEF Finishes, Idle
<1> QED
  BY <1>2, <1>3, <1>4, <1>5, <1>6, FlightStep DEF FliesOn

LEMMA EntriesRecentKept ==
    ASSUME IInv, Next
    PROVE  EntriesRecent'
<1>0. TypeOK /\ Shape /\ Stamps /\ FlightTrue /\ OnTime /\ EntriesRecent /\ EntriesTrue
  BY DEF IInv
<1> SUFFICES ASSUME Prompt, NEW p \in Held(cache)'
             PROVE  SaidSince(p, cache.entry[p].ver,
                       cache.entry[p].expires - Life(cache.entry[p].tenant) - Timeout)'
  BY DEF EntriesRecent
<1>1. p \in Principal
  BY <1>0, CacheStep DEF CacheGoesOn, Coherent, ToSet
<1>2. now \in Nat /\ Timeout \in Nat /\ Continues(p) /\ Current(p) \in Nat
  BY <1>0, <1>1, TypeFacts, DirectoryStep
<1>3. PICK v \in Int, moment \in Int :
         /\ v = cache'.entry[p].ver
         /\ moment = cache'.entry[p].expires - Life(cache'.entry[p].tenant) - Timeout
         /\ moment <= now /\ SaidSince(p, v, moment)
  <2>1. CASE p \in Held(cache) /\ cache'.entry[p] = cache.entry[p]
    <3>1. /\ cache.entry[p].expires \in Int /\ Life(cache.entry[p].tenant) \in Int
          /\ cache.entry[p].ver \in Int
          /\ cache.entry[p].expires <= now + Life(cache.entry[p].tenant)
          /\ SaidSince(p, cache.entry[p].ver,
                       cache.entry[p].expires - Life(cache.entry[p].tenant) - Timeout)
      BY <1>0, <2>1, TypeFacts DEF Stamps, EntriesRecent
    <3>2. PICK v \in Int, moment \in Int : v = cache.entry[p].ver
             /\ moment = cache.entry[p].expires - Life(cache.entry[p].tenant) - Timeout
      BY <1>2, <3>1
    <3>3. moment <= now
      BY <1>2, <3>1, <3>2
    <3> QED
      BY <2>1, <3>1, <3>2, <3>3
  <2>2. CASE Stored(p)
    <3>1. InTransit(p) /\ flight[p].phase = "transit"
      BY <2>2 DEF Stored, AnswerArrives, InTransit
    <3>2. /\ flight[p].deadline \in Nat /\ flight[p].ver \in Nat
          /\ now <= flight[p].deadline
          /\ SaidSince(p, flight[p].ver, flight[p].deadline - Timeout)
          /\ flight[p].tenant = TenantAt(p, flight[p].ver)
      BY <1>0, <1>1, <3>1, TypeFacts DEF OnTime, FlightTrue
    <3>3. /\ cache'.entry[p].ver = flight[p].ver
          /\ cache'.entry[p].expires - Life(cache'.entry[p].tenant) - Timeout = now - Timeout
      <4>1. /\ cache'.entry[p].ver = flight[p].ver /\ Life(cache'.entry[p].tenant) \in Int
            /\ cache'.entry[p].expires = now + Life(cache'.entry[p].tenant)
        BY <2>2, CacheAssumption DEF Stored, Entry, Life
      <4> QED
        BY <1>2, <4>1
    <3>4. PICK v \in Int, moment \in Int : v = flight[p].ver /\ moment = now - Timeout
      BY <1>2, <3>2
    <3>5. SaidSince(p, v, moment)
      <4>1. v \in 1 .. Current(p)
            /\ (v = Current(p) \/ directory[p][v].until >= flight[p].deadline - Timeout)
        BY <3>2, <3>4 DEF SaidSince
      <4>2. directory[p][v].until \in Nat
        BY <1>0, <1>1, <4>1, TypeFacts
      <4> QED
        BY <1>2, <3>2, <3>4, <4>1, <4>2 DEF SaidSince
    <3> QED
      BY <1>2, <3>3, <3>4, <3>5
  <2> QED
    BY <1>0, <2>1, <2>2, CacheStep DEF CacheGoesOn
<1>4. SaidSince(p, v, moment)'
  BY <1>2, <1>3 DEF Continues
<1> QED
  BY <1>3, <1>4 DEF SaidSince, Life

-----------------------------------------------------------------------------
(* The order of answers. *)

LEMMA ArrivalIsStored ==
    ASSUME TypeOK, Shape, NEW p \in Principal, AnswerArrives(p)
    PROVE  Stored(p)
<1> DEFINE e == Entry(flight[p].tenant, flight[p].ver)
<1>1. cache' = Put(cache, p, e, MaxEntries)
  BY DEF AnswerArrives, CacheSet
<1>2. cache.order \in Seq(Principal) /\ Coherent(cache, MaxEntries) /\ MaxEntries \in Nat \ {0}
  BY TypeFacts DEF TypeOK, Shape
<1> HIDE DEF e
<1>3. cache'.entry[p] = e
  BY <1>1, <1>2, PutProperties
<1> QED
  BY <1>3 DEF Stored, e

\* Where the version that a request is given comes from.
LEMMA VersionGiven ==
    ASSUME TypeOK, Shape, Next, NEW r \in Request, NEW p \in Principal, principal[r] = p
    PROVE  \/ answer'[r].ver = answer[r].ver \/ answer'[r].ver = 0
           \/ p \in Held(cache) /\ answer'[r].ver = cache.entry[p].ver
           \/ flight[p].phase = "landed" /\ answer'[r].ver = flight[p].ver
<1>1. CASE ClaimMissing(r) /\ answer'[r] = Answered(Failed("claim_missing"), 0)
  BY <1>1 DEF Answered
<1>2. CASE CacheHit(r) /\ answer'[r] = Kept(principal[r])
  BY <1>2 DEF CacheHit, Fresh, Live, Kept, Answered
<1>3. ASSUME NEW q \in Principal, GetsFromLookup(r, q)
      PROVE  answer'[r].ver = 0 \/ (flight[p].phase = "landed" /\ answer'[r].ver = flight[p].ver)
  <2>1. q = p
    BY <1>3 DEF GetsFromLookup, Aboard
  <2> QED
    BY <1>3, <2>1 DEF GetsFromLookup, EndFlight, Outcome, Answered
<1> QED
  BY <1>1, <1>2, <1>3, AnswerStep DEF IsGiven

LEMMA NoneNewerKept ==
    ASSUME TypeOK, Shape, Next, NEW p \in Principal, NEW v \in Nat, NoneNewer(p, v),
           p \in Held(cache) => cache.entry[p].ver <= v,
           flight[p].phase = "landed" => flight[p].ver <= v
    PROVE  NoneNewer(p, v)'
<1> SUFFICES ASSUME NEW r \in Request, principal[r] = p
             PROVE  answer'[r].ver <= v
  BY WorldStep DEF NoneNewer
<1>1. answer[r].ver <= v
  BY DEF NoneNewer
<1> QED
  BY <1>1, VersionGiven

LEMMA OrderedKept ==
    ASSUME TypeOK, Shape, FlightTrue, EntriesTrue, Ordered, Next
    PROVE  Ordered'
<1> SUFFICES ASSUME NEW p \in Principal
             PROVE  /\ NoneNewer(p, Current(p))'
                    /\ p \in Held(cache)' => NoneNewer(p, cache.entry[p].ver)'
                    /\ InTransit(p)' => NoneNewer(p, flight[p].ver)'
                    /\ InTransit(p)' /\ p \in Held(cache)'
                          => cache'.entry[p].ver <= flight'[p].ver
                    /\ flight'[p].phase = "landed" /\ p \in Held(cache)'
                          => cache'.entry[p].ver = flight'[p].ver
  BY DEF Ordered
<1>0. /\ Current(p) \in Nat /\ flight[p].ver \in Nat /\ Current(p)' \in Nat
      /\ p \in Held(cache) => cache.entry[p].ver \in Nat
      /\ Current(p) <= Current(p)'
  <2>1. Current(p)' \in 1 .. Versions[p] /\ Current(p) <= Current(p)'
    BY DirectoryStep DEF Continues
  <2>2. Current(p) \in 1 .. Versions[p] /\ Versions[p] \in Nat
        /\ flight[p].ver \in Nat /\ (p \in Held(cache) => cache.entry[p].ver \in Nat)
    BY TypeFacts
  <2> QED
    BY <2>1, <2>2
<1>1. /\ p \in Held(cache) => cache.entry[p].ver <= Current(p)
      /\ InTransit(p) => flight[p].ver <= Current(p)
      /\ flight[p].phase = "landed" => InTransit(p)
      /\ flight[p].phase = "transit" => InTransit(p)
  BY <1>0 DEF EntriesTrue, FlightTrue, SaidSince, InTransit
<1>2. /\ NoneNewer(p, Current(p))
      /\ p \in Held(cache) => NoneNewer(p, cache.entry[p].ver)
      /\ InTransit(p) => NoneNewer(p, flight[p].ver)
      /\ InTransit(p) /\ p \in Held(cache) => cache.entry[p].ver <= flight[p].ver
      /\ flight[p].phase = "landed" /\ p \in Held(cache) => cache.entry[p].ver = flight[p].ver
  BY DEF Ordered
<1>3. flight[p] \in [phase : {"idle", "dialing", "transit", "landed", "failed"},
                      tenant : Tenant \cup {NoTenant}, ver : 0 .. Versions[p],
                      err : Failure \cup {"none"}, deadline : 0 .. Horizon + Timeout]
  BY DEF TypeOK
\* The bounds that hold before the step hold after it.
<1>4. PICK c \in Nat : c = Current(p) /\ NoneNewer(p, c)'
  BY <1>0, <1>1, <1>2, NoneNewerKept
<1>5. InTransit(p) => \E v \in Nat : v = flight[p].ver /\ NoneNewer(p, v)'
  <2> SUFFICES ASSUME InTransit(p)
               PROVE  \E v \in Nat : v = flight[p].ver /\ NoneNewer(p, v)'
    OBVIOUS
  <2>1. PICK v \in Nat : v = flight[p].ver
    BY <1>0
  <2>2. NoneNewer(p, v) /\ (p \in Held(cache) => cache.entry[p].ver <= v)
        /\ (flight[p].phase = "landed" => flight[p].ver <= v)
    BY <1>2, <2>1
  <2>3. NoneNewer(p, v)'
    BY <2>2, NoneNewerKept
  <2> QED
    BY <2>1, <2>3
<1>6. p \in Held(cache) => \E v \in Nat : v = cache.entry[p].ver /\ NoneNewer(p, v)'
  <2> SUFFICES ASSUME p \in Held(cache)
               PROVE  \E v \in Nat : v = cache.entry[p].ver /\ NoneNewer(p, v)'
    OBVIOUS
  <2>1. PICK v \in Nat : v = cache.entry[p].ver
    BY <1>0
  <2>2. NoneNewer(p, v) /\ (p \in Held(cache) => cache.entry[p].ver <= v)
        /\ (flight[p].phase = "landed" => flight[p].ver <= v)
    BY <1>0, <1>2, <2>1
  <2>3. NoneNewer(p, v)'
    BY <2>2, NoneNewerKept
  <2> QED
    BY <2>1, <2>3
\* What the entry and the lookup carry after the step.
<1>7. p \in Held(cache)' =>
        \/ p \in Held(cache) /\ cache'.entry[p].ver = cache.entry[p].ver /\ ~AnswerArrives(p)
        \/ AnswerArrives(p) /\ flight[p].phase = "transit" /\ cache'.entry[p].ver = flight[p].ver
  <2>1. AnswerArrives(p) => flight[p].phase = "transit" /\ cache'.entry[p].ver = flight[p].ver
    <3>1. AnswerArrives(p) => flight[p].phase = "transit"
      BY DEF AnswerArrives
    <3>2. AnswerArrives(p) => Stored(p)
      BY ArrivalIsStored
    <3>3. Stored(p) => cache'.entry[p].ver = flight[p].ver
      BY DEF Stored, Entry
    <3> QED
      BY <3>1, <3>2, <3>3
  <2> QED
    BY <2>1, CacheStep DEF CacheGoesOn, Stored
<1>8. InTransit(p)' =>
        \/ InTransit(p) /\ flight'[p] = flight[p] /\ ~AnswerArrives(p)
        \/ InTransit(p) /\ AnswerArrives(p) /\ flight'[p].ver = flight[p].ver
        \/ flight[p].phase = "dialing" /\ flight'[p].phase = "transit"
           /\ flight'[p].ver = Current(p)
  <2>1. CASE flight'[p] = flight[p] /\ ~AnswerArrives(p)
    BY <2>1 DEF InTransit
  <2>2. CASE Begins(p)
    BY <2>2 DEF Begins, Idle, InTransit
  <2>3. CASE Fails(p)
    BY <1>3, <2>3 DEF Fails, InTransit
  <2>4. CASE IsAnswered(p)
    BY <1>3, <2>4 DEF IsAnswered
  <2>5. CASE Lands(p)
    BY <1>3, <2>5 DEF Lands, InTransit
  <2>6. CASE Finishes(p)
    BY <2>6 DEF Finishes, Idle, InTransit
  <2> QED
    BY <2>1, <2>2, <2>3, <2>4, <2>5, <2>6, FlightStep DEF FliesOn
<1>9. NoneNewer(p, Current(p))'
  <2> SUFFICES ASSUME NEW r \in Request, principal'[r] = p
               PROVE  answer'[r].ver <= Current(p)'
    BY DEF NoneNewer
  <2>1. answer'[r].ver <= c
    BY <1>4 DEF NoneNewer
  <2>2. answer'[r].ver \in Nat
    BY TypeKept DEF TypeOK
  <2> QED
    BY <1>0, <1>4, <2>1, <2>2
<1>10. p \in Held(cache)' => NoneNewer(p, cache.entry[p].ver)'
  BY <1>1, <1>5, <1>6, <1>7 DEF NoneNewer
<1>11. InTransit(p)' => NoneNewer(p, flight[p].ver)'
  BY <1>4, <1>5, <1>8 DEF NoneNewer
<1>12. InTransit(p)' /\ p \in Held(cache)' => cache'.entry[p].ver <= flight'[p].ver
  <2> SUFFICES ASSUME InTransit(p)', p \in Held(cache)'
               PROVE  cache'.entry[p].ver <= flight'[p].ver
    OBVIOUS
  <2>1. CASE AnswerArrives(p)
    BY <1>0, <1>7, <1>8, <2>1 DEF AnswerArrives
  <2>2. CASE ~AnswerArrives(p)
    BY <1>0, <1>1, <1>2, <1>7, <1>8, <2>2
  <2> QED
    BY <2>1, <2>2
<1>13. flight'[p].phase = "landed" /\ p \in Held(cache)' => cache'.entry[p].ver = flight'[p].ver
  <2> SUFFICES ASSUME flight'[p].phase = "landed", p \in Held(cache)'
               PROVE  cache'.entry[p].ver = flight'[p].ver
    OBVIOUS
  <2>1. InTransit(p)'
    BY DEF InTransit
  <2>2. CASE AnswerArrives(p)
    BY <1>7, <1>8, <2>1, <2>2
  <2>3. CASE ~AnswerArrives(p)
    BY <1>2, <1>7, <1>8, <2>1, <2>3
  <2> QED
    BY <2>2, <2>3
<1> QED
  BY <1>9, <1>10, <1>11, <1>12, <1>13

\* A request's floor is taken when it looks into the cache, and kept.
LEMMA FloorStep ==
    ASSUME TypeOK, Next, NEW r \in Request
    PROVE  /\ floor'[r] = floor[r] \/ CacheHit(r) \/ CacheMiss(r)
           /\ pc'[r] \in {"missed", "leading", "waiting"} =>
                 \/ CacheMiss(r)
                 \/ pc[r] \in {"missed", "leading", "waiting"} /\ floor'[r] = floor[r]
<1>0. pc \in [Request -> {"new", "missed", "leading", "waiting", "done"}]
      /\ floor \in [Request -> Nat]
  BY DEF TypeOK
<1>1. ASSUME NEW q \in Request, ClaimMissing(q) \/ JoinFlight(q) \/ LeadFlight(q)
      PROVE  /\ floor'[r] = floor[r]
             /\ pc'[r] \in {"missed", "leading", "waiting"}
                   => pc[r] \in {"missed", "leading", "waiting"}
  BY <1>0, <1>1 DEF ClaimMissing, JoinFlight, LeadFlight, Goto
<1>2. ASSUME NEW q \in Request, CacheHit(q)
      PROVE  /\ q # r => floor'[r] = floor[r] /\ pc'[r] = pc[r]
             /\ q = r => pc'[r] = "done"
  BY <1>0, <1>2 DEF CacheHit, Goto
<1>3. ASSUME NEW q \in Request, CacheMiss(q)
      PROVE  q # r => floor'[r] = floor[r] /\ pc'[r] = pc[r]
  BY <1>0, <1>3 DEF CacheMiss, Goto
<1>4. ASSUME NEW p \in Principal, EndFlight(p)
      PROVE  floor'[r] = floor[r] /\ (pc'[r] = pc[r] \/ pc'[r] = "done")
  BY <1>4 DEF EndFlight
<1>5. ASSUME NEW p \in Principal, DirectoryAnswers(p) \/ AnswerArrives(p) \/ LookupFails(p)
                                 \/ LookupTimesOut(p) \/ Change(p)
      PROVE  floor'[r] = floor[r] /\ pc'[r] = pc[r]
  BY <1>5 DEF DirectoryAnswers, AnswerArrives, LookupFails, LookupTimesOut, Change
<1>6. ASSUME Tick
      PROVE  floor'[r] = floor[r] /\ pc'[r] = pc[r]
  BY <1>6 DEF Tick
<1> QED
  BY <1>1, <1>2, <1>3, <1>4, <1>5, <1>6 DEF Next, Arrive, Proceed

LEMMA FloorsKept ==
    ASSUME TypeOK, Shape, Undecided, Ordered, Floors, Next
    PROVE  Floors'
<1> SUFFICES ASSUME NEW r \in Request, pc'[r] \in {"missed", "leading", "waiting"}
             PROVE  /\ principal'[r] \in Principal
                    /\ \/ floor'[r] = 0
                       \/ \E q \in Request : principal'[q] = principal'[r]
                                            /\ floor'[r] <= answer'[q].ver
  BY DEF Floors
<1>0. principal' = principal
  BY WorldStep
<1>1. CASE CacheMiss(r)
  <2>1. /\ principal[r] \in Principal /\ answer' = answer
        /\ floor'[r] = Newest(principal[r])
    BY <1>1 DEF CacheMiss, TypeOK
  <2>2. Newest(principal[r]) \in Nat /\ (Newest(principal[r]) = 0 \/ \E q \in Request :
           principal[q] = principal[r] /\ Newest(principal[r]) = answer[q].ver)
    BY <2>1, NewestIsGiven
  <2> QED
    BY <1>0, <2>1, <2>2
<1>2. CASE pc[r] \in {"missed", "leading", "waiting"} /\ floor'[r] = floor[r]
  <2>1. principal[r] \in Principal /\ floor[r] \in Nat
    BY <1>2 DEF Floors, TypeOK
  <2>2. ASSUME NEW q \in Request, principal[q] = principal[r], floor[r] <= answer[q].ver
        PROVE  floor[r] = 0 \/ floor[r] <= answer'[q].ver
    <3>1. CASE pc[q] # "done"
      <4>1. answer[q].ver = 0
        BY <3>1 DEF Undecided, Answered
      <4> QED
        BY <2>1, <2>2, <4>1
    <3>2. CASE pc[q] = "done"
      <4>1. ~ClaimMissing(q) /\ ~CacheHit(q) /\ \A p \in Principal : ~GetsFromLookup(q, p)
        BY <3>2 DEF ClaimMissing, CacheHit, Goto, GetsFromLookup, Aboard
      <4>2. answer'[q] = answer[q]
        BY <4>1, AnswerStep DEF IsGiven
      <4> QED
        BY <2>2, <4>2
    <3> QED
      BY <3>1, <3>2
  <2> QED
    BY <1>0, <1>2, <2>1, <2>2 DEF Floors
<1> QED
  BY <1>1, <1>2, FloorStep

LEMMA NeverBackKept ==
    ASSUME TypeOK, Shape, Undecided, Ordered, Floors, AnswersNeverGoBack, Next
    PROVE  AnswersNeverGoBack'
<1> SUFFICES ASSUME NEW r \in Request, answer'[r].ver # 0
             PROVE  answer'[r].ver >= floor'[r]
  BY DEF AnswersNeverGoBack
<1>0. /\ floor[r] \in Nat /\ answer[r].ver \in Nat
      /\ principal \in [Request -> Principal \cup {NoPrincipal}]
  BY TypeFacts DEF TypeOK
<1>1. CASE CacheHit(r)
  <2> DEFINE p == principal[r]
  <2>1. /\ p \in Principal /\ p \in Held(cache) /\ answer'[r].ver = cache.entry[p].ver
        /\ floor'[r] = Newest(p)
    BY <1>1 DEF CacheHit, Fresh, Live, Kept, Answered, TypeOK
  <2>2. cache.entry[p].ver \in Nat
    BY <2>1, TypeFacts
  <2>3. NoneNewer(p, cache.entry[p].ver)
    BY <2>1 DEF Ordered
  <2>4. Newest(p) \in Nat /\ (Newest(p) = 0 \/ \E q \in Request :
           principal[q] = p /\ Newest(p) = answer[q].ver)
    BY <2>1, NewestIsGiven
  <2>5. cache.entry[p].ver >= Newest(p)
    BY <2>2, <2>3, <2>4 DEF NoneNewer
  <2> QED
    BY <2>1, <2>5
<1>2. CASE CacheMiss(r)
  <2>1. answer' = answer /\ pc[r] # "done"
    BY <1>2 DEF CacheMiss, Goto
  <2>2. answer[r].ver = 0
    BY <2>1 DEF Undecided, Answered
  <2> QED
    BY <2>1, <2>2
<1>3. CASE ~CacheHit(r) /\ floor'[r] = floor[r]
  <2>1. CASE answer'[r] = answer[r]
    BY <1>3, <2>1 DEF AnswersNeverGoBack
  <2>2. CASE answer'[r] = Answered(Failed("claim_missing"), 0)
    BY <2>2 DEF Answered
  <2>3. ASSUME NEW p \in Principal, GetsFromLookup(r, p)
        PROVE  answer'[r].ver >= floor'[r]
    <3>1. /\ principal[r] = p /\ pc[r] \in {"missed", "leading", "waiting"}
          /\ flight[p].phase \in {"landed", "failed"} /\ answer'[r] = Outcome(p)
      BY <2>3 DEF GetsFromLookup, Aboard, EndFlight
    <3>2. flight[p].phase = "landed" /\ answer'[r].ver = flight[p].ver
      BY <3>1 DEF Outcome, Answered
    <3>3. NoneNewer(p, flight[p].ver) /\ flight[p].ver \in Nat
      BY <3>2, TypeFacts DEF Ordered, InTransit
    <3>4. floor[r] = 0 \/ \E q \in Request : principal[q] = p /\ floor[r] <= answer[q].ver
      BY <3>1 DEF Floors
    <3>5. ASSUME NEW q \in Request, principal[q] = p, floor[r] <= answer[q].ver
          PROVE  floor[r] <= flight[p].ver
      <4>1. answer[q].ver \in Nat /\ answer[q].ver <= flight[p].ver
        BY <3>3, <3>5, TypeFacts DEF NoneNewer
      <4> QED
        BY <1>0, <3>3, <3>5, <4>1
    <3>6. floor[r] <= flight[p].ver
      BY <3>3, <3>4, <3>5
    <3> QED
      BY <1>0, <1>3, <3>2, <3>3, <3>6
  <2> QED
    BY <1>3, <2>1, <2>2, <2>3, AnswerStep DEF IsGiven
<1> QED
  BY <1>1, <1>2, <1>3, FloorStep

-----------------------------------------------------------------------------
LEMMA Invariance == Spec => []IInv
<1>1. IInv /\ [Next]_vars => IInv'
  <2> SUFFICES ASSUME IInv, [Next]_vars PROVE IInv'
    OBVIOUS
  <2>1. CASE Next
    BY <2>1, TypeKept, ShapeKept, UndecidedKept, FlightTrueKept, FailureKnownKept,
       EntriesTrueKept, OrderedKept, FloorsKept, NeverBackKept, StampsKept, OnTimeKept,
       EntriesRecentKept DEF IInv
  <2>2. CASE UNCHANGED vars
    <3>1. TypeOK' /\ Shape' /\ Undecided' /\ FlightTrue' /\ FailureKnown' /\ EntriesTrue'
      BY <2>2 DEF vars, world, IInv, TypeOK, Shape, Undecided, FlightTrue, FailureKnown,
                  EntriesTrue, InTransit, SaidSince, TenantAt, Current, Held
    <3>2. Ordered' /\ Floors' /\ AnswersNeverGoBack'
      BY <2>2 DEF vars, world, IInv, Ordered, Floors, AnswersNeverGoBack, NoneNewer, InTransit,
                  Current, Held
    <3>3. Stamps' /\ OnTime' /\ EntriesRecent'
      BY <2>2 DEF vars, world, IInv, Stamps, OnTime, EntriesRecent, SaidSince, Life, Current, Held
    <3> QED
      BY <3>1, <3>2, <3>3 DEF IInv
  <2> QED
    BY <2>1, <2>2
<1> QED
  BY InitEstablishes, <1>1, PTL DEF Spec

\* Every variable keeps its type, the cache's list and map and the lookups in
\* progress among them (tenantinjector/plugin.go:279-498).
THEOREM TypeCorrect == Spec => []TypeOK
BY Invariance, PTL DEF IInv

\* The list and the map of the cache hold the same keys, each once, and never
\* more than max_entries of them (tenantinjector/plugin.go:460-498).
THEOREM CacheCoherentHolds == Spec => []CacheCoherent
<1>1. IInv => CacheCoherent
  BY DEF IInv, Shape, CacheCoherent
<1> QED
  BY Invariance, <1>1, PTL

\* No request gets an answer older than one that was given about its principal
\* before it arrived, whatever the cache evicts and however long a lookup takes
\* (tenantinjector/plugin.go:350-382).
THEOREM AnswersNeverGoBackHolds == Spec => []AnswersNeverGoBack
BY Invariance, PTL DEF IInv

-----------------------------------------------------------------------------
(* RecentAnswers. *)

MaxAge(t) == Timeout + (IF t = NoTenant THEN Max({0, NegativeTTL}) ELSE TTL)

LEMMA MaxAgeBounds ==
    ASSUME NEW t
    PROVE  MaxAge(t) \in Int /\ MaxAge(t) >= Timeout /\ MaxAge(t) >= Timeout + Life(t)
<1> USE CacheAssumption, TimeAssumption
<1>1. Max({0, NegativeTTL}) \in {0, NegativeTTL}
      /\ \A m \in {0, NegativeTTL} : Max({0, NegativeTTL}) >= m
  <2> DEFINE S == {0, NegativeTTL}
  <2>1. \E x \in S : \A y \in S : x >= y
    <3>1. CASE NegativeTTL >= 0
      BY <3>1
    <3>2. CASE NegativeTTL < 0
      BY <3>2
    <3> QED
      BY <3>1, <3>2
  <2> HIDE DEF S
  <2>2. Max(S) \in S /\ \A y \in S : Max(S) >= y
    BY <2>1, Zenon DEF Max
  <2> QED
    BY <2>2 DEF S
<1> QED
  BY <1>1 DEF MaxAge, Life

\* What the directory says, or said no longer ago than this, decides a request.
LEMMA RecentIsAdmissible ==
    ASSUME TypeOK, Shape, NEW p \in Principal, NEW v \in 1 .. Current(p),
           NEW moment \in Int, SaidSince(p, v, moment),
           now - moment <= MaxAge(TenantAt(p, v))
    PROVE  Derived(TenantAt(p, v)) \in R!Admissible(p)
<1>1. /\ now \in Nat /\ Timeout \in Nat /\ Current(p) \in Nat
      /\ directory[p][v].until \in Nat /\ TenantAt(p, v) \in Tenant \cup {NoTenant}
  BY TypeFacts
<1>2. v \in DOMAIN directory[p]
  <2>1. directory[p] \in Seq([value : Tenant \cup {NoTenant}, until : 0 .. Horizon])
    BY DEF TypeOK
  <2> QED
    BY <2>1 DEF Current
<1>3. v = Len(directory[p]) \/ directory[p][v].until >= moment
  BY DEF SaidSince, Current
<1>4. R!Lag(p, v) <= MaxAge(TenantAt(p, v))
  <2>1. MaxAge(TenantAt(p, v)) \in Int /\ MaxAge(TenantAt(p, v)) >= Timeout
    BY MaxAgeBounds
  <2>2. CASE v = Len(directory[p])
    <3>1. R!Lag(p, v) = 0
      BY <2>2 DEF R!Lag
    <3> QED
      BY <1>1, <2>1, <3>1
  <2>3. CASE v # Len(directory[p])
    <3> DEFINE until == directory[p][v].until
               most == MaxAge(TenantAt(p, v))
    <3>1. R!Lag(p, v) = now - until
      BY <2>3 DEF R!Lag
    <3>2. /\ until \in Nat /\ until >= moment /\ now - moment <= most
          /\ now \in Nat /\ most \in Int
      BY <1>1, <1>3, <2>1, <2>3
    <3> HIDE DEF until, most
    <3>3. now - until <= most
      BY <3>2
    <3> QED
      BY <3>1, <3>3 DEF most
  <2> QED
    BY <2>2, <2>3
<1>5. Derived(TenantAt(p, v)) = Owed(directory[p][v].value)
  BY <1>1, DerivedIsOwed DEF TenantAt
<1> QED
  BY <1>2, <1>4, <1>5 DEF R!Admissible, MaxAge, TenantAt

\* Some requests end, each as it may.
LEMMA DecideStep ==
    ASSUME IInv, answer' = [r \in Request |-> answer'[r]],
           now' = now, principal' = principal, directory' = directory,
           \A r \in Request : answer'[r] # answer[r] =>
              /\ pc[r] # "done"
              /\ \/ \E err \in Failure \cup {"claim_missing"} : answer'[r].ends = Failed(err)
                 \/ principal[r] \in Principal /\ answer'[r].ends \in R!Admissible(principal[r])
    PROVE  R!Next
<1> DEFINE result == [r \in Request |-> answer[r].ends]
<1>1. DOMAIN result' = Request /\ \A r \in Request : result[r] = answer[r].ends
                                                   /\ result'[r] = answer'[r].ends
  OBVIOUS
<1>2. ASSUME NEW r \in Request, result'[r] # result[r]
      PROVE  /\ result[r] = Pending
             /\ \/ result'[r] \in {Failed(err) : err \in Failure \cup {"claim_missing"}}
                \/ principal[r] \in Principal /\ result'[r] \in R!Admissible(principal[r])
  <2>1. answer'[r] # answer[r]
    BY <1>1, <1>2
  <2>2. answer[r].ends = Pending
    BY <2>1 DEF IInv, Undecided, Answered
  <2> QED
    BY <1>1, <2>1, <2>2
<1>3. R!Decide
  BY <1>1, <1>2 DEF R!Decide
<1> QED
  BY <1>3 DEF R!Next

LEMMA StepImplements ==
    ASSUME Prompt, IInv, [Next]_vars
    PROVE  [R!Next]_(R!vars)
<1>0. /\ TypeOK /\ Shape /\ Undecided /\ FlightTrue /\ FailureKnown /\ EntriesTrue
      /\ Stamps /\ OnTime
      /\ EntriesRecent /\ now \in Nat /\ Timeout \in Nat
  BY TypeFacts DEF IInv
<1>1. answer' = [r \in Request |-> answer'[r]]
  BY <1>0, AnswerStep
<1>2. ASSUME NEW r \in Request, ClaimMissing(r)
      PROVE  R!Next
  <2>1. UNCHANGED <<now, principal, directory>> /\ pc[r] # "done"
        /\ answer' = [answer EXCEPT ![r] = Answered(Failed("claim_missing"), 0)]
    BY <1>2 DEF ClaimMissing, Goto, world
  <2>2. \A q \in Request : answer'[q] # answer[q] =>
           q = r /\ answer'[q].ends = Failed("claim_missing")
    BY <1>0, <2>1 DEF TypeOK, Answered
  <2> QED
    BY <1>1, <2>1, <2>2, DecideStep
<1>3. ASSUME NEW r \in Request, CacheHit(r)
      PROVE  R!Next
  <2> DEFINE p == principal[r]
  <2>1. /\ UNCHANGED <<now, principal, directory>> /\ pc[r] # "done"
        /\ p \in Principal /\ p \in Held(cache) /\ now <= cache.entry[p].expires
        /\ answer' = [answer EXCEPT ![r] = Kept(p)]
    BY <1>3 DEF CacheHit, Fresh, Live, Goto, world
  <2>2. PICK v \in 1 .. Current(p), moment \in Int :
           /\ v = cache.entry[p].ver /\ SaidSince(p, v, moment)
           /\ TenantAt(p, v) = cache.entry[p].tenant
           /\ now - moment <= MaxAge(TenantAt(p, v))
    <3>1. /\ cache.entry[p].expires \in Int /\ Life(cache.entry[p].tenant) \in Int
          /\ cache.entry[p].ver \in 1 .. Current(p)
          /\ TenantAt(p, cache.entry[p].ver) = cache.entry[p].tenant
          /\ SaidSince(p, cache.entry[p].ver,
                       cache.entry[p].expires - Life(cache.entry[p].tenant) - Timeout)
      BY <1>0, <2>1, TypeFacts DEF EntriesTrue, EntriesRecent
    <3>2. PICK v \in 1 .. Current(p), moment \in Int : v = cache.entry[p].ver
             /\ moment = cache.entry[p].expires - Life(cache.entry[p].tenant) - Timeout
      BY <1>0, <3>1
    <3>3. MaxAge(TenantAt(p, v)) \in Int
          /\ MaxAge(TenantAt(p, v)) >= Timeout + Life(TenantAt(p, v))
      BY MaxAgeBounds
    <3>4. now - moment <= MaxAge(TenantAt(p, v))
      <4>1. TenantAt(p, v) = cache.entry[p].tenant
        BY <3>1, <3>2
      <4>2. PICK expires, life, age : /\ expires = cache.entry[p].expires
                                      /\ life = Life(cache.entry[p].tenant)
                                      /\ age = MaxAge(TenantAt(p, v))
        OBVIOUS
      <4>3. /\ now \in Int /\ Timeout \in Int
            /\ expires \in Int /\ life \in Int /\ age \in Int
        BY <1>0, <3>1, <3>3, <4>2, TypeFacts
      <4>4. now <= expires /\ moment = expires - life - Timeout /\ age >= Timeout + life
        BY <2>1, <3>2, <3>3, <4>1, <4>2
      <4>5. now - moment <= age
        BY <4>3, <4>4
      <4> QED
        BY <4>2, <4>5
    <3> QED
      BY <3>1, <3>2, <3>4
  <2>3. Derived(cache.entry[p].tenant) \in R!Admissible(p)
    BY <1>0, <2>1, <2>2, RecentIsAdmissible
  <2>4. \A q \in Request : answer'[q] # answer[q] =>
           q = r /\ answer'[q].ends = Derived(cache.entry[p].tenant)
    BY <1>0, <2>1 DEF TypeOK, Kept, Answered
  <2> QED
    BY <1>1, <2>1, <2>3, <2>4, DecideStep
<1>4. ASSUME NEW p \in Principal, EndFlight(p)
      PROVE  R!Next
  <2>1. /\ UNCHANGED <<now, principal, directory>> /\ flight[p].phase \in {"landed", "failed"}
        /\ answer' = [r \in Request |-> IF r \in Aboard(p) THEN Outcome(p) ELSE answer[r]]
    BY <1>4 DEF EndFlight, world
  <2>2. \A r \in Request : answer'[r] # answer[r] =>
           /\ pc[r] # "done" /\ principal[r] = p /\ answer'[r].ends = Outcome(p).ends
    BY <2>1 DEF Aboard
  <2>3. CASE flight[p].phase = "failed"
    <3>1. Outcome(p).ends = Failed(flight[p].err)
      BY <2>3 DEF Outcome, Answered
    <3>2. flight[p].err \in Failure
      BY <1>0, <2>3 DEF FailureKnown
    <3> QED
      BY <1>1, <2>1, <2>2, <3>1, <3>2, DecideStep
  <2>4. CASE flight[p].phase = "landed"
    <3>1. Outcome(p).ends = Derived(flight[p].tenant) /\ InTransit(p)
      BY <2>4 DEF Outcome, Answered, InTransit
    <3>2. /\ flight[p].deadline \in Nat /\ now <= flight[p].deadline
          /\ flight[p].ver \in 1 .. Current(p)
          /\ flight[p].tenant = TenantAt(p, flight[p].ver)
          /\ SaidSince(p, flight[p].ver, flight[p].deadline - Timeout)
      BY <1>0, <2>4, <3>1, TypeFacts DEF OnTime, FlightTrue, SaidSince
    <3>3. PICK v \in 1 .. Current(p), moment \in Int :
             v = flight[p].ver /\ moment = flight[p].deadline - Timeout
      BY <1>0, <3>2
    <3>4. MaxAge(TenantAt(p, v)) \in Int /\ MaxAge(TenantAt(p, v)) >= Timeout
      BY MaxAgeBounds
    <3>5. now - moment <= MaxAge(TenantAt(p, v))
      BY <1>0, <3>2, <3>3, <3>4
    <3>6. Derived(flight[p].tenant) \in R!Admissible(p)
      BY <1>0, <3>2, <3>3, <3>5, RecentIsAdmissible
    <3> QED
      BY <1>1, <2>1, <2>2, <3>1, <3>6, DecideStep
  <2> QED
    BY <2>1, <2>3, <2>4
<1>5. ASSUME NEW p \in Principal, Change(p)
      PROVE  R!Next
  <2>1. PICK t \in Says[p] : directory' = [directory EXCEPT ![p] =
           Append([@ EXCEPT ![Len(@)].until = now], [value |-> t, until |-> 0])]
    BY <1>5 DEF Change
  <2>2. t \in Tenant \cup {NoTenant}
    BY DirectoryAssumption
  <2>3. R!Change(p)
    BY <1>5, <2>1, <2>2 DEF Change, R!Change
  <2> QED
    BY <2>3 DEF R!Next
<1>6. ASSUME Tick
      PROVE  R!Next
  BY <1>6 DEF Tick, R!Next, R!Tick
<1>7. ASSUME NEW r \in Request, CacheMiss(r) \/ Proceed(r)
      PROVE  UNCHANGED R!vars
  BY <1>7 DEF CacheMiss, Proceed, JoinFlight, LeadFlight, world, R!vars
<1>8. ASSUME NEW p \in Principal, DirectoryAnswers(p) \/ AnswerArrives(p) \/ LookupFails(p)
                                 \/ LookupTimesOut(p)
      PROVE  UNCHANGED R!vars
  BY <1>8 DEF DirectoryAnswers, AnswerArrives, LookupFails, LookupTimesOut, world, R!vars
<1>9. ASSUME UNCHANGED vars
      PROVE  UNCHANGED R!vars
  BY <1>9 DEF vars, world, R!vars
<1> QED
  BY <1>2, <1>3, <1>4, <1>5, <1>6, <1>7, <1>8, <1>9 DEF Next, Arrive

\* Where running goroutines take no time against the clock's tick, the plugin
\* implements the cache of bounded age: each request is served or refused by what
\* the directory said about its own principal no longer ago than the entry's ttl
\* and the lookup's timeout, or fails for its own reasons
\* (tenantinjector/plugin.go:279-389).
THEOREM ImplementsRecentAnswersHolds ==
    ASSUME Prompt
    PROVE  Spec => ImplementsRecentAnswers
<1>1. Init => R!Init
  <2> SUFFICES ASSUME Init PROVE R!Init
    OBVIOUS
  <2>1. ASSUME NEW p \in Principal
        PROVE  \E t \in Tenant \cup {NoTenant} : directory[p] = <<[value |-> t, until |-> 0]>>
    BY DEF Init
  <2>2. [r \in Request |-> answer[r].ends] = [r \in Request |-> Pending]
    BY DEF Init, Answered
  <2> QED
    BY <2>1, <2>2 DEF Init, R!Init
<1>2. IInv /\ [Next]_vars => [R!Next]_(R!vars)
  BY StepImplements
<1> QED
  BY Invariance, <1>1, <1>2, PTL DEF Spec, ImplementsRecentAnswers, R!Spec
=============================================================================
