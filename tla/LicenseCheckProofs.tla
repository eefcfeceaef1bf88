-------------------------- MODULE LicenseCheckProofs --------------------------
(***************************************************************************)
(* Proofs about LicenseCheck, for any requests, tokens, cache size, ttl,   *)
(* timeout and number of attempts: its types, its cache's shape, and that  *)
(* it implements RecentAnswers.                                            *)
(*                                                                         *)
(* The verdict on its way to a request was the server's at some moment     *)
(* since the attempt began (HeardRecent); where running goroutines take no *)
(* time, that is no longer ago than the client's timeout (OnTime).  So an  *)
(* entry's verdict was the server's no longer than that before the entry   *)
(* was stored, however many answers crossed (EntriesRecent).               *)
(***************************************************************************)
EXTENDS LicenseCheck, LRUCacheProofs

\* Version v of t is still the server's, or was at this moment or later.
SaidSince(t, v, moment) ==
    v \in 1 .. Current(t) /\ (v = Current(t) \/ verdict[t][v].until >= moment)

Shape ==
    /\ cache = [order |-> cache.order, entry |-> cache.entry]
    /\ Coherent(cache, MaxSize)
    /\ DOMAIN verdict = Token

Undecided == \A r \in Request : pc[r] # "done" => answer[r] = "none"

Stamps ==
    /\ \A r \in Request : began[r] <= now
    /\ \A t \in Held(cache) : cache.entry[t].expires <= now + TTL

HeardRecent == \A r \in Request :
    pc[r] = "transit" => SaidSince(TokenOf[r], heard[r], began[r])

\* An attempt in progress is within the client's timeout.
OnTime == Prompt => \A r \in Request :
    pc[r] \in {"dialing", "transit"} => now <= began[r] + Timeout

EntriesRecent == Prompt => \A t \in Held(cache) : \E v \in 1 .. Current(t) :
    /\ verdict[t][v].value = cache.entry[t].valid
    /\ SaidSince(t, v, cache.entry[t].expires - TTL - Timeout)

IInv == TypeOK /\ Shape /\ Undecided /\ Stamps /\ HeardRecent /\ OnTime /\ EntriesRecent

-----------------------------------------------------------------------------
LEMMA TypeFacts ==
    ASSUME TypeOK, Shape
    PROVE  /\ now \in Nat /\ Horizon \in Nat /\ TTL \in Nat /\ Timeout \in Nat
           /\ MaxSize \in Nat \ {0} /\ MaxAttempts \in Nat /\ Versions \in Nat
           /\ \A t \in Token : Current(t) \in Nat /\ Current(t) >= 1
           /\ \A t \in Token : \A v \in 1 .. Current(t) :
                 verdict[t][v].value \in BOOLEAN /\ verdict[t][v].until \in Nat
           /\ \A t \in Held(cache) : t \in Token /\ cache.entry[t].expires \in Nat
                                     /\ cache.entry[t].valid \in BOOLEAN
           /\ \A r \in Request : TokenOf[r] \in Token /\ began[r] \in Nat
<1> USE ConfigAssumption, BoundAssumption, TokenAssumption DEF TypeOK
<1>1. \A t \in Token : Current(t) \in Nat /\ Current(t) >= 1
  BY DEF Current
<1>2. ASSUME NEW t \in Token, NEW v \in 1 .. Current(t)
      PROVE  verdict[t][v].value \in BOOLEAN /\ verdict[t][v].until \in Nat
  <2>1. verdict[t] \in Seq([value : BOOLEAN, until : 0 .. Horizon]) /\ v \in 1 .. Len(verdict[t])
    BY DEF Current
  <2>2. verdict[t][v] \in [value : BOOLEAN, until : 0 .. Horizon]
    BY <2>1, ElementOfSeq
  <2> QED
    BY <2>2
<1>3. \A t \in Held(cache) : t \in Token
  BY DEF Shape, Coherent, ToSet
<1>4. \A t \in Held(cache) : cache.entry[t].expires \in Nat /\ cache.entry[t].valid \in BOOLEAN
  <2> SUFFICES ASSUME NEW t \in Held(cache)
               PROVE  cache.entry[t].expires \in Nat /\ cache.entry[t].valid \in BOOLEAN
    OBVIOUS
  <2>1. cache.entry[t] \in [valid : BOOLEAN, expires : 0 .. Horizon + TTL]
    OBVIOUS
  <2> QED
    BY <2>1
<1> QED
  BY <1>1, <1>2, <1>3, <1>4

\* Only an answer from the server puts an entry into the cache.
Stored(t) == \E r \in Request :
    /\ AnswerArrives(r) /\ TokenOf[r] = t
    /\ cache'.entry[t] = Entry(Valid(t, heard[r]))

LEMMA CacheStep ==
    ASSUME TypeOK, Shape, [Next]_vars
    PROVE  /\ cache'.order \in Seq(Token) /\ Coherent(cache, MaxSize)'
           /\ cache' = [order |-> cache'.order, entry |-> cache'.entry]
           /\ \A t \in Held(cache)' :
                 \/ t \in Held(cache) /\ cache'.entry[t] = cache.entry[t]
                 \/ Stored(t)
<1>0. /\ cache.order \in Seq(Token) /\ Coherent(cache, MaxSize)
      /\ cache = [order |-> cache.order, entry |-> cache.entry]
      /\ MaxSize \in Nat \ {0} /\ MaxSize \in Nat /\ \A r \in Request : TokenOf[r] \in Token
  BY TypeFacts DEF TypeOK, Shape
<1>1. ASSUME NEW r \in Request, CacheHit(r)
      PROVE  /\ cache'.order \in Seq(Token) /\ Coherent(cache', MaxSize)
             /\ cache' = [order |-> cache'.order, entry |-> cache'.entry]
             /\ Held(cache') = Held(cache) /\ cache'.entry = cache.entry
  <2>1. TokenOf[r] \in Held(cache) /\ cache' = Hit(cache, TokenOf[r])
    BY <1>1 DEF CacheHit, Live
  <2> QED
    BY <1>0, <2>1, HitProperties
<1>2. ASSUME NEW r \in Request, CacheMiss(r)
      PROVE  /\ cache'.order \in Seq(Token) /\ Coherent(cache', MaxSize)
             /\ cache' = [order |-> cache'.order, entry |-> cache'.entry]
             /\ \A t \in Held(cache') : t \in Held(cache) /\ cache'.entry[t] = cache.entry[t]
  <2>1. cache' = Forget(cache, TokenOf[r])
    BY <1>2 DEF CacheMiss
  <2> QED
    BY <1>0, <2>1, ForgetProperties
<1>3. ASSUME NEW r \in Request, AnswerArrives(r)
      PROVE  /\ cache'.order \in Seq(Token) /\ Coherent(cache', MaxSize)
             /\ cache' = [order |-> cache'.order, entry |-> cache'.entry]
             /\ \A t \in Held(cache') :
                   \/ t \in Held(cache) /\ cache'.entry[t] = cache.entry[t]
                   \/ t = TokenOf[r] /\ cache'.entry[t] = Entry(Valid(t, heard[r]))
  <2> DEFINE k == TokenOf[r]
             e == Entry(Valid(k, heard[r]))
  <2>1. cache' = Put(cache, k, e, MaxSize) /\ k \in Token
    BY <1>0, <1>3 DEF AnswerArrives
  <2> HIDE DEF e, k
  <2>2. /\ cache'.order \in Seq(Token) /\ Coherent(cache', MaxSize)
        /\ cache' = [order |-> cache'.order, entry |-> cache'.entry]
        /\ Held(cache') \subseteq Held(cache) \cup {k}
        /\ cache'.entry[k] = e
        /\ \A q \in Held(cache') \ {k} : cache'.entry[q] = cache.entry[q]
    BY <1>0, <2>1, PutProperties
  <2> QED
    BY <2>2 DEF e, k
<1>4. ASSUME cache' = cache
      PROVE  /\ cache'.order \in Seq(Token) /\ Coherent(cache', MaxSize)
             /\ cache' = [order |-> cache'.order, entry |-> cache'.entry]
             /\ Held(cache') = Held(cache) /\ cache'.entry = cache.entry
  BY <1>0, <1>4
<1>5. ASSUME [Next]_vars, ~\E r \in Request : CacheHit(r) \/ CacheMiss(r) \/ AnswerArrives(r)
      PROVE  cache' = cache
  BY <1>5 DEF Next, vars, call, Proceed, Attempt, GiveUp, ServerAnswers, AttemptFails, Change, Tick
<1> QED
  BY <1>1, <1>2, <1>3, <1>4, <1>5 DEF Held, Stored

\* What the server has said of a token stays said.
Continues(t) ==
    /\ verdict'[t] \in Seq([value : BOOLEAN, until : 0 .. Horizon])
    /\ Current(t)' \in 1 .. Versions /\ Current(t) <= Current(t)'
    /\ \A v \in 1 .. Current(t) : verdict'[t][v].value = verdict[t][v].value
    /\ \A v, moment \in Int :
          moment <= now /\ SaidSince(t, v, moment) => SaidSince(t, v, moment)'

LEMMA VerdictStep ==
    ASSUME TypeOK, Shape, [Next]_vars
    PROVE  DOMAIN verdict' = Token /\ \A t \in Token : Continues(t)
<1>0. /\ now \in Nat /\ Versions \in Nat
      /\ \A t \in Token : \A v \in 1 .. Current(t) : verdict[t][v].value \in BOOLEAN
  BY TypeFacts
<1>1. ASSUME NEW u \in Token, verdict'[u] = verdict[u]
      PROVE  Continues(u)
  <2>1. /\ verdict[u] \in Seq([value : BOOLEAN, until : 0 .. Horizon])
        /\ Len(verdict[u]) \in 1 .. Versions
    BY DEF TypeOK
  <2>2. Len(verdict'[u]) = Len(verdict[u]) /\ Len(verdict[u]) <= Len(verdict[u])
    BY <1>1, <2>1
  <2>3. ASSUME NEW v, NEW moment, SaidSince(u, v, moment)
        PROVE  SaidSince(u, v, moment)'
    BY <1>1, <2>3 DEF SaidSince, Current
  <2> QED
    BY <1>1, <2>1, <2>2, <2>3 DEF Continues, Current
<1>2. ASSUME NEW t \in Token, Change(t)
      PROVE  Continues(t) /\ DOMAIN verdict' = Token
             /\ \A u \in Token \ {t} : verdict'[u] = verdict[u]
  <2> DEFINE V == BOOLEAN
             U == 0 .. Horizon
             Rec == [value : V, until : U]
             s == verdict[t]
             e == [value |-> ~Valid(t, Current(t)), until |-> 0]
             h == Append([s EXCEPT ![Len(s)].until = now], e)
  <2>1. verdict' = [verdict EXCEPT ![t] = h] /\ Current(t) < Versions
    BY <1>2 DEF Change
  <2>2. s \in Seq(Rec) /\ Len(s) >= 1 /\ Len(s) \in Nat /\ now \in U
    <3>1. /\ verdict[t] \in Seq([value : BOOLEAN, until : 0 .. Horizon])
          /\ Len(verdict[t]) \in 1 .. Versions /\ now \in 0 .. Horizon
      BY DEF TypeOK
    <3> QED
      BY <3>1
  <2>3. e \in Rec
    <3>1. 0 \in 0 .. Horizon /\ (~Valid(t, Current(t))) \in BOOLEAN
      BY BoundAssumption
    <3> QED
      BY <3>1
  <2>4. /\ h \in Seq(Rec) /\ Len(h) = Len(s) + 1
        /\ \A i \in 1 .. Len(s) : /\ h[i].value = s[i].value
                                   /\ h[i].until = IF i = Len(s) THEN now ELSE s[i].until
    <3>1. h = GoneOn(s, now, e) /\ IsSaying(Rec, V, U)
      BY DEF GoneOn, IsSaying
    <3> HIDE DEF s, e, h, U, V, Rec
    <3>2. now \in U /\ s \in Seq(Rec) /\ Len(s) >= 1
      BY <2>2
    <3>3. /\ GoneOn(s, now, e) \in Seq(Rec) /\ Len(GoneOn(s, now, e)) = Len(s) + 1
          /\ \A i \in 1 .. Len(s) :
                /\ GoneOn(s, now, e)[i].value = s[i].value
                /\ GoneOn(s, now, e)[i].until = IF i = Len(s) THEN now ELSE s[i].until
      BY <2>3, <3>1, <3>2, HistoryGoesOn
    <3> QED
      BY <3>1, <3>3, Zenon
  <2>5. verdict'[t] = h /\ DOMAIN verdict' = Token
        /\ \A u \in Token \ {t} : verdict'[u] = verdict[u]
    BY <2>1 DEF Shape
  <2> HIDE DEF h
  <2>6. Current(t)' = Current(t) + 1 /\ Current(t) = Len(s)
    BY <2>4, <2>5 DEF Current
  <2>7. ASSUME NEW v \in Int, NEW moment \in Int, moment <= now, SaidSince(t, v, moment)
        PROVE  SaidSince(t, v, moment)'
    <3>0. now \in Nat
      BY <1>0
    <3>1. v \in 1 .. Len(s) /\ (v = Len(s) \/ s[v].until >= moment)
      BY <2>6, <2>7 DEF SaidSince
    <3>2. h[v].until >= moment
      BY <2>4, <2>7, <3>0, <3>1
    <3>3. v \in 1 .. Current(t)'
      BY <2>2, <2>6, <3>1
    <3> QED
      BY <2>5, <3>2, <3>3 DEF SaidSince
  <2>8. Current(t)' \in 1 .. Versions /\ Current(t) <= Current(t)'
    BY <2>1, <2>2, <2>6, BoundAssumption
  <2>9. \A v \in 1 .. Current(t) : verdict'[t][v].value = verdict[t][v].value
    BY <2>4, <2>5, <2>6
  <2> QED
    BY <2>4, <2>5, <2>7, <2>8, <2>9 DEF Continues
<1>3. verdict' = verdict \/ \E t \in Token : Change(t)
  BY DEF Next, vars, world, call, Proceed, CacheHit, CacheMiss, Attempt, GiveUp, ServerAnswers,
         AnswerArrives, AttemptFails, Tick
<1>4. CASE verdict' = verdict
  BY <1>1, <1>4 DEF Shape
<1>5. CASE \E t \in Token : Change(t)
  BY <1>1, <1>2, <1>5
<1> QED
  BY <1>3, <1>4, <1>5

-----------------------------------------------------------------------------
LEMMA InitEstablishes == Init => IInv
<1> SUFFICES ASSUME Init PROVE IInv
  OBVIOUS
<1> USE ConfigAssumption, BoundAssumption, TokenAssumption
<1>1. /\ cache.order \in Seq(Token) /\ Coherent(cache, MaxSize) /\ Held(cache) = {}
      /\ cache = [order |-> cache.order, entry |-> cache.entry]
  BY EmptyProperties DEF Init
<1>2. DOMAIN verdict = Token /\ \A t \in Token :
         /\ verdict[t] \in Seq([value : BOOLEAN, until : 0 .. Horizon])
         /\ Len(verdict[t]) = 1
  <2> SUFFICES ASSUME NEW t \in Token
               PROVE  /\ verdict[t] \in Seq([value : BOOLEAN, until : 0 .. Horizon])
                      /\ Len(verdict[t]) = 1
    BY DEF Init
  <2>1. PICK b \in BOOLEAN : verdict[t] = <<[value |-> b, until |-> 0]>>
    BY DEF Init
  <2>2. [value |-> b, until |-> 0] \in [value : BOOLEAN, until : 0 .. Horizon]
    OBVIOUS
  <2> QED
    BY <2>1, <2>2
<1>3. TypeOK
  <2>1. \A t \in Token : /\ verdict[t] \in Seq([value : BOOLEAN, until : 0 .. Horizon])
                         /\ Len(verdict[t]) \in 1 .. Versions
    <3>1. 1 \in 1 .. Versions
      OBVIOUS
    <3> QED
      BY <1>2, <3>1, Zenon
  <2>2. /\ pc \in [Request -> {"new", "next", "dialing", "transit", "done"}]
        /\ answer \in [Request -> {"none", "admitted", "invalid", "unverified"}]
    BY DEF Init
  <2>3. /\ attempt \in [Request -> 0 .. MaxAttempts] /\ began \in [Request -> 0 .. Horizon]
        /\ heard \in [Request -> 0 .. Versions] /\ now \in 0 .. Horizon
    <3>1. 0 \in 0 .. MaxAttempts /\ 0 \in 0 .. Horizon /\ 0 \in 0 .. Versions
      OBVIOUS
    <3> QED
      BY <3>1 DEF Init
  <2> QED
    BY <1>1, <2>1, <2>2, <2>3 DEF TypeOK
<1>4. Shape /\ Undecided /\ Stamps
  BY <1>1, <1>2 DEF Init, Shape, Undecided, Stamps
<1>5. HeardRecent /\ OnTime /\ EntriesRecent
  BY <1>1 DEF Init, HeardRecent, OnTime, EntriesRecent
<1> QED
  BY <1>3, <1>4, <1>5 DEF IInv

LEMMA ClockStep ==
    ASSUME Next
    PROVE  now' = now \/ Tick
<1>1. ASSUME NEW r \in Request, CacheHit(r) \/ CacheMiss(r) \/ Proceed(r)
      PROVE  now' = now
  BY <1>1 DEF Proceed, CacheHit, CacheMiss, Attempt, GiveUp, world
<1>2. ASSUME NEW r \in Request, ServerAnswers(r) \/ AnswerArrives(r) \/ AttemptFails(r)
      PROVE  now' = now
  BY <1>2 DEF ServerAnswers, AnswerArrives, AttemptFails, world
<1>3. ASSUME NEW t \in Token, Change(t)
      PROVE  now' = now
  BY <1>3 DEF Change
<1> QED
  BY <1>1, <1>2, <1>3 DEF Next

\* A verdict that is put into the cache is one of the server's.
LEMMA HeardIsAVersion ==
    ASSUME TypeOK, Shape, HeardRecent, NEW r \in Request, AnswerArrives(r)
    PROVE  /\ pc[r] = "transit" /\ SaidSince(TokenOf[r], heard[r], began[r])
           /\ heard[r] \in 1 .. Current(TokenOf[r])
           /\ Valid(TokenOf[r], heard[r]) \in BOOLEAN
<1>1. pc[r] = "transit"
  BY DEF AnswerArrives, Return, Goto
<1>2. SaidSince(TokenOf[r], heard[r], began[r])
  BY <1>1 DEF HeardRecent
<1>3. heard[r] \in 1 .. Current(TokenOf[r])
  BY <1>2 DEF SaidSince
<1>4. TokenOf[r] \in Token
  BY TokenAssumption
<1> QED
  BY <1>1, <1>2, <1>3, <1>4, TypeFacts DEF Valid

LEMMA TypeKept ==
    ASSUME TypeOK, Shape, HeardRecent, Next
    PROVE  TypeOK'
<1> USE ConfigAssumption, BoundAssumption, TokenAssumption
<1> DEFINE Locals == /\ pc \in [Request -> {"new", "next", "dialing", "transit", "done"}]
                     /\ attempt \in [Request -> 0 .. MaxAttempts]
                     /\ began \in [Request -> 0 .. Horizon]
                     /\ heard \in [Request -> 0 .. Versions]
                     /\ answer \in [Request -> {"none", "admitted", "invalid", "unverified"}]
<1>1. Locals /\ now \in 0 .. Horizon
  BY DEF TypeOK
<1>2. now' \in 0 .. Horizon
  <2>1. now' = now \/ (now < Horizon /\ now' = now + 1)
    BY ClockStep DEF Tick
  <2> QED
    BY <1>1, <2>1
<1>3. ASSUME NEW r \in Request, CacheHit(r) \/ CacheMiss(r) \/ Proceed(r)
      PROVE  Locals'
  <2>1. CASE Attempt(r)
    BY <1>1, <2>1 DEF Attempt, Goto
  <2>2. CASE CacheHit(r) \/ CacheMiss(r) \/ GiveUp(r)
    BY <1>1, <2>2 DEF CacheHit, CacheMiss, GiveUp, Return, Goto, call, Judged, Unverified
  <2> QED
    BY <1>3, <2>1, <2>2 DEF Proceed
<1>4. ASSUME NEW r \in Request, ServerAnswers(r)
      PROVE  Locals'
  <2>1. Current(TokenOf[r]) \in 0 .. Versions
    BY DEF TypeOK, Current
  <2> QED
    BY <1>1, <1>4, <2>1 DEF ServerAnswers, Goto
<1>5. ASSUME NEW r \in Request, AnswerArrives(r) \/ AttemptFails(r)
      PROVE  Locals'
  BY <1>1, <1>5 DEF AnswerArrives, AttemptFails, Return, Goto, call, Judged
<1>6. ASSUME Tick \/ \E t \in Token : Change(t)
      PROVE  Locals'
  <2>1. pc' = pc /\ attempt' = attempt /\ began' = began /\ heard' = heard /\ answer' = answer
    BY <1>6 DEF Tick, Change, call
  <2> QED
    BY <1>1, <2>1
<1>7. Locals'
  <2> HIDE DEF Locals
  <2> QED
    BY <1>3, <1>4, <1>5, <1>6 DEF Next
<1>8. \A t \in Held(cache)' :
        cache'.entry[t] \in [valid : BOOLEAN, expires : 0 .. Horizon + TTL]
  <2> SUFFICES ASSUME NEW t \in Held(cache)'
               PROVE  cache'.entry[t] \in [valid : BOOLEAN, expires : 0 .. Horizon + TTL]
    OBVIOUS
  <2>1. CASE t \in Held(cache) /\ cache'.entry[t] = cache.entry[t]
    BY <2>1 DEF TypeOK
  <2>2. CASE Stored(t)
    <3>1. PICK r \in Request : AnswerArrives(r) /\ TokenOf[r] = t
                              /\ cache'.entry[t] = Entry(Valid(t, heard[r]))
      BY <2>2 DEF Stored
    <3>2. Valid(t, heard[r]) \in BOOLEAN
      BY <3>1, HeardIsAVersion
    <3>3. now + TTL \in 0 .. Horizon + TTL
      BY <1>1
    <3> QED
      BY <3>1, <3>2, <3>3 DEF Entry
  <2> QED
    BY <2>1, <2>2, CacheStep
<1>9. cache'.order \in Seq(Token)
  BY CacheStep
<1>10. \A t \in Token : /\ verdict'[t] \in Seq([value : BOOLEAN, until : 0 .. Horizon])
                        /\ Len(verdict'[t]) \in 1 .. Versions
  BY VerdictStep DEF Continues, Current
<1> HIDE DEF Locals
<1>11. TypeOK' <=> /\ now' \in 0 .. Horizon
                   /\ \A t \in Token :
                         /\ verdict'[t] \in Seq([value : BOOLEAN, until : 0 .. Horizon])
                         /\ Len(verdict'[t]) \in 1 .. Versions
                   /\ cache'.order \in Seq(Token)
                   /\ \A t \in Held(cache)' :
                         cache'.entry[t] \in [valid : BOOLEAN, expires : 0 .. Horizon + TTL]
                   /\ Locals'
  BY DEF TypeOK, Locals
<1> QED
  BY <1>2, <1>7, <1>8, <1>9, <1>10, <1>11

LEMMA ShapeKept ==
    ASSUME TypeOK, Shape, Next
    PROVE  Shape'
BY CacheStep, VerdictStep DEF Shape

LEMMA UndecidedKept ==
    ASSUME TypeOK, Undecided, Next
    PROVE  Undecided'
<1>1. pc \in [Request -> {"new", "next", "dialing", "transit", "done"}]
      /\ answer \in [Request -> {"none", "admitted", "invalid", "unverified"}]
  BY DEF TypeOK
<1>2. ASSUME NEW r \in Request, CacheHit(r) \/ AnswerArrives(r) \/ GiveUp(r)
      PROVE  Undecided'
  <2>1. PICK a : answer' = [answer EXCEPT ![r] = a] /\ pc' = [pc EXCEPT ![r] = "done"]
    BY <1>2 DEF CacheHit, AnswerArrives, GiveUp, Return, Goto
  <2> QED
    BY <1>1, <2>1 DEF Undecided
<1>3. ASSUME NEW r \in Request,
             CacheMiss(r) \/ Attempt(r) \/ ServerAnswers(r) \/ AttemptFails(r)
      PROVE  Undecided'
  <2>1. answer' = answer /\ pc[r] # "done" /\ \E to : pc' = [pc EXCEPT ![r] = to]
    BY <1>1, <1>3 DEF CacheMiss, Attempt, ServerAnswers, AttemptFails, Goto
  <2> QED
    BY <1>1, <2>1 DEF Undecided
<1>4. CASE Tick \/ \E t \in Token : Change(t)
  BY <1>4 DEF Tick, Change, Undecided
<1> QED
  BY <1>2, <1>3, <1>4 DEF Next, Proceed

LEMMA StampsKept ==
    ASSUME TypeOK, Shape, Stamps, Next
    PROVE  Stamps'
<1>1. now \in Nat /\ TTL \in Nat /\ (\A r \in Request : began[r] \in Nat)
      /\ (\A t \in Held(cache) : cache.entry[t].expires \in Nat)
      /\ began \in [Request -> 0 .. Horizon]
  BY TypeFacts DEF TypeOK
<1>2. now' \in Nat /\ now <= now'
  <2>1. now' = now \/ now' = now + 1
    BY ClockStep DEF Tick
  <2> QED
    BY <1>1, <2>1
<1>3. ASSUME NEW r \in Request
      PROVE  began[r]' <= now'
  <2>1. began[r]' = began[r] \/ began[r]' = now
    BY <1>1 DEF Next, Tick, Change, Proceed, CacheHit, CacheMiss, Attempt, GiveUp, ServerAnswers,
                AnswerArrives, AttemptFails, call
  <2> QED
    BY <1>1, <1>2, <2>1 DEF Stamps
<1>4. ASSUME NEW t \in Held(cache)'
      PROVE  cache'.entry[t].expires <= now' + TTL
  <2>1. CASE t \in Held(cache) /\ cache'.entry[t] = cache.entry[t]
    BY <1>1, <1>2, <2>1 DEF Stamps
  <2>2. CASE Stored(t)
    <3>1. cache'.entry[t].expires = now + TTL /\ now \in Nat /\ TTL \in Nat
      BY <1>1, <2>2 DEF Stored, Entry
    <3> QED
      BY <1>2, <3>1
  <2> QED
    BY <2>1, <2>2, CacheStep
<1> QED
  BY <1>3, <1>4 DEF Stamps

LEMMA HeardRecentKept ==
    ASSUME TypeOK, Shape, Stamps, HeardRecent, Next
    PROVE  HeardRecent'
<1>0. /\ pc \in [Request -> {"new", "next", "dialing", "transit", "done"}]
      /\ began \in [Request -> 0 .. Horizon] /\ heard \in [Request -> 0 .. Versions]
      /\ TokenOf \in [Request -> Token]
  BY TokenAssumption DEF TypeOK
<1> SUFFICES ASSUME NEW q \in Request, pc'[q] = "transit"
             PROVE  SaidSince(TokenOf[q], heard[q], began[q])'
  BY DEF HeardRecent
<1>1. CASE ServerAnswers(q)
  <2>1. /\ heard'[q] = Current(TokenOf[q]) /\ verdict' = verdict
        /\ Current(TokenOf[q]) \in Nat /\ Current(TokenOf[q]) >= 1
    BY <1>0, <1>1, TypeFacts DEF ServerAnswers, world
  <2>2. Current(TokenOf[q])' = Current(TokenOf[q])
    BY <2>1 DEF Current
  <2> QED
    BY <2>1, <2>2 DEF SaidSince
<1>2. CASE ~ServerAnswers(q)
  <2>1. pc[q] = "transit" /\ heard'[q] = heard[q] /\ began'[q] = began[q]
    <3>1. ASSUME NEW r \in Request, CacheHit(r) \/ CacheMiss(r) \/ Attempt(r) \/ GiveUp(r)
          PROVE  pc[q] = "transit" /\ heard'[q] = heard[q] /\ began'[q] = began[q]
      BY <1>0, <3>1 DEF CacheHit, CacheMiss, Attempt, GiveUp, Return, Goto, call
    <3>2. ASSUME NEW r \in Request, ServerAnswers(r) \/ AnswerArrives(r) \/ AttemptFails(r)
          PROVE  pc[q] = "transit" /\ heard'[q] = heard[q] /\ began'[q] = began[q]
      BY <1>0, <1>2, <3>2 DEF ServerAnswers, AnswerArrives, AttemptFails, Return, Goto, call
    <3>3. ASSUME Tick \/ \E t \in Token : Change(t)
          PROVE  pc[q] = "transit" /\ heard'[q] = heard[q] /\ began'[q] = began[q]
      BY <3>3 DEF Tick, Change, call
    <3> QED
      BY <3>1, <3>2, <3>3 DEF Next, Proceed
  <2>2. SaidSince(TokenOf[q], heard[q], began[q])
    BY <2>1 DEF HeardRecent
  <2>3. TokenOf[q] \in Token /\ began[q] \in Int /\ began[q] <= now /\ heard[q] \in Int
    BY <1>0 DEF Stamps
  <2>4. \A v, moment \in Int : moment <= now /\ SaidSince(TokenOf[q], v, moment)
                                 => SaidSince(TokenOf[q], v, moment)'
    BY <2>3, VerdictStep DEF Continues
  <2>5. ASSUME NEW v, NEW moment, heard'[q] = v, began'[q] = moment,
               SaidSince(TokenOf[q], v, moment)'
        PROVE  SaidSince(TokenOf[q], heard[q], began[q])'
    BY <2>5 DEF SaidSince
  <2> QED
    BY <2>1, <2>2, <2>3, <2>4, <2>5
<1> QED
  BY <1>1, <1>2

LEMMA OnTimeKept ==
    ASSUME TypeOK, Shape, OnTime, Next
    PROVE  OnTime'
<1>0. /\ pc \in [Request -> {"new", "next", "dialing", "transit", "done"}]
      /\ began \in [Request -> 0 .. Horizon] /\ now \in Nat /\ Timeout \in Nat
  BY TypeFacts DEF TypeOK
<1> SUFFICES ASSUME Prompt, NEW q \in Request, pc'[q] \in {"dialing", "transit"}
             PROVE  now' <= began'[q] + Timeout
  BY DEF OnTime
<1>1. ASSUME NEW r \in Request, CacheHit(r) \/ CacheMiss(r) \/ GiveUp(r)
      PROVE  now' <= began'[q] + Timeout
  BY <1>0, <1>1 DEF OnTime, CacheHit, CacheMiss, GiveUp, Return, Goto, call, world
<1>2. ASSUME NEW r \in Request, Attempt(r)
      PROVE  now' <= began'[q] + Timeout
  BY <1>0, <1>2 DEF OnTime, Attempt, Goto, world
<1>3. ASSUME NEW r \in Request, ServerAnswers(r) \/ AnswerArrives(r) \/ AttemptFails(r)
      PROVE  now' <= began'[q] + Timeout
  BY <1>0, <1>3 DEF OnTime, ServerAnswers, AnswerArrives, AttemptFails, Return, Goto, call, world
<1>4. ASSUME NEW t \in Token, Change(t)
      PROVE  now' <= began'[q] + Timeout
  BY <1>0, <1>4 DEF OnTime, Change, call
<1>5. CASE Tick
  <2>1. pc' = pc /\ began' = began /\ now' = now + 1 /\ ~(now >= began[q] + Timeout)
    BY <1>5 DEF Tick, Settled, Overdue, call
  <2> QED
    BY <1>0, <2>1
<1> QED
  BY <1>1, <1>2, <1>3, <1>4, <1>5 DEF Next, Proceed

LEMMA EntriesRecentKept ==
    ASSUME IInv, Next
    PROVE  EntriesRecent'
<1>0. TypeOK /\ Shape /\ Stamps /\ HeardRecent /\ OnTime /\ EntriesRecent
  BY DEF IInv
<1> SUFFICES ASSUME Prompt, NEW t \in Held(cache)'
             PROVE  \E v \in 1 .. Current(t)' :
                       /\ verdict'[t][v].value = cache'.entry[t].valid
                       /\ SaidSince(t, v, cache.entry[t].expires - TTL - Timeout)'
  BY DEF EntriesRecent
<1>1. now \in Nat /\ TTL \in Nat /\ Timeout \in Nat
  BY <1>0, TypeFacts
<1>2. CASE t \in Held(cache) /\ cache'.entry[t] = cache.entry[t]
  <2>1. PICK moment \in Int : /\ moment = cache.entry[t].expires - TTL - Timeout
                             /\ t \in Token /\ moment <= now /\ Current(t) \in Nat
    <3>1. t \in Token /\ cache.entry[t].expires \in Nat /\ Current(t) \in Nat
      BY <1>0, <1>2, TypeFacts
    <3>2. cache.entry[t].expires <= now + TTL
      BY <1>0, <1>2 DEF Stamps
    <3> QED
      BY <1>1, <3>1, <3>2
  <2>2. PICK v \in 1 .. Current(t) : /\ verdict[t][v].value = cache.entry[t].valid
                                    /\ SaidSince(t, v, moment)
    BY <1>0, <1>2, <2>1 DEF EntriesRecent
  <2>3. Continues(t)
    BY <1>0, <2>1, VerdictStep
  <2>4. v \in 1 .. Current(t)' /\ verdict'[t][v].value = cache'.entry[t].valid
    BY <1>2, <2>1, <2>2, <2>3 DEF Continues
  <2>5. cache'.entry[t].expires - TTL - Timeout = moment
    BY <1>2, <2>1
  <2>6. SaidSince(t, v, moment)'
    BY <2>1, <2>2, <2>3 DEF Continues
  <2> QED
    BY <2>4, <2>5, <2>6 DEF SaidSince
<1>3. CASE Stored(t)
  <2>1. PICK r \in Request : AnswerArrives(r) /\ TokenOf[r] = t
                            /\ cache'.entry[t] = Entry(Valid(t, heard[r]))
    BY <1>3 DEF Stored
  <2>2. /\ pc[r] = "transit" /\ SaidSince(t, heard[r], began[r])
        /\ heard[r] \in 1 .. Current(t)
    BY <1>0, <2>1, HeardIsAVersion
  <2>3. verdict' = verdict /\ cache'.entry[t].valid = verdict[t][heard[r]].value
        /\ cache'.entry[t].expires = now + TTL
    BY <2>1 DEF AnswerArrives, Entry, Valid, world
  <2>4. now <= began[r] + Timeout /\ began[r] \in Nat
    BY <1>0, <2>2, TypeFacts DEF OnTime
  <2>5. verdict[t][heard[r]].until \in Nat
    BY <1>0, <2>1, <2>2, TypeFacts
  <2>6. cache'.entry[t].expires - TTL - Timeout <= began[r]
        /\ cache'.entry[t].expires - TTL - Timeout \in Int
    BY <1>1, <2>3, <2>4
  <2>7. Current(t)' = Current(t)
    BY <2>3 DEF Current
  <2>8. PICK v \in 1 .. Current(t) : v = heard[r]
    BY <2>2
  <2>9. /\ v \in 1 .. Current(t)' /\ verdict'[t][v].value = cache'.entry[t].valid
        /\ verdict'[t][v].until = verdict[t][v].until
    BY <2>3, <2>7, <2>8
  <2>10. v = Current(t)' \/ verdict'[t][v].until >= cache'.entry[t].expires - TTL - Timeout
    <3>1. v = Current(t) \/ verdict[t][v].until >= began[r]
      BY <2>2, <2>8 DEF SaidSince
    <3>2. verdict[t][v].until \in Nat
      BY <2>5, <2>8
    <3> QED
      BY <2>4, <2>6, <2>7, <2>9, <3>1, <3>2
  <2> QED
    BY <2>9, <2>10 DEF SaidSince
<1> QED
  BY <1>0, <1>2, <1>3, CacheStep

-----------------------------------------------------------------------------
LEMMA Invariance == Spec => []IInv
<1>1. IInv /\ [Next]_vars => IInv'
  <2> SUFFICES ASSUME IInv, [Next]_vars PROVE IInv'
    OBVIOUS
  <2>1. CASE Next
    BY <2>1, TypeKept, ShapeKept, UndecidedKept, StampsKept, HeardRecentKept, OnTimeKept,
       EntriesRecentKept DEF IInv
  <2>2. CASE UNCHANGED vars
    BY <2>2 DEF vars, world, call, IInv, TypeOK, Shape, Undecided, Stamps, HeardRecent, OnTime,
                EntriesRecent, SaidSince, Current, Held
  <2> QED
    BY <2>1, <2>2
<1> QED
  BY InitEstablishes, <1>1, PTL DEF Spec

\* Every variable keeps its type, in particular the cache's list and map, in
\* every interleaving of the requests, the server and the clock
\* (licensecheck/plugin.go:121-276).
THEOREM TypeCorrect == Spec => []TypeOK
BY Invariance, PTL DEF IInv

\* The list and the map hold the same tokens, each once, and at most
\* max_cache_size of them, although lookups of one token overlap and each stores
\* what it hears (licensecheck/plugin.go:236-276).
THEOREM CacheStaysCoherent == Spec => []Coherent(cache, MaxSize)
<1>1. IInv => Coherent(cache, MaxSize)
  BY DEF IInv, Shape
<1> QED
  BY Invariance, <1>1, PTL

-----------------------------------------------------------------------------
(* RecentAnswers. *)

\* What the server says, or said no longer ago than this, decides a request.
LEMMA RecentIsAdmissible ==
    ASSUME TypeOK, Shape, NEW t \in Token, NEW v \in 1 .. Current(t),
           NEW moment \in Int, SaidSince(t, v, moment), now - moment <= TTL + Timeout
    PROVE  Judged(verdict[t][v].value) \in R!Admissible(t)
<1>1. /\ now \in Nat /\ TTL \in Nat /\ Timeout \in Nat /\ Current(t) \in Nat
      /\ verdict[t][v].until \in Nat
  BY TypeFacts
<1>2. v \in DOMAIN verdict[t]
  <2>1. verdict[t] \in Seq([value : BOOLEAN, until : 0 .. Horizon])
    BY DEF TypeOK
  <2> QED
    BY <2>1 DEF Current
<1>3. v = Len(verdict[t]) \/ verdict[t][v].until >= moment
  BY DEF SaidSince, Current
<1>4. R!Lag(t, v) <= TTL + Timeout
  <2>1. CASE v = Len(verdict[t])
    <3>1. R!Lag(t, v) = 0
      BY <2>1 DEF R!Lag
    <3> QED
      BY <1>1, <3>1
  <2>2. CASE v # Len(verdict[t])
    <3> DEFINE until == verdict[t][v].until
    <3>1. R!Lag(t, v) = now - until
      BY <2>2 DEF R!Lag
    <3>2. until \in Nat /\ until >= moment /\ now \in Nat /\ TTL + Timeout \in Int
      BY <1>1, <1>3, <2>2
    <3> HIDE DEF until
    <3>3. now - until <= TTL + Timeout
      BY <3>2
    <3> QED
      BY <3>1, <3>3
  <2> QED
    BY <2>1, <2>2
<1> QED
  BY <1>2, <1>4 DEF R!Admissible, Judged

\* Requests change their answers only in the steps that end them.
LEMMA AnswerStep ==
    ASSUME IInv, NEW r \in Request, NEW a,
           pc[r] # "done", answer' = [answer EXCEPT ![r] = a],
           now' = now, verdict' = verdict,
           a = Unverified \/ a \in R!Admissible(TokenOf[r])
    PROVE  R!Next
<1>1. answer \in [Request -> {"none", "admitted", "invalid", "unverified"}]
      /\ TokenOf[r] \in Token /\ answer[r] = "none"
  BY TokenAssumption DEF IInv, TypeOK, Undecided
<1>2. DOMAIN answer' = Request /\ \A q \in Request : answer'[q] # answer[q] => q = r
  BY <1>1
<1>3. answer'[r] = a
  BY <1>1
<1>4. R!Decide
  BY <1>1, <1>2, <1>3 DEF R!Decide
<1> QED
  BY <1>4 DEF R!Next

LEMMA StepImplements ==
    ASSUME Prompt, IInv, [Next]_vars
    PROVE  [R!Next]_(R!vars)
<1>0. TypeOK /\ Shape /\ Stamps /\ HeardRecent /\ OnTime /\ EntriesRecent
      /\ now \in Nat /\ TTL \in Nat /\ Timeout \in Nat
  BY TypeFacts DEF IInv
<1>1. ASSUME NEW r \in Request, CacheHit(r)
      PROVE  R!Next
  <2> DEFINE t == TokenOf[r]
  <2>1. /\ pc[r] = "new" /\ t \in Held(cache) /\ now <= cache.entry[t].expires
        /\ answer' = [answer EXCEPT ![r] = Judged(cache.entry[t].valid)]
        /\ now' = now /\ verdict' = verdict
    BY <1>1 DEF CacheHit, Live, Return, Goto, world
  <2>2. t \in Token /\ cache.entry[t].expires \in Nat
    BY <1>0, <2>1, TypeFacts
  <2>3. PICK v \in 1 .. Current(t) :
           /\ verdict[t][v].value = cache.entry[t].valid
           /\ SaidSince(t, v, cache.entry[t].expires - TTL - Timeout)
    BY <1>0, <2>1 DEF EntriesRecent
  <2>4. Judged(cache.entry[t].valid) \in R!Admissible(t)
    BY <1>0, <2>1, <2>2, <2>3, RecentIsAdmissible
  <2> QED
    BY <2>1, <2>4, AnswerStep
<1>2. ASSUME NEW r \in Request, AnswerArrives(r)
      PROVE  R!Next
  <2> DEFINE t == TokenOf[r]
  <2>1. /\ answer' = [answer EXCEPT ![r] = Judged(verdict[t][heard[r]].value)]
        /\ now' = now /\ verdict' = verdict
    BY <1>2 DEF AnswerArrives, Return, Valid, world
  <2>2. /\ pc[r] = "transit" /\ SaidSince(t, heard[r], began[r])
        /\ heard[r] \in 1 .. Current(t)
    BY <1>0, <1>2, HeardIsAVersion
  <2>3. began[r] \in Nat /\ now <= began[r] + Timeout /\ t \in Token
    BY <1>0, <2>2, TypeFacts DEF OnTime
  <2>4. now - began[r] <= TTL + Timeout /\ began[r] \in Int
    BY <1>0, <2>3
  <2>5. Judged(verdict[t][heard[r]].value) \in R!Admissible(t)
    BY <1>0, <2>2, <2>3, <2>4, RecentIsAdmissible
  <2> QED
    BY <2>1, <2>2, <2>5, AnswerStep
<1>3. ASSUME NEW r \in Request, GiveUp(r)
      PROVE  R!Next
  <2>1. pc[r] = "next" /\ answer' = [answer EXCEPT ![r] = Unverified]
        /\ now' = now /\ verdict' = verdict
    BY <1>3 DEF GiveUp, Return, Goto, world
  <2> QED
    BY <2>1, AnswerStep
<1>4. ASSUME NEW r \in Request,
             CacheMiss(r) \/ Attempt(r) \/ ServerAnswers(r) \/ AttemptFails(r)
      PROVE  UNCHANGED R!vars
  BY <1>4 DEF CacheMiss, Attempt, ServerAnswers, AttemptFails, world, R!vars
<1>5. ASSUME NEW t \in Token, Change(t)
      PROVE  R!Next
  <2>1. (~Valid(t, Current(t))) \in BOOLEAN
    OBVIOUS
  <2>2. R!Change(t)
    BY <1>5, <2>1 DEF Change, R!Change
  <2> QED
    BY <2>2 DEF R!Next
<1>6. ASSUME Tick
      PROVE  R!Next
  BY <1>6 DEF Tick, R!Next, R!Tick
<1>7. ASSUME UNCHANGED vars
      PROVE  UNCHANGED R!vars
  BY <1>7 DEF vars, world, R!vars
<1> QED
  BY <1>1, <1>2, <1>3, <1>4, <1>5, <1>6, <1>7 DEF Next, Proceed

\* Where running goroutines take no time against the clock's tick, the plugin
\* implements the cache of bounded age: no request is admitted or refused by a
\* verdict that the server gave up longer ago than the ttl and one attempt's
\* timeout, whatever order the answers come in and however many requests ask at
\* once (licensecheck/plugin.go:121-158, 181-214, 227, 245).
THEOREM ImplementsRecentAnswersHolds ==
    ASSUME Prompt
    PROVE  Spec => ImplementsRecentAnswers
<1>1. Init => R!Init
  <2> SUFFICES ASSUME Init PROVE R!Init
    OBVIOUS
  <2>1. ASSUME NEW t \in Token
        PROVE  \E b \in BOOLEAN : verdict[t] = <<[value |-> b, until |-> 0]>>
    BY DEF Init
  <2> QED
    BY <2>1 DEF Init, R!Init
<1>2. IInv /\ [Next]_vars => [R!Next]_(R!vars)
  BY StepImplements
<1> QED
  BY Invariance, <1>1, <1>2, PTL DEF Spec, ImplementsRecentAnswers, R!Spec
=============================================================================
