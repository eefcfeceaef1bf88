---------------------------- MODULE JWKSCacheProofs ----------------------------
(***************************************************************************)
(* Proofs about JWKSCache, for any calls, keys, ttl and timeout: its types, *)
(* and what a call of getKey may return.                                    *)
(*                                                                         *)
(* A document on its way lacks only keys that were published after the     *)
(* fetch had begun, and holds only keys that were not withdrawn before     *)
(* (DocTruthful).  When it is stored, the fetch is no older than the       *)
(* client's timeout, which is where the promptness of running goroutines   *)
(* comes in (OnTime); so what holds of the document by its fetch's begin    *)
(* holds of the keys by fetchAt, less that timeout (KeysRecent).            *)
(***************************************************************************)
EXTENDS JWKSCache, TLAPS

\* Keys are published once and withdrawn once, the steady ones never.
Lifetimes ==
    /\ Steady \subseteq published
    /\ \A k \in Kid :
          /\ k \in published <=> since[k] # Never /\ retired[k] = Never
          /\ since[k] = Never => retired[k] = Never
          /\ since[k] <= now /\ retired[k] <= now

\* A document with keys in it is what the endpoint published after the fetch
\* had begun.
DocTruthful == \A r \in Request : pc[r] = "transit" /\ doc[r] # {} =>
    /\ Steady \subseteq doc[r]
    /\ \A k \in doc[r] : retired[k] = Never \/ retired[k] >= began[r]
    /\ \A k \in published \ doc[r] : since[k] >= began[r]

\* What was cached and is steady is still there, until a wipe.
SteadyKept == held \cap Steady \subseteq keys

Stamps ==
    /\ fetchAt <= now
    /\ keys # {} => fetchAt # Never
    /\ \A r \in Request : began[r] <= now /\ (pc[r] \in Fetching => began[r] # Never)

\* Where running goroutines take no time, a fetch in progress is within its
\* timeout, and a call that has stored reads back in the same moment.
OnTime == Prompt => \A r \in Request :
    /\ pc[r] \in Fetching => now <= began[r] + FetchTimeout
    /\ pc[r] = "stored" => fetchAt = now

KeysRecent == Prompt /\ keys # {} =>
    /\ \A k \in keys : retired[k] = Never \/ retired[k] >= fetchAt - FetchTimeout
    /\ \A k \in published \ keys : since[k] >= fetchAt - FetchTimeout

IInv == TypeOK /\ Lifetimes /\ DocTruthful /\ SteadyKept /\ Stamps /\ OnTime /\ KeysRecent

-----------------------------------------------------------------------------
LEMMA InitEstablishes == Init => IInv
<1> SUFFICES ASSUME Init PROVE IInv
  OBVIOUS
<1> USE KidAssumption, TimeAssumption DEF Init, Never
<1>1. TypeOK
  BY DEF TypeOK, Moment, Pc
<1>2. Lifetimes
  BY DEF Lifetimes
<1>3. DocTruthful /\ SteadyKept /\ Stamps /\ OnTime /\ KeysRecent
  BY DEF DocTruthful, SteadyKept, Stamps, OnTime, KeysRecent, Fetching
<1> QED
  BY <1>1, <1>2, <1>3 DEF IInv

\* Types.
LEMMA TypeKept ==
    ASSUME TypeOK, Next
    PROVE  TypeOK'
<1> USE KidAssumption, TimeAssumption
    DEF TypeOK, Moment, Never, Pc, Fetching, Accepted, Refused, world, provider, cached
<1>1. ASSUME NEW r \in Request, LiveHit(r) \/ FallBack(r) \/ ReadBack(r)
      PROVE  TypeOK'
  BY <1>1 DEF LiveHit, FallBack, ReadBack, Return, Goto, StaleAnswer
<1>2. ASSUME NEW r \in Request, NeedsRefresh(r) \/ Fetch(r) \/ RefreshFails(r)
      PROVE  TypeOK'
  BY <1>2 DEF NeedsRefresh, Fetch, RefreshFails, Goto
<1>3. ASSUME NEW r \in Request, EndpointAnswers(r) \/ EndpointErrs(r) \/ Store(r)
      PROVE  TypeOK'
  BY <1>3 DEF EndpointAnswers, EndpointErrs, Store, Kept, Goto
<1>4. ASSUME NEW k \in Kid, Retire(k) \/ Publish(k)
      PROVE  TypeOK'
  BY <1>4 DEF Retire, Publish
<1>5. CASE Tick
  BY <1>5 DEF Tick
<1> QED
  BY <1>1, <1>2, <1>3, <1>4, <1>5 DEF Next, Proceed

\* A call that moves on without touching keys or its document.
LEMMA CallKeeps ==
    ASSUME IInv, NEW r \in Request, TypeOK',
           \/ LiveHit(r) \/ FallBack(r) \/ ReadBack(r) \/ NeedsRefresh(r) \/ Fetch(r)
           \/ RefreshFails(r)
    PROVE  IInv'
<1> USE TimeAssumption
    DEF IInv, TypeOK, Moment, Never, world, provider, cached, Return, Goto, Fetching,
        LiveHit, FallBack, ReadBack, NeedsRefresh, Fetch, RefreshFails
<1>1. Lifetimes' /\ SteadyKept' /\ KeysRecent'
  BY DEF Lifetimes, SteadyKept, KeysRecent
<1>2. DocTruthful'
  BY DEF DocTruthful
<1>3. Stamps' /\ OnTime'
  BY DEF Stamps, OnTime
<1> QED
  BY <1>1, <1>2, <1>3

LEMMA AnswerKeeps ==
    ASSUME IInv, NEW r \in Request, TypeOK', EndpointAnswers(r) \/ EndpointErrs(r)
    PROVE  IInv'
<1> USE TimeAssumption
    DEF IInv, TypeOK, Moment, Never, world, provider, cached, Goto, Fetching,
        EndpointAnswers, EndpointErrs
<1>1. Lifetimes' /\ SteadyKept' /\ KeysRecent'
  BY DEF Lifetimes, SteadyKept, KeysRecent
<1>2. DocTruthful'
  BY DEF DocTruthful, Lifetimes, Stamps
<1>3. Stamps' /\ OnTime'
  BY DEF Stamps, OnTime
<1> QED
  BY <1>1, <1>2, <1>3

\* The document's truth by the fetch's begin becomes the keys' by fetchAt.
LEMMA StoreKeeps ==
    ASSUME IInv, NEW r \in Request, TypeOK', Store(r)
    PROVE  IInv'
<1> USE TimeAssumption
    DEF IInv, TypeOK, Moment, Never, world, provider, Goto, Fetching, Store
<1>1. Lifetimes' /\ DocTruthful'
  BY DEF Lifetimes, DocTruthful
<1>2. SteadyKept'
  BY DEF SteadyKept, DocTruthful, Kept
<1>3. Stamps' /\ OnTime'
  BY DEF Stamps, OnTime
<1>4. KeysRecent'
  <2> SUFFICES ASSUME Prompt, doc[r] # {}
               PROVE  /\ \A k \in doc[r] : retired[k] = Never
                                           \/ retired[k] >= now - FetchTimeout
                      /\ \A k \in published \ doc[r] : since[k] >= now - FetchTimeout
    BY DEF KeysRecent
  <2>1. began[r] >= now - FetchTimeout
    BY DEF OnTime, Stamps
  <2> QED
    BY <2>1 DEF DocTruthful, Stamps
<1> QED
  BY <1>1, <1>2, <1>3, <1>4

LEMMA ProviderKeeps ==
    ASSUME IInv, NEW k \in Kid, TypeOK', Retire(k) \/ Publish(k)
    PROVE  IInv'
<1> USE TimeAssumption
    DEF IInv, TypeOK, Moment, Never, cached, Retire, Publish
<1>1. Lifetimes'
  BY KidAssumption DEF Lifetimes
<1>2. DocTruthful'
  BY DEF DocTruthful, Stamps
<1>3. SteadyKept' /\ Stamps' /\ OnTime'
  BY DEF SteadyKept, Stamps, OnTime
<1>4. KeysRecent'
  BY DEF KeysRecent, Stamps
<1> QED
  BY <1>1, <1>2, <1>3, <1>4

\* Time passes only when no fetch is due and nobody has something to do.
LEMMA TickKeeps ==
    ASSUME IInv, TypeOK', Tick
    PROVE  IInv'
<1> USE TimeAssumption
    DEF IInv, TypeOK, Moment, Never, provider, cached, Tick
<1>1. Lifetimes' /\ DocTruthful' /\ SteadyKept' /\ Stamps' /\ KeysRecent'
  BY DEF Lifetimes, DocTruthful, SteadyKept, Stamps, KeysRecent
<1>2. OnTime'
  BY DEF OnTime, Settled, Overdue, Stamps, Fetching
<1> QED
  BY <1>1, <1>2

LEMMA NextKeeps == IInv /\ [Next]_vars => IInv'
<1> SUFFICES ASSUME IInv, [Next]_vars PROVE IInv'
  OBVIOUS
<1>1. CASE UNCHANGED vars
  BY <1>1 DEF vars, IInv, TypeOK, Lifetimes, DocTruthful, SteadyKept, Stamps, OnTime,
     KeysRecent
<1>2. CASE Next
  <2>1. TypeOK'
    BY <1>2, TypeKept DEF IInv
  <2> QED
    BY <1>2, <2>1, CallKeeps, AnswerKeeps, StoreKeeps, ProviderKeeps, TickKeeps
       DEF Next, Proceed
<1> QED
  BY <1>1, <1>2

LEMMA Invariant == Spec => []IInv
BY InitEstablishes, NextKeeps, PTL DEF Spec

-----------------------------------------------------------------------------
\* The three ways for a call to end.
LEMMA Returns ==
    ASSUME IInv, [Next]_vars, NEW r \in Request, pc'[r] = "done", pc[r] # "done"
    PROVE  LiveHit(r) \/ FallBack(r) \/ ReadBack(r)
<1> USE DEF IInv, TypeOK, Goto
<1>1. Next
  BY DEF vars
<1>2. ASSUME NEW k \in Kid, Retire(k) \/ Publish(k)
      PROVE  FALSE
  BY <1>2 DEF Retire, Publish
<1>3. ~Tick
  BY DEF Tick
<1>4. PICK q \in Request :
         \/ LiveHit(q) \/ NeedsRefresh(q) \/ Proceed(q)
         \/ EndpointAnswers(q) \/ EndpointErrs(q) \/ Store(q) \/ RefreshFails(q)
  BY <1>1, <1>2, <1>3 DEF Next
<1>5. LiveHit(q) \/ FallBack(q) \/ ReadBack(q)
  BY <1>4 DEF NeedsRefresh, Proceed, Fetch, EndpointAnswers, EndpointErrs, Store,
     RefreshFails
<1>6. q = r
  BY <1>5 DEF LiveHit, FallBack, ReadBack, Return
<1> QED
  BY <1>5, <1>6

\* Every variable keeps its type, whatever calls overlap.
THEOREM TypeCorrect == Spec => []TypeOK
BY Invariant, PTL DEF IInv

\* A key that every good document holds is served once it was cached, whatever
\* fetch fails or overtakes another, until an error document wipes it
\* (jwks.go:9-10, 177-213).
THEOREM SteadyKeyServedHolds == Spec => SteadyKeyServed
<1>1. IInv /\ [Next]_vars =>
        [\A r \in Request :
          pc'[r] = "done" /\ pc[r] # "done" /\ KidOf[r] \in Steady =>
             reply'[r] \in Accepted \/ KidOf[r] \notin held]_vars
  <2> SUFFICES ASSUME IInv, [Next]_vars, NEW r \in Request,
                      pc'[r] = "done", pc[r] # "done", KidOf[r] \in Steady, KidOf[r] \in held
               PROVE  reply'[r] \in Accepted
    OBVIOUS
  <2>1. KidOf[r] \in keys
    BY DEF IInv, SteadyKept
  <2>2. LiveHit(r) \/ FallBack(r) \/ ReadBack(r)
    BY Returns
  <2> QED
    BY <2>1, <2>2 DEF LiveHit, FallBack, ReadBack, Return, StaleAnswer, Accepted, IInv, TypeOK
<1> QED
  BY <1>1, Invariant, PTL DEF Spec, SteadyKeyServed

\* A withdrawn key verifies nothing later than the ttl and the client's timeout
\* after it, but for a stale answer, although older documents may be stored
\* after newer ones (jwks.go:177-213, 242-245).
THEOREM RetiredKeyExpiresHolds ==
    ASSUME Prompt
    PROVE  Spec => RetiredKeyExpires
<1>1. IInv /\ [Next]_vars =>
        [\A r \in Request :
          pc'[r] = "done" /\ pc[r] # "done" /\ reply'[r] \in {"live", "fetched"} =>
             \/ retired[KidOf[r]] = Never
             \/ now - retired[KidOf[r]] <= TTL + FetchTimeout]_vars
  <2> SUFFICES ASSUME IInv, [Next]_vars, NEW r \in Request,
                      pc'[r] = "done", pc[r] # "done", reply'[r] \in {"live", "fetched"},
                      retired[KidOf[r]] # Never
               PROVE  now - retired[KidOf[r]] <= TTL + FetchTimeout
    OBVIOUS
  <2>1. KidOf[r] \in Kid
    BY KidAssumption
  <2>2. LiveHit(r) \/ FallBack(r) \/ ReadBack(r)
    BY Returns
  <2>3. KidOf[r] \in keys /\ now <= fetchAt + TTL
    <3>1. CASE LiveHit(r)
      BY <3>1, TimeAssumption DEF LiveHit, Expired, IInv, TypeOK, Moment, Never
    <3>2. CASE ReadBack(r)
      BY <3>2, TimeAssumption
         DEF ReadBack, Return, Goto, IInv, OnTime, TypeOK, Moment, Never
    <3>3. CASE FallBack(r)
      BY <3>3 DEF FallBack, Return, StaleAnswer, IInv, TypeOK
    <3> QED
      BY <2>2, <3>1, <3>2, <3>3
  <2>4. retired[KidOf[r]] >= fetchAt - FetchTimeout
    BY <2>3 DEF IInv, KeysRecent
  <2> QED
    BY <2>1, <2>3, <2>4, TimeAssumption DEF IInv, TypeOK, Moment, Never
<1> QED
  BY <1>1, Invariant, PTL DEF Spec, RetiredKeyExpires

\* A published kid is refused as unknown only when it was published less than
\* the client's timeout before the call's fetch began, or when the last
\* document that was stored had no key (jwks.go:206-211).
THEOREM UnknownIsNewHolds ==
    ASSUME Prompt
    PROVE  Spec => UnknownIsNew
<1>1. IInv /\ [Next]_vars =>
        [\A r \in Request :
          pc'[r] = "done" /\ pc[r] # "done" /\ reply'[r] = "no_such_key" =>
             \/ KidOf[r] \notin published \/ keys = {}
             \/ since[KidOf[r]] >= began'[r] - FetchTimeout]_vars
  <2> SUFFICES ASSUME IInv, [Next]_vars, NEW r \in Request,
                      pc'[r] = "done", pc[r] # "done", reply'[r] = "no_such_key",
                      KidOf[r] \in published, keys # {}
               PROVE  since[KidOf[r]] >= began'[r] - FetchTimeout
    OBVIOUS
  <2>1. ReadBack(r) /\ KidOf[r] \notin keys
    BY Returns
       DEF LiveHit, FallBack, ReadBack, Return, StaleAnswer, IInv, TypeOK
  <2>2. fetchAt = now
    BY <2>1 DEF ReadBack, Return, Goto, IInv, OnTime
  <2>3. since[KidOf[r]] >= fetchAt - FetchTimeout
    BY <2>1 DEF IInv, KeysRecent
  <2>4. began'[r] = began[r] /\ began[r] <= now
    BY <2>1 DEF ReadBack, IInv, Stamps
  <2> QED
    BY <2>2, <2>3, <2>4, KidAssumption, TimeAssumption DEF IInv, TypeOK, Moment, Never
<1> QED
  BY <1>1, Invariant, PTL DEF Spec, UnknownIsNew
=============================================================================
