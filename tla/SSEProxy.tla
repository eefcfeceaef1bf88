------------------------------- MODULE SSEProxy -------------------------------
(***************************************************************************)
(* The SSE path of the gateway: internal/llm's limiter, metrics and       *)
(* pipe-and-flush proxy, as one goroutine per request.                    *)
(*                                                                         *)
(* A request is a constant with a tenant and a route; its program counter *)
(* pc walks through NewProxy's handler and NewSSEProxy's handler.  Steps   *)
(* are cut where another goroutine can see the difference: at each atomic *)
(* operation of the limiter, at each critical section of the metrics, and *)
(* around every call that waits for the upstream or the client.           *)
(* main.go builds both the limiter and the metrics, so the nil branches   *)
(* of NewProxy are not modelled.                                           *)
(***************************************************************************)
EXTENDS Integers, FiniteSets

CONSTANTS
    Request,       \* requests to SSE routes, each handled once
    Tenant,        \* tenant ids ("" is a tenant id like the others)
    Route,         \* SSE routes
    TenantOf,      \* [Request -> Tenant], reqctx.TenantID
    RouteOf,       \* [Request -> Route]
    MaxPerTenant,  \* gateway.llm.max_sse_connections_per_tenant
    Timed,         \* requests whose route sets executionTimeoutSeconds > 0
    Flushable,     \* is the handler's ResponseWriter an http.Flusher?
    Chunks         \* bound: chunks an upstream sends on one stream

ASSUME RequestAssumption == IsFiniteSet(Request)
ASSUME TenantAssumption  == TenantOf \in [Request -> Tenant]
ASSUME RouteAssumption   == RouteOf \in [Request -> Route]
ASSUME MaxAssumption     == MaxPerTenant \in Int
ASSUME TimedAssumption   == Timed \subseteq Request
ASSUME WriterAssumption  == Flushable \in BOOLEAN
ASSUME ChunksAssumption  == Chunks \in Nat

VARIABLES
    pc,      \* where the handler goroutine of a request is
    ctx,     \* r.Context().Err(): "live", or the first of the two errors
    cut,     \* has http.Server's WriteTimeout passed for the connection?
    count,   \* Limiter.counts
    active,  \* SSEMetrics.active
    errors,  \* SSEMetrics.errors
    reply,   \* what the handler answers
    sse,     \* is the upstream's answer a text/event-stream?
    got,     \* chunks read from the upstream body
    wrote,   \* chunks given to the server's write buffer
    sent     \* chunks that have left for the client

limits == <<count>>
meters == <<active, errors>>
stream == <<sse, got, wrote, sent>>
vars == <<pc, ctx, cut, count, active, errors, reply, sse, got, wrote, sent>>

\* NewLimiter: values <= 0 are clamped to the default of 10.
Limit == IF MaxPerTenant <= 0 THEN 10 ELSE MaxPerTenant

Kind == {"limit_exceeded", "timeout", "client_disconnect", "upstream_error"}
Key == Tenant \X Route
KeyOf(r) == <<TenantOf[r], RouteOf[r]>>

\* "acquired" to "releasing": between TryAcquire's true and Release.
HoldingPc == {"acquired", "dialing", "failed", "reading", "writing",
              "lastwrite", "closing", "releasing"}
\* The part of it between Inc and Dec.
MeteredPc == HoldingPc \ {"acquired", "releasing"}
Pc == HoldingPc \cup {"new", "over", "refused", "returned", "done"}

OfTenant(t) == {r \in Request : TenantOf[r] = t}
OnKey(k) == {r \in Request : KeyOf(r) = k}

Holding(t) == {r \in OfTenant(t) : pc[r] \in HoldingPc}
Undoing(t) == {r \in OfTenant(t) : pc[r] \in {"over"}}
Metered(k) == {r \in OnKey(k) : pc[r] \in MeteredPc}

Running(r) == pc[r] \notin {"new", "done"}

\* A write gets through: the client is there and the deadline has not passed.
Reachable(r) == ctx[r] # "canceled" /\ ~cut[r]

-----------------------------------------------------------------------------
Init ==
    /\ pc = [r \in Request |-> "new"]
    /\ ctx = [r \in Request |-> "live"]
    /\ cut = [r \in Request |-> FALSE]
    /\ count = [t \in Tenant |-> 0]
    /\ active = [k \in Key |-> 0]
    /\ errors = [k \in Key |-> [kind \in Kind |-> 0]]
    /\ reply = [r \in Request |-> "none"]
    /\ sse = [r \in Request |-> FALSE]
    /\ got = [r \in Request |-> 0]
    /\ wrote = [r \in Request |-> 0]
    /\ sent = [r \in Request |-> 0]

Goto(r, from, to) ==
    /\ pc[r] = from
    /\ pc' = [pc EXCEPT ![r] = to]

Count(k, kind) == errors' = [errors EXCEPT ![k][kind] = @ + 1]

-----------------------------------------------------------------------------
(* The limiter. *)

\* Mutant: the value before the addition is compared.
TryAcquireOffByOne(r) ==
    /\ count' = [count EXCEPT ![TenantOf[r]] = @ + 1]
    /\ Goto(r, "new", IF count[TenantOf[r]] > Limit THEN "over" ELSE "acquired")
    /\ UNCHANGED <<ctx, cut, meters, reply, stream>>

\* Mutant: the last slot is never given.
TryAcquireEager(r) ==
    /\ count' = [count EXCEPT ![TenantOf[r]] = @ + 1]
    /\ Goto(r, "new", IF count'[TenantOf[r]] >= Limit THEN "over" ELSE "acquired")
    /\ UNCHANGED <<ctx, cut, meters, reply, stream>>

\* TryAcquire's first atomic operation: add one, then compare the sum.
TryAcquire(r) ==
    /\ count' = [count EXCEPT ![TenantOf[r]] = @ + 1]
    /\ Goto(r, "new", IF count'[TenantOf[r]] > Limit THEN "over" ELSE "acquired")
    /\ UNCHANGED <<ctx, cut, meters, reply, stream>>

\* Mutant: a refusal releases as well, as if the deferral came first.
UndoAndRelease(r) ==
    /\ count' = [count EXCEPT ![TenantOf[r]] = @ - 2]
    /\ Goto(r, "over", "refused")
    /\ UNCHANGED <<ctx, cut, meters, reply, stream>>

\* Its second one, on the refusing path.
Undo(r) ==
    /\ count' = [count EXCEPT ![TenantOf[r]] = @ - 1]
    /\ Goto(r, "over", "refused")
    /\ UNCHANGED <<ctx, cut, meters, reply, stream>>

\* NewProxy's refusal: a metric, then 429 with retryAfter.
Refuse(r) ==
    /\ Goto(r, "refused", "returned")
    /\ Count(KeyOf(r), "limit_exceeded")
    /\ reply' = [reply EXCEPT ![r] = "429"]
    /\ UNCHANGED <<ctx, cut, count, active, stream>>

\* Mutant: a request that ends with a cancelled context keeps its slot.
ReleaseUnlessCanceled(r) ==
    /\ Goto(r, "releasing", "returned")
    /\ count' = [count EXCEPT ![TenantOf[r]] =
                    IF ctx[r] = "canceled" THEN @ ELSE @ - 1]
    /\ UNCHANGED <<ctx, cut, meters, reply, stream>>

\* The deferred, once-guarded Release; it is deferred first and runs last.
Release(r) ==
    /\ Goto(r, "releasing", "returned")
    /\ count' = [count EXCEPT ![TenantOf[r]] = @ - 1]
    /\ UNCHANGED <<ctx, cut, meters, reply, stream>>

-----------------------------------------------------------------------------
(* The gauge of active streams. *)

Inc(r) ==
    /\ Goto(r, "acquired", "dialing")
    /\ active' = [active EXCEPT ![KeyOf(r)] = @ + 1]
    /\ UNCHANGED <<ctx, cut, count, errors, reply, stream>>

\* Mutant: the entry is dropped instead of decremented.
DecDropsEntry(r) ==
    /\ Goto(r, "closing", "releasing")
    /\ active' = [active EXCEPT ![KeyOf(r)] = 0]
    /\ UNCHANGED <<ctx, cut, count, errors, reply, stream>>

\* The deferred Dec; an entry that reaches zero is pruned, which reads as 0.
Dec(r) ==
    /\ Goto(r, "closing", "releasing")
    /\ active' = [active EXCEPT ![KeyOf(r)] = IF @ - 1 <= 0 THEN 0 ELSE @ - 1]
    /\ UNCHANGED <<ctx, cut, count, errors, reply, stream>>

-----------------------------------------------------------------------------
(* NewSSEProxy: the upstream answers, fails, or is given up. *)

\* RoundTrip returns a response; its headers and its status are written.
RoundTripAnswers(r) ==
    /\ Goto(r, "dialing", "reading")
    /\ reply' = [reply EXCEPT ![r] = "stream"]
    /\ \E isSSE \in BOOLEAN : sse' = [sse EXCEPT ![r] = isSSE]
    /\ UNCHANGED <<ctx, cut, limits, meters, got, wrote, sent>>

\* RoundTrip returns an error, the upstream's own or the context's.
RoundTripFails(r) ==
    /\ Goto(r, "dialing", "failed")
    /\ UNCHANGED <<ctx, cut, limits, meters, reply, stream>>

\* What the handler makes of r.Context().Err(), read after RoundTrip returned.
FailureKind(c) == CASE c = "deadline" -> "timeout"
                    [] c = "canceled" -> "client_disconnect"
                    [] c = "live"     -> "upstream_error"

FailureReply(c) == CASE c = "deadline" -> "500"
                     [] c = "canceled" -> "none"
                     [] c = "live"     -> "502"

\* Mutant: whatever is not the deadline counts as the upstream's failure.
ClassifyFailureAsUpstream(r) ==
    /\ Goto(r, "failed", "closing")
    /\ Count(KeyOf(r), IF ctx[r] = "deadline" THEN "timeout" ELSE "upstream_error")
    /\ reply' = [reply EXCEPT ![r] = FailureReply(ctx[r])]
    /\ UNCHANGED <<ctx, cut, limits, active, stream>>

ClassifyFailure(r) ==
    /\ Goto(r, "failed", "closing")
    /\ Count(KeyOf(r), FailureKind(ctx[r]))
    /\ reply' = [reply EXCEPT ![r] = FailureReply(ctx[r])]
    /\ UNCHANGED <<ctx, cut, limits, active, stream>>

\* Read returns a chunk; with the last one it may already return the error.
ReadChunk(r) ==
    /\ got[r] < Chunks
    /\ got' = [got EXCEPT ![r] = @ + 1]
    /\ \E last \in BOOLEAN :
          Goto(r, "reading", IF last THEN "lastwrite" ELSE "writing")
    /\ UNCHANGED <<ctx, cut, limits, meters, reply, sse, wrote, sent>>

\* Mutant: the loop goes on reading when the context is done.
ReadEndsUnlessCanceled(r) ==
    /\ Goto(r, "reading", IF ctx[r] = "canceled" THEN "reading" ELSE "closing")
    /\ UNCHANGED <<ctx, cut, limits, meters, reply, stream>>

\* Read returns only an error: the end of the stream, a broken upstream, or
\* the context's error.  No branch looks at it.
ReadEnds(r) ==
    /\ Goto(r, "reading", "closing")
    /\ UNCHANGED <<ctx, cut, limits, meters, reply, stream>>

\* net/http cancels the connection's context when a write fails.
CancelOnWriteError(r) ==
    ctx' = [ctx EXCEPT ![r] = IF @ = "live" THEN "canceled" ELSE @]

AfterWrite(r) == IF pc[r] = "lastwrite" THEN "closing" ELSE "reading"

Writing(r) == pc[r] \in {"writing", "lastwrite"}

\* The flush loop is taken for an event stream on a flushable writer.
Piped(r) == sse[r] /\ Flushable

\* Mutant: the error of Read is looked at before the bytes it came with.
WriteFlushDropsLast(r) ==
    /\ Piped(r) /\ Writing(r)
    /\ pc' = [pc EXCEPT ![r] = AfterWrite(r)]
    /\ IF pc[r] = "writing" /\ Reachable(r)
       THEN /\ wrote' = [wrote EXCEPT ![r] = got[r]]
            /\ sent' = [sent EXCEPT ![r] = got[r]]
       ELSE UNCHANGED <<wrote, sent>>
    /\ UNCHANGED ctx
    /\ UNCHANGED <<cut, limits, meters, reply, sse, got>>

\* Mutant: no Flush; the bytes stay in the server's buffer.
WriteNoFlush(r) ==
    /\ Piped(r) /\ Writing(r)
    /\ pc' = [pc EXCEPT ![r] = AfterWrite(r)]
    /\ wrote' = [wrote EXCEPT ![r] = got[r]]
    /\ UNCHANGED <<ctx, cut, limits, meters, reply, sse, got, sent>>

\* The flush loop: Write then Flush, both results ignored.
WriteFlush(r) ==
    /\ Piped(r) /\ Writing(r)
    /\ pc' = [pc EXCEPT ![r] = AfterWrite(r)]
    /\ IF Reachable(r)
       THEN /\ wrote' = [wrote EXCEPT ![r] = got[r]]
            /\ sent' = [sent EXCEPT ![r] = got[r]]
            /\ UNCHANGED ctx
       ELSE CancelOnWriteError(r) /\ UNCHANGED <<wrote, sent>>
    /\ UNCHANGED <<cut, limits, meters, reply, sse, got>>

\* io.Copy, into the server's buffer, which empties itself when it is full.
WriteBuffered(r) ==
    /\ ~Piped(r) /\ Writing(r)
    /\ pc' = [pc EXCEPT ![r] = AfterWrite(r)]
    /\ wrote' = [wrote EXCEPT ![r] = got[r]]
    /\ \E n \in sent[r] .. got[r] :
          /\ n > sent[r] => Reachable(r)
          /\ sent' = [sent EXCEPT ![r] = n]
    /\ UNCHANGED <<ctx, cut, limits, meters, reply, sse, got>>

\* io.Copy stops at the first write error.
WriteFails(r) ==
    /\ ~Piped(r) /\ Writing(r) /\ ~Reachable(r)
    /\ pc' = [pc EXCEPT ![r] = "closing"]
    /\ CancelOnWriteError(r)
    /\ UNCHANGED <<cut, limits, meters, reply, stream>>

-----------------------------------------------------------------------------
(* Around the handler: the server, the client, the two timers. *)

\* net/http flushes what is buffered when the handler has returned; an answer
\* that cannot be written any more is lost.
Finish(r) ==
    /\ Goto(r, "returned", "done")
    /\ sent' = [sent EXCEPT ![r] = IF Reachable(r) THEN wrote[r] ELSE @]
    /\ reply' = [reply EXCEPT ![r] =
                    IF @ = "stream" \/ Reachable(r) THEN @ ELSE "lost"]
    /\ UNCHANGED <<ctx, cut, limits, meters, sse, got, wrote>>

\* The client goes away; net/http cancels the request's context.
Disconnect(r) ==
    /\ Running(r) /\ ctx[r] = "live"
    /\ ctx' = [ctx EXCEPT ![r] = "canceled"]
    /\ UNCHANGED <<pc, cut, limits, meters, reply, stream>>

\* main.go's WriteTimeout (30 s, counted from the request's header) passes.
WriteTimeout(r) ==
    /\ Running(r) /\ ~cut[r]
    /\ cut' = [cut EXCEPT ![r] = TRUE]
    /\ UNCHANGED <<pc, ctx, limits, meters, reply, stream>>

\* Mutant: the deadline covers only the wait for the upstream's answer.
DeadlineBeforeAnswer(r) ==
    /\ r \in Timed /\ reply[r] = "none"
    /\ Running(r) /\ ctx[r] = "live" /\ cut[r]
    /\ ctx' = [ctx EXCEPT ![r] = "deadline"]
    /\ UNCHANGED <<pc, cut, limits, meters, reply, stream>>

\* The route's deadline, executionTimeoutSeconds + 30 s, counted from a later
\* moment than WriteTimeout's 30 s: it can only pass after it.
Deadline(r) ==
    /\ r \in Timed
    /\ Running(r) /\ ctx[r] = "live" /\ cut[r]
    /\ ctx' = [ctx EXCEPT ![r] = "deadline"]
    /\ UNCHANGED <<pc, cut, limits, meters, reply, stream>>

-----------------------------------------------------------------------------
\* Steps of the handler that wait for nothing.
Proceed(r) ==
    \/ Undo(r) \/ Refuse(r) \/ Release(r) \/ Inc(r) \/ Dec(r)
    \/ ClassifyFailure(r) \/ WriteFlush(r) \/ WriteBuffered(r) \/ WriteFails(r)
    \/ Finish(r)

\* Once the context is done, RoundTrip and Read return its error.
GiveUp(r) == ctx[r] # "live" /\ (RoundTripFails(r) \/ ReadEnds(r))

Next ==
    \E r \in Request :
        \/ TryAcquire(r) \/ Proceed(r)
        \/ RoundTripAnswers(r) \/ RoundTripFails(r)
        \/ ReadChunk(r) \/ ReadEnds(r)
        \/ Disconnect(r) \/ WriteTimeout(r) \/ Deadline(r)

Spec == Init /\ [][Next]_vars

\* The Go scheduler runs a goroutine that can run; the transport returns the
\* context's error; timers fire.  Nothing is assumed of upstreams or clients.
Fairness ==
    \A r \in Request : /\ WF_vars(Proceed(r))
                       /\ WF_vars(GiveUp(r))
                       /\ WF_vars(WriteTimeout(r))
                       /\ WF_vars(Deadline(r))

FairSpec == Spec /\ Fairness

-----------------------------------------------------------------------------
(* Properties. *)

\* Every variable keeps its type; in particular no counter of the limiter or
\* of the metrics goes below zero.
TypeOK ==
    /\ pc \in [Request -> Pc]
    /\ ctx \in [Request -> {"live", "canceled", "deadline"}]
    /\ cut \in [Request -> BOOLEAN]
    /\ count \in [Tenant -> Nat]
    /\ active \in [Key -> Nat]
    /\ errors \in [Key -> [Kind -> Nat]]
    /\ reply \in [Request -> {"none", "429", "500", "502", "stream", "lost"}]
    /\ sse \in [Request -> BOOLEAN]
    /\ got \in [Request -> 0 .. Chunks]
    /\ wrote \in [Request -> 0 .. Chunks]
    /\ sent \in [Request -> 0 .. Chunks]

\* However the two atomic steps of TryAcquire interleave, no tenant holds more
\* slots than the limit (limiter.go:11-20).
SlotLimit == \A t \in Tenant : Cardinality(Holding(t)) <= Limit

\* The limiter's counter is the number of slots held plus the refusals that
\* have not been undone yet: no path through the handler leaks a slot or gives
\* one back twice (limiter.go:38, proxy.go:64-70).
CountExact == \A t \in Tenant :
    count[t] = Cardinality(Holding(t)) + Cardinality(Undoing(t))

\* The gauge on /metrics is the number of streams between Inc and Dec, pruned
\* entries included (metrics.go:46-65).
GaugeExact == \A k \in Key : active[k] = Cardinality(Metered(k))

\* The requests on k that end without a stream from the upstream.
Failed(k) == {r \in OnKey(k) :
    /\ pc[r] \in {"closing", "releasing", "returned", "done"}
    /\ reply[r] # "stream"}

\* What the client of an error is told, unless its connection is gone by then.
ReplyTo == [limit_exceeded |-> "429", timeout |-> "500",
            client_disconnect |-> "none", upstream_error |-> "502"]

Told(k, kind) == {r \in Failed(k) : reply[r] = ReplyTo[kind]}
Caused(k, c) == {r \in Failed(k) : ctx[r] = c}

\* Every request either has a stream from the upstream or is counted by one
\* error, the refused ones included; an error is counted under the kind that
\* its client is told, no timeout before a deadline has passed and no
\* disconnect before a client has left, however late the context is looked at
\* (proxy.go:53-61, sse.go:72-100).
ErrorsExact == \A k \in Key :
    /\ errors[k]["limit_exceeded"] + errors[k]["timeout"]
          + errors[k]["client_disconnect"] + errors[k]["upstream_error"]
        = Cardinality(Failed(k))
    /\ \A kind \in Kind : Cardinality(Told(k, kind)) <= errors[k][kind]
    /\ errors[k]["timeout"] <= Cardinality(Caused(k, "deadline"))
    /\ errors[k]["client_disconnect"] <= Cardinality(Caused(k, "canceled"))

\* While the flush loop waits for the upstream, whatever it has read has left
\* for a client that can still be written to (sse.go:127-128).
FlushedWhileWaiting == \A r \in Request :
    sse[r] /\ pc[r] = "reading" /\ Reachable(r) => sent[r] = got[r]

\* A client that stayed until the end has been sent every chunk that was read,
\* the one that came together with the read error included (sse.go:130-139).
DeliveredInFull == \A r \in Request :
    pc[r] = "done" /\ reply[r] = "stream" /\ Reachable(r) => sent[r] = got[r]

\* A disconnect always gives the slot back, whatever the upstream does
\* (proxy.go:37-39).
DisconnectFrees == \A r \in Request :
    (Running(r) /\ ctx[r] = "canceled") ~> pc[r] = "done"

\* A route with an execution timeout never keeps a slot for ever, whatever the
\* upstream and the client do (sse.go:143-150, dispatcher.go:239-253).
TimedRequestEnds == \A r \in Timed : Running(r) ~> pc[r] = "done"

\* The limiter implements the abstract pool of slots: it admits only below the
\* limit and refuses only under pressure of the same tenant.
PlaceOf(p) == CASE p = "new"       -> "outside"
                [] p \in HoldingPc -> "inside"
                [] p = "over"      -> "refusing"
                [] OTHER           -> "gone"

PoolPlace == [r \in Request |-> PlaceOf(pc[r])]

Pool == INSTANCE SlotPool WITH place <- PoolPlace

ImplementsPool == Pool!Spec
=============================================================================
