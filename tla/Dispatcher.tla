------------------------------ MODULE Dispatcher ------------------------------
(***************************************************************************)
(* The route dispatcher: first match, observation, tenant and role checks, *)
(* the execution deadline, and the two proxies behind it.                  *)
(*                                                                         *)
(* One goroutine per request.  Steps are cut around the calls that wait   *)
(* for the upstream and at the critical sections of the metrics registry  *)
(* and the audit log.  A path is a sequence of segments, Slash standing    *)
(* for the empty one that a doubled or trailing slash leaves; a pattern's  *)
(* {param} segment is Param.  An identity is what the gateway's X- headers *)
(* say, or what the request's context holds, of who a request comes from.  *)
(* What happens inside an SSE stream is SSEProxy's business; Pipeline has  *)
(* the plugins in front of the dispatcher, and the specification.         *)
(***************************************************************************)
EXTENDS Integers, SequencesExt, FiniteSetsExt

CONSTANTS
    Request,
    Routes,      \* sequence of [method, path, roles, tenantRequired, audit, timed, sse]
    Slash, Param,
    None         \* the empty string, and what is not there

ASSUME RequestAssumption == IsFiniteSet(Request)
ASSUME RoutesAssumption == Routes \in Seq(ToSet(Routes))

VARIABLES
    req,     \* the request as it arrives: [method, path, ...]
    header,  \* the identity in r.Header
    actor,   \* the identity in the request's context (reqctx)
    pc,      \* "new", "entered", "dialing", "failed", "copying", "handled",
             \* "recorded", "done", or "aborted" by a panic
    entry,   \* index of the matched route, 0 for none
    ctx,     \* "live", or the first of the two errors
    code,    \* responseRecorder.code
    wrote,   \* responseRecorder.wroteHeader
    told,    \* the identity headers the upstream was asked with
    counts,  \* Registry.counts, per route and status
    events   \* the audit events of a request

identity == <<req, header, actor>>
metrics == <<counts, events>>
recorder == <<code, wrote>>
dispatcherVars == <<identity, pc, entry, ctx, recorder, told, metrics>>

\* "upstream" stands for whatever final status the upstream gives.
Status == {"upstream", "early", "200", "403", "429", "500", "502"}

Nobody == [tenant |-> None, subject |-> None, roles |-> {}, corr |-> None, id |-> None]

RouteOf(r) == Routes[entry[r]]

-----------------------------------------------------------------------------
(* Matching. *)

\* Empty segments are dropped, from patterns and from paths.
SplitPath(path) == SelectSeq(path, LAMBDA seg : seg # Slash)

MatchPath(pattern, path) ==
    LET p == SplitPath(pattern)
        s == SplitPath(path)
    IN Len(p) = Len(s) /\ \A i \in DOMAIN p : p[i] \in {Param, s[i]}

\* The first route in declaration order, 0 for none.
MatchEntry(r) ==
    SelectInSeq(Routes,
        LAMBDA rt : rt.method = req[r].method /\ MatchPath(rt.path, req[r].path))

-----------------------------------------------------------------------------
DispatcherInit ==
    /\ entry = [r \in Request |-> 0]
    /\ ctx = [r \in Request |-> "live"]
    /\ code = [r \in Request |-> "200"]
    /\ wrote = [r \in Request |-> FALSE]
    /\ told = [r \in Request |-> None]
    /\ counts = [i \in DOMAIN Routes |-> [s \in Status |-> 0]]
    /\ events = [r \in Request |-> {}]

Goto(r, from, to) ==
    /\ pc[r] = from
    /\ pc' = [pc EXCEPT ![r] = to]

\* responseRecorder.WriteHeader: the first status is kept, all are passed on.
WriteHeader(r, status) ==
    /\ code' = [code EXCEPT ![r] = IF wrote[r] THEN @ ELSE status]
    /\ wrote' = [wrote EXCEPT ![r] = TRUE]

-----------------------------------------------------------------------------
(* ServeHTTP and the route's chain. *)

Match(r) ==
    /\ MatchEntry(r) # 0
    /\ Goto(r, "new", "entered")
    /\ entry' = [entry EXCEPT ![r] = MatchEntry(r)]
    /\ UNCHANGED <<identity, ctx, recorder, told, metrics>>

\* 404 ROUTE_NOT_FOUND, outside of every observation.
NotFound(r) ==
    /\ MatchEntry(r) = 0
    /\ Goto(r, "new", "done")
    /\ UNCHANGED <<identity, entry, ctx, recorder, told, metrics>>

\* Mutant: one of the required roles is enough.
AllowedByOne(r) ==
    /\ RouteOf(r).tenantRequired => actor[r].tenant # None
    /\ RouteOf(r).roles # {} => RouteOf(r).roles \cap actor[r].roles # {}

\* EnforceTenant, then every required role, by the request's context.
Allowed(r) ==
    /\ RouteOf(r).tenantRequired => actor[r].tenant # None
    /\ RouteOf(r).roles \subseteq actor[r].roles

\* 403, or an SSE stream too many of the tenant.
Refuse(r, status) ==
    /\ Goto(r, "entered", "handled")
    /\ WriteHeader(r, status)
    /\ UNCHANGED <<identity, entry, ctx, told, metrics>>

Forbid(r) == Refuse(r, "403") /\ ~Allowed(r)

Busy(r) == Refuse(r, "429") /\ Allowed(r) /\ RouteOf(r).sse

\* Mutant: a header that is there is taken for one that a plugin has set.
InjectUpstreamHeadersIfAbsent(h, a) ==
    [tenant  |-> IF h.tenant # None THEN h.tenant ELSE a.tenant,
     subject |-> IF h.subject # None THEN h.subject ELSE a.subject,
     roles   |-> IF h.roles # {} THEN h.roles ELSE a.roles,
     corr    |-> a.corr,
     id      |-> a.id]

\* The Director's: what the context holds is set over the headers, the two ids
\* also when it holds none.
InjectUpstreamHeaders(h, a) ==
    [tenant  |-> IF a.tenant # None THEN a.tenant ELSE h.tenant,
     subject |-> IF a.subject # None THEN a.subject ELSE h.subject,
     roles   |-> IF a.roles # {} THEN a.roles ELSE h.roles,
     corr    |-> a.corr,
     id      |-> a.id]

\* The SSE proxy's: the headers as they are, and the ids that the context holds.
CloneHeaders(h, a) ==
    [h EXCEPT !.corr = IF a.corr # None THEN a.corr ELSE @,
              !.id   = IF a.id # None THEN a.id ELSE @]

UpstreamHeaders(r) == IF RouteOf(r).sse THEN CloneHeaders(header[r], actor[r])
                                        ELSE InjectUpstreamHeaders(header[r], actor[r])

Proxy(r) ==
    /\ Goto(r, "entered", "dialing")
    /\ Allowed(r)
    /\ told' = [told EXCEPT ![r] = UpstreamHeaders(r)]
    /\ UNCHANGED <<identity, entry, ctx, recorder, metrics>>

-----------------------------------------------------------------------------
(* httputil.ReverseProxy, and its SSE counterpart. *)

\* A 1xx of the upstream is forwarded through the recorder's WriteHeader; the
\* SSE proxy calls the transport itself, which drops it.
Inform(r) ==
    /\ pc[r] = "dialing" /\ ~wrote[r] /\ ~RouteOf(r).sse
    /\ WriteHeader(r, "early")
    /\ UNCHANGED <<identity, pc, entry, ctx, told, metrics>>

UpstreamAnswers(r) ==
    /\ Goto(r, "dialing", "copying")
    /\ WriteHeader(r, "upstream")
    /\ UNCHANGED <<identity, entry, ctx, told, metrics>>

\* The upstream's own error, or the context's.
RoundTripFails(r) ==
    /\ Goto(r, "dialing", "failed")
    /\ UNCHANGED <<identity, entry, ctx, recorder, told, metrics>>

\* Mutant: the upstream that is not there is reported as a missing route.
HandleErrorAsMissing(r) ==
    /\ Goto(r, "failed", "handled")
    /\ WriteHeader(r, IF ctx[r] = "deadline" THEN "500" ELSE "404")
    /\ UNCHANGED <<identity, entry, ctx, told, metrics>>

\* ErrorHandler: what the context says by then decides.  The SSE proxy answers
\* a client that has left with nothing.
HandleError(r) ==
    /\ Goto(r, "failed", "handled")
    /\ IF RouteOf(r).sse /\ ctx[r] = "canceled"
       THEN UNCHANGED recorder
       ELSE WriteHeader(r, IF ctx[r] = "deadline" THEN "500" ELSE "502")
    /\ UNCHANGED <<identity, entry, ctx, told, metrics>>

\* The end of the body; of an SSE stream, also its failure.
CopyEnds(r) ==
    /\ Goto(r, "copying", "handled")
    /\ UNCHANGED <<identity, entry, ctx, recorder, told, metrics>>

\* The body breaks off, or the client or the deadline ends it: the reverse
\* proxy panics with ErrAbortHandler, through observeHandler.
CopyBreaks(r) ==
    /\ Goto(r, "copying", "aborted")
    /\ ~RouteOf(r).sse
    /\ UNCHANGED <<identity, entry, ctx, recorder, told, metrics>>

-----------------------------------------------------------------------------
(* observeHandler, after the handler has returned. *)

Record(r) ==
    /\ Goto(r, "handled", "recorded")
    /\ counts' = [counts EXCEPT ![entry[r]][code[r]] = @ + 1]
    /\ UNCHANGED <<identity, entry, ctx, recorder, told, events>>

\* The code is the recorder's, the names are those of the context.
Event(r) == [route |-> entry[r], status |-> code[r],
             tenant |-> actor[r].tenant, subject |-> actor[r].subject]

\* Mutant: refusals are not audited.
AuditServed(r) ==
    /\ Goto(r, "recorded", "done")
    /\ events' = [events EXCEPT
          ![r] = IF RouteOf(r).audit /\ code[r] # "403" THEN @ \cup {Event(r)} ELSE @]
    /\ UNCHANGED <<identity, entry, ctx, recorder, told, counts>>

Audit(r) ==
    /\ Goto(r, "recorded", "done")
    /\ events' = [events EXCEPT ![r] = IF RouteOf(r).audit THEN @ \cup {Event(r)} ELSE @]
    /\ UNCHANGED <<identity, entry, ctx, recorder, told, counts>>

-----------------------------------------------------------------------------
(* The client and the deadline. *)

InProxy(r) == pc[r] \in {"dialing", "failed", "copying"}

Disconnect(r) ==
    /\ InProxy(r) /\ ctx[r] = "live"
    /\ ctx' = [ctx EXCEPT ![r] = "canceled"]
    /\ UNCHANGED <<identity, pc, entry, recorder, told, metrics>>

\* Mutant: the deadline covers the wait for the header and not the body.
DeadlineForHeader(r) ==
    /\ pc[r] = "dialing" /\ RouteOf(r).timed /\ ctx[r] = "live"
    /\ ctx' = [ctx EXCEPT ![r] = "deadline"]
    /\ UNCHANGED <<identity, pc, entry, recorder, told, metrics>>

\* executionTimeoutSeconds, and 30 more on SSE routes, after the proxy was entered.
Deadline(r) ==
    /\ InProxy(r) /\ RouteOf(r).timed /\ ctx[r] = "live"
    /\ ctx' = [ctx EXCEPT ![r] = "deadline"]
    /\ UNCHANGED <<identity, pc, entry, recorder, told, metrics>>

-----------------------------------------------------------------------------
Proceed(r) ==
    \/ Forbid(r) \/ Busy(r) \/ Proxy(r) \/ HandleError(r) \/ Record(r) \/ Audit(r)

\* Once the context is done, RoundTrip and the copy return its error.
GiveUp(r) ==
    /\ ctx[r] # "live"
    /\ \/ RoundTripFails(r)
       \/ CopyBreaks(r)
       \/ CopyEnds(r) /\ RouteOf(r).sse

DispatcherStep(r) ==
    \/ Match(r) \/ NotFound(r) \/ Proceed(r)
    \/ Inform(r) \/ UpstreamAnswers(r) \/ RoundTripFails(r)
    \/ CopyEnds(r) \/ CopyBreaks(r)
    \/ Disconnect(r) \/ Deadline(r)

Ended == {"done", "aborted"}
=============================================================================
