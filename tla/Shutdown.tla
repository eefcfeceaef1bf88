------------------------------- MODULE Shutdown -------------------------------
(***************************************************************************)
(* The end of the process: main's goroutine in ListenAndServe, the signal *)
(* goroutine that gates, drains and shuts the plugins down, and the       *)
(* goroutines of the requests that are there meanwhile.  When main        *)
(* returns, the process is gone, with every other goroutine.  The names    *)
(* are not Boot's, so that MainProofs can extend both.                      *)
(***************************************************************************)
EXTENDS Integers

CONSTANTS
    Request,  \* proxied requests; the probes bypass gate and plugins
    Plugins   \* how many plugins the loader has initialised

ASSUME PluginsAssumption == Plugins \in Nat

VARIABLES
    main,     \* "starting", "serving", "leaving" or "exited"
    sig,      \* signal goroutine: "waiting", "signalled", "gated", "draining",
              \* "plugins" or "done"
    gate,     \* shuttingDown
    closing,  \* http.Server.inShutdown: Shutdown has closed the listeners
    expired,  \* has GATEWAY_SHUTDOWN_TIMEOUT_S passed since the gate was set?
    index,    \* i of Loader.Shutdown's loop, counted from 1
    down,     \* plugins whose Shutdown has been called
    req       \* per request: "none", "active", "refused", "inside", "served", "cut"

shutdownVars == <<main, sig, gate, closing, expired, index, down, req>>
process == <<main, sig, gate, closing, expired, index, down>>

Alive == main # "exited"

\* Connections that Server.Shutdown waits for.
Busy == {r \in Request : req[r] \in {"active", "inside"}}

ShutdownInit ==
    /\ main = "starting"
    /\ sig = "waiting"
    /\ gate = FALSE
    /\ closing = FALSE
    /\ expired = FALSE
    /\ index = Plugins
    /\ down = {}
    /\ req = [r \in Request |-> "none"]

-----------------------------------------------------------------------------
(* main. *)

Listen ==
    /\ main = "starting" /\ ~closing
    /\ main' = "serving"
    /\ UNCHANGED <<sig, gate, closing, expired, index, down, req>>

\* Mutant: the server returns when its last connection has.
ListenAndServeReturnsIdle ==
    /\ main \in {"starting", "serving"} /\ closing /\ Busy = {}
    /\ main' = "leaving"
    /\ UNCHANGED <<sig, gate, closing, expired, index, down, req>>

\* ErrServerClosed, as soon as the listeners are closed.
ListenAndServeReturns ==
    /\ main \in {"starting", "serving"} /\ closing
    /\ main' = "leaving"
    /\ UNCHANGED <<sig, gate, closing, expired, index, down, req>>

\* The deferred closeAudit, and main returns: what is inside is cut off.
Exit ==
    /\ main = "leaving"
    /\ main' = "exited"
    /\ req' = [r \in Request |-> IF r \in Busy THEN "cut" ELSE req[r]]
    /\ UNCHANGED <<sig, gate, closing, expired, index, down>>

\* The listener cannot be opened, or fails: os.Exit(1).
ListenFails ==
    /\ main \in {"starting", "serving"} /\ ~closing
    /\ main' = "exited"
    /\ req' = [r \in Request |-> IF r \in Busy THEN "cut" ELSE req[r]]
    /\ UNCHANGED <<sig, gate, closing, expired, index, down>>

-----------------------------------------------------------------------------
(* The signal goroutine. *)

Sig(from, to) ==
    /\ Alive
    /\ sig = from
    /\ sig' = to

\* SIGTERM or SIGINT; a second one stays in the channel and is never read.
Signal ==
    /\ Sig("waiting", "signalled")
    /\ UNCHANGED <<main, gate, closing, expired, index, down, req>>

SetGate ==
    /\ Sig("signalled", "gated")
    /\ gate' = TRUE
    /\ UNCHANGED <<main, closing, expired, index, down, req>>

BeginDrain ==
    /\ Sig("gated", "draining")
    /\ closing' = TRUE
    /\ UNCHANGED <<main, gate, expired, index, down, req>>

\* Mutant: the plugins are shut down without waiting for the connections.
EndDrainAtOnce ==
    /\ Sig("draining", "plugins")
    /\ UNCHANGED <<main, gate, closing, expired, index, down, req>>

\* Server.Shutdown returns: nothing is busy, or the window has passed.
EndDrain ==
    /\ Busy = {} \/ expired
    /\ Sig("draining", "plugins")
    /\ UNCHANGED <<main, gate, closing, expired, index, down, req>>

WindowPasses ==
    /\ Alive /\ gate /\ ~expired
    /\ expired' = TRUE
    /\ UNCHANGED <<main, sig, gate, closing, index, down, req>>

\* Mutant: the loop runs once too often.
ShutPluginOnceMore ==
    /\ index >= 0
    /\ Sig("plugins", "plugins")
    /\ down' = down \cup {index}
    /\ index' = index - 1
    /\ UNCHANGED <<main, gate, closing, expired, req>>

\* One round of Loader.Shutdown's loop; an error is logged and not returned.
ShutPlugin ==
    /\ index >= 1
    /\ Sig("plugins", "plugins")
    /\ down' = down \cup {index}
    /\ index' = index - 1
    /\ UNCHANGED <<main, gate, closing, expired, req>>

EndPlugins ==
    /\ index = 0
    /\ Sig("plugins", "done")
    /\ UNCHANGED <<main, gate, closing, expired, index, down, req>>

-----------------------------------------------------------------------------
(* The requests. *)

\* A request arrives on a connection that was accepted.
Arrive(r) ==
    /\ main = "serving" /\ ~closing
    /\ req[r] = "none"
    /\ req' = [req EXCEPT ![r] = "active"]
    /\ UNCHANGED process

\* withShutdownGate: 503, or on to the plugin chain.
PassGate(r) ==
    /\ Alive
    /\ req[r] = "active"
    /\ req' = [req EXCEPT ![r] = IF gate THEN "refused" ELSE "inside"]
    /\ UNCHANGED process

ServeRequest(r) ==
    /\ Alive
    /\ req[r] = "inside"
    /\ req' = [req EXCEPT ![r] = "served"]
    /\ UNCHANGED process

-----------------------------------------------------------------------------
SignalGoroutine ==
    SetGate \/ BeginDrain \/ EndDrain \/ ShutPlugin \/ EndPlugins

Main == Listen \/ ListenAndServeReturns \/ Exit

ShutdownNext ==
    \/ Main \/ ListenFails
    \/ Signal \/ SignalGoroutine \/ WindowPasses
    \/ \E r \in Request : Arrive(r) \/ PassGate(r) \/ ServeRequest(r)

ShutdownSpec == ShutdownInit /\ [][ShutdownNext]_shutdownVars

\* Both goroutines run when they can, and the timer fires.  A handler need not
\* return: a stream may last.
Fairness ==
    /\ WF_shutdownVars(Main)
    /\ WF_shutdownVars(SignalGoroutine)
    /\ WF_shutdownVars(WindowPasses)

FairSpec == ShutdownSpec /\ Fairness

-----------------------------------------------------------------------------
(* Properties. *)

ShutdownTypeOK ==
    /\ main \in {"starting", "serving", "leaving", "exited"}
    /\ sig \in {"waiting", "signalled", "gated", "draining", "plugins", "done"}
    /\ gate \in BOOLEAN /\ closing \in BOOLEAN /\ expired \in BOOLEAN
    /\ index \in 0 .. Plugins
    /\ down \in SUBSET (1 .. Plugins)
    /\ req \in [Request -> {"none", "active", "refused", "inside", "served", "cut"}]

\* Within the shutdown window no request is inside the plugin chain once a
\* plugin's Shutdown has been called, whatever was accepted while the gate was
\* being set (main.go:138-146, 161).
PluginsOutliveRequests ==
    down # {} /\ ~expired => \A r \in Request : req[r] # "inside"

\* A signal ends the process, also when a stream never ends (main.go:137-153).
SignalStops == sig = "signalled" ~> main = "exited"

\* config.go:36-37: "The gateway drains in-flight requests and runs
\* plugin.Shutdown within this window before exiting": a request that was in
\* flight when the drain began is not cut off while the window lasts.
GracefulExit ==
    main = "exited" /\ closing /\ ~expired => \A r \in Request : req[r] # "cut"
=============================================================================
