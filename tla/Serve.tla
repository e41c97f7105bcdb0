------------------------------- MODULE Serve -------------------------------
(***************************************************************************)
(* `irimi serve`: the main thread that starts the engine and waits, the    *)
(* thread that watches the engine's, the engine, which may stop on its     *)
(* own, and the signals, whose handler only appends to a list.             *)
(***************************************************************************)
EXTENDS Integers

CONSTANTS
    MaxSignals  \* bound: the SIGINTs and SIGTERMs serve gets

ASSUME ServeAssumption == MaxSignals \in Nat

VARIABLES
    serving,    \* where _run_serve is
    signalled,  \* how many signals it was told of
    stop,       \* the event: serve is to stop
    died,       \* the event: the engine stopped unasked
    watcher,    \* watch_engine: "none", "joining", "unasked", "asked", "ended"
    proxy,      \* the engine's thread: "none", "up", "ended"
    lock,       \* serve holds serve.lock and the store
    asked,      \* history: its caller set `stop`
    served      \* the exit code, or -1

serveVars == <<serving, signalled, stop, died, watcher, proxy, lock, asked, served>>
endVars == <<asked, served>>

FAILED == 2
STOPPED == 0

ServeInit ==
    /\ serving = "preparing"
    /\ signalled = 0
    /\ stop = FALSE /\ died = FALSE
    /\ watcher = "none"
    /\ proxy = "none"
    /\ lock = FALSE
    /\ asked = FALSE
    /\ served = -1

-----------------------------------------------------------------------------
(* The main thread.                                                         *)

\* prepare_run takes the store and its lock, or says why it cannot.
PrepareServe ==
    /\ serving = "preparing"
    /\ \/ lock' = TRUE /\ serving' = "prepared" /\ UNCHANGED served
       \/ served' = FAILED /\ serving' = "exited" /\ UNCHANGED lock
    /\ UNCHANGED <<signalled, stop, died, watcher, proxy, asked>>

\* A signal that came meanwhile stops serve before it has an engine.
CheckSignalled ==
    /\ serving = "prepared"
    /\ \/ signalled > 0 /\ served' = STOPPED /\ serving' = "closing"
       \/ signalled = 0 /\ serving' = "starting" /\ UNCHANGED served
    /\ UNCHANGED <<signalled, stop, died, watcher, proxy, lock, asked>>

StartProxy ==
    /\ serving = "starting"
    /\ \/ proxy' = "up" /\ serving' = "started" /\ UNCHANGED served
       \/ served' = FAILED /\ serving' = "closing" /\ UNCHANGED proxy
    /\ UNCHANGED <<signalled, stop, died, watcher, lock, asked>>

StartWatcher ==
    /\ serving = "started"
    /\ watcher' = "joining"
    /\ serving' = "waiting"
    /\ UNCHANGED <<signalled, stop, died, proxy, lock, endVars>>

\* The wait looks at both every SERVE_POLL_S.
Wait ==
    /\ serving = "waiting"
    /\ signalled > 0 \/ stop
    /\ serving' = "stopping"
    /\ UNCHANGED <<signalled, stop, died, watcher, proxy, lock, endVars>>

SetStop ==
    /\ serving = "stopping"
    /\ stop' = TRUE
    /\ serving' = "stopped"
    /\ UNCHANGED <<signalled, died, watcher, proxy, lock, endVars>>

\* EngineThread.stop joins the engine's thread, for STOP_TIMEOUT_S at most.
StopProxy ==
    /\ serving = "stopped"
    /\ proxy' \in {"ended", proxy}
    /\ serving' = "closing"
    /\ UNCHANGED <<signalled, stop, died, watcher, lock, endVars>>

\* Run.__exit__.
CloseServe ==
    /\ serving = "closing"
    /\ lock' = FALSE
    /\ serving' = "closed"
    /\ UNCHANGED <<signalled, stop, died, watcher, proxy, endVars>>

\* A serve that ran reports an engine that died; the process takes its threads with it.
ExitServe ==
    /\ serving = "closed"
    /\ served' = IF served # -1 THEN served ELSE IF died THEN FAILED ELSE STOPPED
    /\ serving' = "exited"
    /\ UNCHANGED <<signalled, stop, died, watcher, proxy, lock, asked>>

-----------------------------------------------------------------------------
(* The other threads, and signals.                                          *)

\* The engine stops on its own.
ProxyEnds ==
    /\ proxy = "up"
    /\ proxy' = "ended"
    /\ UNCHANGED <<serving, signalled, stop, died, watcher, lock, endVars>>

\* watch_engine asks whether serve stopped the engine when its thread has ended,
WatcherAsks ==
    /\ watcher = "joining" /\ proxy = "ended" /\ serving # "exited"
    /\ watcher' = IF stop THEN "asked" ELSE "unasked"
    /\ UNCHANGED <<serving, signalled, stop, died, proxy, lock, endVars>>

\* Mutant: it stops serve first.
StopThenDied ==
    /\ watcher = "unasked" /\ serving # "exited"
    /\ \/ ~stop /\ stop' = TRUE /\ UNCHANGED <<died, watcher>>
       \/ stop /\ died' = TRUE /\ watcher' = "asked" /\ UNCHANGED stop
    /\ UNCHANGED <<serving, signalled, proxy, lock, endVars>>

\* notes that it did not,
WatcherTells ==
    /\ watcher = "unasked" /\ serving # "exited"
    /\ died' = TRUE
    /\ watcher' = "asked"
    /\ UNCHANGED <<serving, signalled, stop, proxy, lock, endVars>>

\* and then stops serve.
WatcherStops ==
    /\ watcher = "asked" /\ serving # "exited"
    /\ stop' = TRUE
    /\ watcher' = "ended"
    /\ UNCHANGED <<serving, signalled, died, proxy, lock, endVars>>

\* stopping_on_signals.
Signal ==
    /\ serving # "exited" /\ signalled < MaxSignals
    /\ signalled' = signalled + 1
    /\ UNCHANGED <<serving, stop, died, watcher, proxy, lock, endVars>>

\* A caller that runs serve on a thread of its own stops it.
CallerStops ==
    /\ serving # "exited" /\ ~asked
    /\ stop' = TRUE /\ asked' = TRUE
    /\ UNCHANGED <<serving, signalled, died, watcher, proxy, lock, served>>

-----------------------------------------------------------------------------

ServeProceeds ==
    \/ PrepareServe \/ CheckSignalled \/ StartProxy \/ StartWatcher \/ Wait \/ SetStop \/ StopProxy
    \/ CloseServe \/ ExitServe

Watch == WatcherAsks \/ WatcherTells \/ WatcherStops

ServeNext == ServeProceeds \/ Watch \/ ProxyEnds \/ Signal \/ CallerStops

-----------------------------------------------------------------------------
(* What serve promises.                                                     *)

\* The sidecar looks dead exactly when it is: serve exits OK only if a signal or
\* its caller stopped it, and with an error only if it had no engine or lost it;
\* it leaves the store's lock free either way (watch_engine, _run_serve).
DeathIsReported ==
    serving = "exited" =>
        /\ served = STOPPED => signalled > 0 \/ asked
        /\ served = FAILED => proxy # "up"
        /\ ~lock

\* A signal is never lost, wherever it comes, and an engine that dies takes serve
\* with it: serve exits.
ServeEnds == signalled > 0 \/ proxy = "ended" ~> serving = "exited"

=============================================================================
