------------------------------- MODULE ChildRun -------------------------------
(***************************************************************************)
(* The command that `irimi shadow` or `irimi replay` runs under an engine, *)
(* from the engine's start to the store's close (run_child, runner.Child,  *)
(* wait_for_child).                                                        *)
(*                                                                         *)
(* It is one thread, and signals are what interleaves with it: a SIGTERM's *)
(* handler runs between any two of its steps, and a Ctrl-C raises          *)
(* KeyboardInterrupt there.  The command may exit at any moment, or never. *)
(* A replay's command may be replay/child.py, which calls a trigger and    *)
(* leaves its outcome in a file.                                           *)
(***************************************************************************)
EXTENDS Integers

CONSTANTS
    ReturnCodes,  \* what Popen reports of a command: its exit code, or -N
    MaxTerms,     \* bound: the SIGTERMs irimi receives
    MaxCtrlCs     \* bound: the Ctrl-Cs

ASSUME ChildAssumption ==
    /\ ReturnCodes \subseteq -127..255
    /\ MaxTerms \in Nat
    /\ MaxCtrlCs \in Nat

VARIABLES
    pc,          \* where run_child is
    terminated,  \* Child.terminated
    interrupted, \* Child.interrupted
    adopted,     \* Child._proc is set
    status,      \* ran.status
    code,        \* ran.code
    stopped,     \* ran.stopped, or Unstopped
    call,        \* ran.call: how the replayed call ended, or "none"
    engine,      \* whether the proxy runs
    run,         \* the stored run: "none", "started", or its end
    child,       \* the command: "none", "running", "exited", "reaped"
    told,        \* the signals irimi sent it
    calls,       \* spec.call: it is replay/child.py
    trigger,     \* how far that is: "loading", "calling", or what its outcome file says
    terms, ctrlCs,
    hit          \* history: where Ctrl-Cs landed

childRunVars == <<pc, terminated, interrupted, adopted, status, code, stopped, call, engine, run,
                  child, told, calls, trigger, terms, ctrlCs, hit>>
signalVars == <<terminated, interrupted, terms, ctrlCs, hit>>
resultVars == <<status, code, stopped, call>>
agentVars == <<calls, trigger>>
childVars == <<adopted, child, told, agentVars>>

ERROR == 2
CannotRun == {126, 127}  \* not executable, not found
SIGINT == 130
SIGTERM == 143
Unstopped == 0
KILLED == -9  \* what wait_for_child returns for a command that even SIGKILL did not reap

ChildRunInit ==
    /\ pc = "starting"
    /\ terminated = FALSE /\ interrupted = FALSE
    /\ adopted = FALSE
    /\ status = "interrupted" /\ code = SIGINT
    /\ stopped = Unstopped /\ call = "none"
    /\ engine = "down"
    /\ run = "none"
    /\ child = "none" /\ told = {}
    /\ calls = FALSE /\ trigger = "loading"
    /\ terms = 0 /\ ctrlCs = 0 /\ hit = {}

-----------------------------------------------------------------------------
(* Before the command.                                                      *)

\* start_engine returns a bound proxy, or stops it and says why; a command that
\* cannot start is refused before that.
StartEngine ==
    /\ pc = "starting"
    /\ \/ engine' = "up" /\ pc' = "ready" /\ UNCHANGED resultVars
       \/ /\ engine' = "down" /\ pc' = "closing" /\ status' = "not-started"
          /\ \E c \in {ERROR} \cup CannotRun : code' = c
          /\ UNCHANGED <<stopped, call>>
    /\ UNCHANGED <<signalVars, run, childVars>>

\* A SIGTERM that came while irimi started.
CheckTerminated ==
    /\ pc = "ready"
    /\ \/ /\ terminated
          /\ status' = "not-started" /\ code' = SIGTERM
          /\ pc' = "finally"
          /\ UNCHANGED <<stopped, call>>
       \/ ~terminated /\ UNCHANGED resultVars /\ pc' = "checked"
    /\ UNCHANGED <<signalVars, engine, run, childVars>>

\* The run is stored before the command exists,
StoreStart ==
    /\ pc = "checked"
    /\ run' = "started"
    /\ pc' = "stored"
    /\ UNCHANGED <<signalVars, resultVars, engine, childVars>>

\* and its status says so a statement later.
MarkRan ==
    /\ pc = "stored"
    /\ status' = "ran"
    /\ pc' = "spawning"
    /\ UNCHANGED <<signalVars, code, stopped, call, engine, run, childVars>>

\* Popen makes the command, or raises.
Spawn ==
    /\ pc = "spawning"
    /\ \/ child' = "running" /\ pc' = "spawned" /\ UNCHANGED resultVars
       \/ /\ status' = "not-spawned"
          /\ \E c \in CannotRun : code' = c
          /\ pc' = "finally"
          /\ UNCHANGED <<child, stopped, call>>
    /\ UNCHANGED <<signalVars, engine, run, adopted, told, agentVars>>

Adopt ==
    /\ pc = "spawned"
    /\ adopted' = TRUE
    /\ pc' = "adopted"
    /\ UNCHANGED <<signalVars, resultVars, engine, run, child, told, agentVars>>

\* Mutant: a SIGTERM held while the command started is forgotten.
ForgetHeld ==
    /\ pc = "adopted"
    /\ pc' = "waiting"
    /\ UNCHANGED <<signalVars, resultVars, engine, run, childVars>>

\* A SIGTERM held while the command started is passed on.
PassHeld ==
    /\ pc = "adopted"
    /\ told' = IF terminated THEN told \cup {"term"} ELSE told
    /\ pc' = "waiting"
    /\ UNCHANGED <<signalVars, resultVars, engine, run, adopted, child, agentVars>>

-----------------------------------------------------------------------------
(* The command, and the wait for it.                                        *)

ChildExits ==
    /\ child = "running"
    /\ child' = "exited"
    /\ UNCHANGED <<pc, signalVars, resultVars, engine, run, adopted, told, agentVars>>

\* The replay's child could not import or bind what it should call, and says so;
CannotCall ==
    /\ calls /\ child = "running" /\ trigger = "loading"
    /\ trigger' = "not-called"
    /\ UNCHANGED <<pc, signalVars, resultVars, engine, run, adopted, child, told, calls>>

\* or it calls it,
Call ==
    /\ calls /\ child = "running" /\ trigger = "loading"
    /\ trigger' = "calling"
    /\ UNCHANGED <<pc, signalVars, resultVars, engine, run, adopted, child, told, calls>>

\* and says how that ended.  A child that is killed, or cannot write, says nothing.
CallEnds ==
    /\ child = "running" /\ trigger = "calling"
    /\ trigger' \in {"returned", "raised"}
    /\ UNCHANGED <<pc, signalVars, resultVars, engine, run, adopted, child, told, calls>>

\* read_call_outcome.
Outcome == IF calls /\ trigger \notin {"loading", "calling"} THEN trigger ELSE "none"

\* exit_code_for: the shell's 128 + N for a command killed by signal N.
ExitCodeFor(rc) == IF rc < 0 THEN 128 - rc ELSE rc

Waits == {"waiting", "grace", "terminating", "killing"}

\* proc.wait() reaps the command in whichever wait it exits.
Reap ==
    /\ pc \in Waits
    /\ child = "exited"
    /\ child' = "reaped"
    /\ \E rc \in ReturnCodes : code' = ExitCodeFor(rc)
    /\ pc' = "judging"
    /\ UNCHANGED <<signalVars, status, stopped, call, engine, run, adopted, told, agentVars>>

\* CHILD_GRACE_S after a Ctrl-C the command is terminated,
GraceEnds ==
    /\ pc = "grace"
    /\ told' = told \cup {"term"}
    /\ pc' = "terminating"
    /\ UNCHANGED <<signalVars, resultVars, engine, run, adopted, child, agentVars>>

\* then killed,
TerminateEnds ==
    /\ pc = "terminating"
    /\ told' = told \cup {"kill"}
    /\ pc' = "killing"
    /\ UNCHANGED <<signalVars, resultVars, engine, run, adopted, child, agentVars>>

\* Mutant: the last wait has no timeout.
NeverGiveUp ==
    /\ pc = "killing"
    /\ child = "exited"
    /\ code' = ExitCodeFor(KILLED)
    /\ pc' = "judging"
    /\ UNCHANGED <<signalVars, status, stopped, call, engine, run, childVars>>

\* and then given up on.
GiveUp ==
    /\ pc = "killing"
    /\ code' = ExitCodeFor(KILLED)
    /\ pc' = "judging"
    /\ UNCHANGED <<signalVars, status, stopped, call, engine, run, childVars>>

\* Whether irimi was told to stop while the command ran.
Judge ==
    /\ pc = "judging"
    /\ stopped' = IF terminated THEN SIGTERM ELSE IF interrupted THEN SIGINT ELSE stopped
    /\ pc' = "finally"
    /\ UNCHANGED <<signalVars, status, code, call, engine, run, childVars>>

-----------------------------------------------------------------------------
(* The end.                                                                 *)

\* read_call_outcome and end_process_run, for a run that was stored.
EndRun ==
    /\ pc = "finally"
    /\ \/ /\ status \in {"ran", "not-spawned"}
          /\ call' = Outcome
          /\ run' = IF code = 0 THEN "ok" ELSE "error"
       \/ status \notin {"ran", "not-spawned"} /\ UNCHANGED <<call, run>>
    /\ pc' = "stopping"
    /\ UNCHANGED <<signalVars, status, code, stopped, engine, childVars>>

StopEngine ==
    /\ pc = "stopping"
    /\ engine' = "down"
    /\ pc' = "closing"
    /\ UNCHANGED <<signalVars, resultVars, run, childVars>>

\* Run.__exit__.
CloseStore ==
    /\ \/ pc = "closing" /\ pc' = "done"
       \/ pc = "raising" /\ pc' = "raised"
    /\ UNCHANGED <<signalVars, resultVars, engine, run, childVars>>

-----------------------------------------------------------------------------
(* Signals.                                                                 *)

\* Child.on_sigterm: kept, and passed on to a command that was not reaped.
Sigterm ==
    /\ terms < MaxTerms
    /\ terms' = terms + 1
    /\ terminated' = TRUE
    /\ told' = IF adopted /\ child # "reaped" THEN told \cup {"term"} ELSE told
    /\ UNCHANGED <<pc, interrupted, resultVars, engine, run, adopted, child, agentVars, ctrlCs,
                   hit>>

\* A Ctrl-C lands at a place.
CtrlCAt(place) ==
    /\ ctrlCs < MaxCtrlCs
    /\ ctrlCs' = ctrlCs + 1
    /\ hit' = hit \cup {place}
    /\ UNCHANGED <<terminated, terms>>

CtrlC == CtrlCAt(pc)

\* While the proxy starts: nothing was stored.
InterruptStart ==
    /\ pc = "starting"
    /\ CtrlC
    /\ status' = "not-started" /\ code' = SIGINT
    /\ pc' = "closing"
    /\ UNCHANGED <<interrupted, stopped, call, engine, run, childVars>>

\* The first one in the wait is the command's too, which gets time to exit;
\* a second one cuts that short.
InterruptWait ==
    /\ CtrlC
    /\ \/ pc = "waiting" /\ interrupted' = TRUE /\ pc' = "grace" /\ UNCHANGED told
       \/ pc = "grace" /\ told' = told \cup {"term"} /\ pc' = "terminating" /\ UNCHANGED interrupted
    /\ UNCHANGED <<resultVars, engine, run, adopted, child, agentVars>>

\* Anywhere else in its try block, a Ctrl-C ends run_child's work at once.
InterruptWork ==
    /\ pc \in {"ready", "checked", "stored", "spawning", "spawned", "adopted",
               "terminating", "killing", "judging"}
    /\ CtrlC
    /\ code' = SIGINT /\ stopped' = SIGINT
    /\ pc' = "finally"
    /\ UNCHANGED <<interrupted, status, call, engine, run, childVars>>

\* In its finally block it leaves the rest of that out, and goes on up.
InterruptFinally ==
    /\ pc = "finally"
    /\ CtrlC
    /\ pc' = "raising"
    /\ UNCHANGED <<interrupted, resultVars, engine, run, childVars>>

\* Only the stops of the engine and of the store expect one, which cuts them short.
InterruptStop ==
    /\ CtrlC
    /\ \/ pc = "stopping" /\ pc' = "closing"
       \/ pc = "closing" /\ pc' = "done"
    /\ UNCHANGED <<interrupted, resultVars, engine, run, childVars>>

-----------------------------------------------------------------------------

\* What run_child does next, waits that run out of time included.
Proceed ==
    \/ StartEngine \/ CheckTerminated \/ StoreStart \/ MarkRan \/ Spawn \/ Adopt \/ PassHeld
    \/ Reap \/ GraceEnds \/ TerminateEnds \/ GiveUp \/ Judge
    \/ EndRun \/ StopEngine \/ CloseStore

ChildRunNext ==
    \/ Proceed
    \/ ChildExits \/ CannotCall \/ Call \/ CallEnds
    \/ InterruptStart \/ InterruptWait \/ InterruptWork \/ InterruptFinally \/ InterruptStop

-----------------------------------------------------------------------------
(* What run_child promises.                                                 *)

\* A SIGTERM is never lost: whenever it came, irimi does not wait for a command
\* that was not told of it (Child.on_sigterm, Child.adopt).
TermReachesChild == pc \in Waits /\ terminated /\ child = "running" => "term" \in told

\* A running command has a stored run and a proxy for as long as it runs, unless
\* SIGKILL did not end it or a Ctrl-C landed outside the wait that expects it
\* (wait_for_child, run_child's finally).
CommandKeepsRunAndProxy ==
    child = "running" /\ hit \subseteq {"waiting", "grace"} =>
        (engine = "up" /\ run = "started") \/ "kill" \in told

\* A stored run is ended, however the command and the signals come, but for a
\* Ctrl-C between start_run and the next statement, or in the finally block.
StoredRunsEnd ==
    pc \in {"done", "raised"} /\ run = "started" => hit \cap {"stored", "finally"} # {}

\* A command gets every SIGTERM, its proxy and its stored run for as long as it
\* runs, and the run gets its end.
CommandLookedAfter == TermReachesChild /\ CommandKeepsRunAndProxy /\ StoredRunsEnd

=============================================================================
