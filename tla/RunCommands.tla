---------------------------- MODULE RunCommands ----------------------------
(***************************************************************************)
(* `irimi shadow` and `irimi replay`, around the command they run: what a  *)
(* replay calls or runs (replay/plan.py), the refusals, and what the user  *)
(* is told in the end, the exit code and a replay's result file, which is  *)
(* taken to be asked for.                                                  *)
(***************************************************************************)
EXTENDS ChildRun

CONSTANTS
    Typed,    \* the command lines, see TypedLines
    Sources   \* the stored runs they name, see StoredRuns

VARIABLES
    at,       \* where the command is
    banner,   \* which of the two it is
    typed,    \* a replay's arguments, until it is planned
    source,   \* and the run it replays
    plan,     \* replay.plan's Plan
    result,   \* a replay's ReplayResult
    file,     \* what --result-file holds
    exit      \* the exit code, or Running

lineVars == <<banner, typed, source>>
commandVars == <<childRunVars, at, lineVars, plan, result, file, exit>>

Running == -1
OK == 0
DIFFERENT == 1
Unread == [unread |-> TRUE]
NoPlan == [calls |-> FALSE, args |-> "none"]
NoResult == [code |-> Running, names |-> FALSE]

\* What may be typed: -- COMMAND, --entrypoint, --args and --python.
TypedLines ==
    [command : BOOLEAN, call : {"none", "main", "f"}, args : {"none", "values", "description"},
     python : BOOLEAN]

\* What a run's record has of its start: the function that was called, how its
\* arguments were recorded, whether they can be passed again, and the command
\* line of a run that a command started.
StoredRuns ==
    [entrypoint : {"none", "main", "f"}, args : {"nothing", "values", "description", "unredacted"},
     replayable : BOOLEAN, argv : BOOLEAN]

ASSUME CommandsAssumption == Typed \subseteq TypedLines /\ Sources \subseteq StoredRuns

\* What nothing reads any more is forgotten, which bounds the model and no more.
Forgotten(t, s) == t = Unread /\ s = Unread

CommandInit ==
    /\ ChildRunInit
    /\ at = "planning"
    /\ banner \in {"shadow", "replay"}
    /\ IF banner = "replay" THEN typed \in Typed /\ source \in Sources ELSE Forgotten(typed, source)
    /\ plan = NoPlan
    /\ result = NoResult /\ file = NoResult
    /\ exit = Running

-----------------------------------------------------------------------------
(* Before run_child.                                                        *)

\* cmd_replay's UsageErrors.
Misused == typed.command /\ (typed.call # "none" \/ typed.args # "none" \/ typed.python)

\* The function a replay calls, if it calls one.
Entrypoint == IF typed.call # "none" THEN typed.call ELSE source.entrypoint

NotReplayable == source.args # "values" \/ ~source.replayable

Calls == ~typed.command /\ Entrypoint # "none"

Refused ==
    /\ ~typed.command
    /\ IF Entrypoint # "none"
       THEN \/ Entrypoint = "main"
            \/ typed.args = "description"
            \/ typed.args = "none" /\ (NotReplayable \/ (typed.call # "none" /\ source.argv))
       ELSE typed.args # "none" \/ ~source.argv

Say(c, names) == result' = [code |-> c, names |-> names]

\* replay.plan, and the probe of the Python the call is made under; a source
\* that cannot be read is refused too.
PlanReplay ==
    /\ at = "planning"
    /\ banner = "replay"
    /\ \/ /\ Misused
          /\ exit' = ERROR /\ at' = "exited"
          /\ UNCHANGED <<plan, calls, result>>
       \/ /\ ~Misused
          /\ Say(IF terminated THEN SIGTERM ELSE ERROR, FALSE)
          /\ at' = "writing"
          /\ UNCHANGED <<plan, calls, exit>>
       \/ /\ ~Misused /\ ~Refused /\ (typed.python => Calls)
          /\ plan' = [calls |-> Calls,
                      args |-> IF ~Calls THEN "none" ELSE IF typed.args = "none" THEN source.args
                               ELSE typed.args]
          /\ calls' = Calls
          /\ at' = "preparing"
          /\ UNCHANGED <<result, exit>>
    /\ Forgotten(typed', source')
    /\ UNCHANGED <<pc, signalVars, resultVars, engine, run, adopted, child, told, trigger, banner,
                   file>>

\* `irimi shadow` has nothing to plan.
PlanShadow ==
    /\ at = "planning"
    /\ banner = "shadow"
    /\ at' = "preparing"
    /\ UNCHANGED <<childRunVars, lineVars, plan, result, file, exit>>

\* compose.prepare_run opens the store last, or says why not.
Prepare ==
    /\ at = "preparing"
    /\ \/ at' = "running" /\ UNCHANGED <<result, exit>>
       \/ banner = "replay" /\ Say(ERROR, FALSE) /\ at' = "writing" /\ UNCHANGED exit
       \/ banner = "shadow" /\ exit' = ERROR /\ at' = "exited" /\ UNCHANGED result
    /\ UNCHANGED <<childRunVars, lineVars, plan, file>>

-----------------------------------------------------------------------------
(* After it.                                                                *)

\* `irimi shadow` prints its summary and exits as its command did.
EndShadow ==
    /\ at = "running" /\ pc = "done"
    /\ banner = "shadow"
    /\ exit' = code
    /\ at' = "exited"
    /\ UNCHANGED <<childRunVars, lineVars, plan, result, file>>

\* Mutant: a refused replay's run is not named.
JudgeUnnamed ==
    /\ at = "running" /\ pc = "done"
    /\ banner = "replay"
    /\ IF status # "ran" \/ call = "not-called"
       THEN Say(IF code \in {SIGINT, SIGTERM} THEN code ELSE ERROR, FALSE) /\ at' = "writing"
       ELSE at' = "reporting" /\ UNCHANGED result
    /\ UNCHANGED <<childRunVars, lineVars, plan, file, exit>>

\* A replay whose agent never ran, or whose trigger was never called, compares nothing.
JudgeReplay ==
    /\ at = "running" /\ pc = "done"
    /\ banner = "replay"
    /\ \/ /\ status # "ran"
          /\ Say(IF code \in {SIGINT, SIGTERM} THEN code ELSE ERROR, status = "not-spawned")
          /\ at' = "writing"
       \/ /\ status = "ran" /\ call = "not-called"
          /\ Say(IF stopped = Unstopped THEN ERROR ELSE stopped, TRUE)
          /\ at' = "writing"
       \/ /\ status = "ran" /\ call # "not-called"
          /\ at' = "reporting"
          /\ UNCHANGED result
    /\ UNCHANGED <<childRunVars, lineVars, plan, file, exit>>

\* _report_replay: the comparison's code, unless irimi was stopped or the
\* replay's run cannot be read back.
Report ==
    /\ at = "reporting"
    /\ \/ Say(ERROR, TRUE)
       \/ \E compared \in {OK, DIFFERENT} :
             Say(IF stopped = Unstopped THEN compared ELSE stopped, TRUE)
    /\ at' = "writing"
    /\ UNCHANGED <<childRunVars, lineVars, plan, file, exit>>

\* --result-file, which may fail to be written.
WriteResult ==
    /\ at = "writing"
    /\ \/ file' = result /\ exit' = result.code
       \/ exit' = ERROR /\ UNCHANGED file
    /\ at' = "exited"
    /\ UNCHANGED <<childRunVars, lineVars, plan, result>>

-----------------------------------------------------------------------------
(* Signals outside run_child.                                               *)

\* A Ctrl-C that run_child raises, or that lands before or after it, is a
\* replay's result; the report alone knows that a run was stored.
InterruptReplay ==
    /\ banner = "replay"
    /\ \/ at = "running" /\ pc = "raised" /\ UNCHANGED <<terminated, terms, ctrlCs, hit>>
       \/ at \in {"planning", "preparing", "reporting"} /\ CtrlCAt(at)
       \/ at = "running" /\ pc = "done" /\ CtrlC
    /\ Say(SIGINT, at = "reporting")
    /\ at' = "writing"
    /\ Forgotten(typed', source')
    /\ UNCHANGED <<pc, interrupted, resultVars, engine, run, childVars, banner, plan, file, exit>>

\* `irimi shadow`, and a replay that writes its result, die of it.
InterruptRest ==
    /\ \/ at = "running" /\ pc = "raised" /\ banner = "shadow"
          /\ UNCHANGED <<terminated, terms, ctrlCs, hit>>
       \/ /\ \/ at = "writing"
             \/ at \in {"planning", "preparing"} /\ banner = "shadow"
             \/ at = "running" /\ pc = "done" /\ banner = "shadow"
          /\ CtrlCAt(at)
    /\ exit' = SIGINT /\ at' = "exited"
    /\ UNCHANGED <<pc, interrupted, resultVars, engine, run, childVars, lineVars, plan, result,
                   file>>

\* Child.on_sigterm, until the result is written: then SIGTERM kills irimi.
Terminate ==
    \/ /\ at \notin {"writing", "exited"}
       /\ Sigterm
       /\ UNCHANGED <<at, lineVars, plan, result, file, exit>>
    \/ /\ at = "writing"
       /\ terms < MaxTerms
       /\ terms' = terms + 1 /\ hit' = hit \cup {at}
       /\ exit' = SIGTERM /\ at' = "exited"
       /\ UNCHANGED <<pc, terminated, interrupted, resultVars, engine, run, childVars, ctrlCs,
                      lineVars, plan, result, file>>

-----------------------------------------------------------------------------

\* What irimi itself does next.
CommandProceeds ==
    \/ PlanReplay \/ PlanShadow \/ Prepare
    \/ at = "running" /\ Proceed /\ UNCHANGED <<at, lineVars, plan, result, file, exit>>
    \/ EndShadow \/ JudgeReplay \/ Report \/ WriteResult
    \/ pc = "raised" /\ (InterruptReplay \/ InterruptRest)

CommandNext ==
    \/ CommandProceeds
    \/ at = "running" /\ ChildRunNext /\ UNCHANGED <<at, lineVars, plan, result, file, exit>>
    \/ InterruptReplay \/ InterruptRest \/ Terminate

-----------------------------------------------------------------------------
(* What the user may rely on.                                               *)

\* An exit code that speaks of the agent does: no signal irimi got before the
\* agent ended, no agent that never ran and no call that was never made is
\* reported as a comparison or as the command's success, and a call is only
\* made with values that were given or recorded (cmd_replay, ChildResult).
CodesTellOfTheAgent ==
    /\ at = "exited" => exit \in 0..255
    /\ at = "exited" /\ exit = OK => child = "reaped" /\ run \in {"ok", "error"}
    /\ at = "exited" /\ banner = "replay" /\ exit \in {OK, DIFFERENT} =>
          /\ child = "reaped" /\ told = {} /\ run \in {"ok", "error"}
          /\ calls => trigger # "not-called"
    /\ trigger # "loading" => plan.args = "values"

\* However a replay ends, its result file has its exit code, and names the run it
\* stored, but for a signal while the file is written, or a Ctrl-C right after the
\* run was stored, while it is ended or just after run_child (cmd_replay).
ResultFileTells ==
    at = "exited" /\ banner = "replay" /\ exit # ERROR /\ "writing" \notin hit =>
        /\ file.code = exit
        /\ hit \cap {"stored", "finally", "done"} = {} => (file.names <=> run # "none")

\* After a Ctrl-C in the wait irimi exits, though the command ignores every signal.
InterruptEnds == interrupted ~> at = "exited"

\* What is told of a run's outcome, by the exit code and by the result file, is so.
OutcomeTold == CodesTellOfTheAgent /\ ResultFileTells

=============================================================================
