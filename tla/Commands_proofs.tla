--------------------------- MODULE Commands_proofs ---------------------------
(***************************************************************************)
(* Proofs about Commands for every exit code a command may report, every   *)
(* number of signals, every command line and every stored run, and for all *)
(* maps, overrides, flags and requests of the shapes the parser lets       *)
(* through.  The child, the command around it, serve and the maps have an  *)
(* invariant each.                                                         *)
(***************************************************************************)
EXTENDS Commands, SequenceTheorems, FiniteSetTheorems, WellFoundedInduction, TLAPS

(* The child of a run. *)

Before == {"starting", "ready", "checked", "stored", "spawning"}
Ongoing == {"spawned", "adopted", "waiting", "grace", "terminating", "killing"}
After == {"finally", "stopping", "closing", "done", "raising", "raised"}
WithProxy == {"ready", "checked", "stored", "spawning", "spawned", "adopted", "waiting", "grace",
              "terminating", "killing", "judging", "finally"}
Stages == WithProxy \cup {"starting", "stopping", "closing", "done", "raising", "raised"}

ChildTypes ==
    /\ pc \in Stages
    /\ terminated \in BOOLEAN /\ interrupted \in BOOLEAN /\ adopted \in BOOLEAN
    /\ child \in {"none", "running", "exited", "reaped"}
    /\ status \in {"interrupted", "not-started", "not-spawned", "ran"}
    /\ run \in {"none", "started", "ok", "error"}
    /\ code \in 0..255 /\ stopped \in {Unstopped, SIGINT, SIGTERM}
    /\ calls \in BOOLEAN

\* Before its command exists nothing was sent to it, and it has a run once that
\* is stored.
BeforeChild ==
    /\ pc \in Before => child = "none" /\ ~adopted /\ told = {} /\ stopped = Unstopped
    /\ pc \in {"starting", "ready", "checked"} => run = "none" /\ status = "interrupted"
    /\ pc = "stored" => run = "started" /\ status = "interrupted"
    /\ pc = "spawning" => run = "started" /\ status = "ran"
    /\ child = "none" => trigger = "loading"
    /\ pc \in WithProxy => engine = "up"

\* While irimi waits for it, the command has its run, its proxy and its SIGTERMs,
\* and was told of nothing that irimi was not.
WithChild ==
    /\ pc \in Ongoing \/ pc = "judging" =>
          /\ run = "started" /\ status = "ran" /\ stopped = Unstopped
          /\ told # {} => terminated \/ interrupted
    /\ pc \in Waits \/ pc = "adopted" => adopted
    /\ pc \in Ongoing => child \in {"running", "exited"}
    /\ pc \in Waits /\ terminated /\ child = "running" => "term" \in told
    /\ pc \in {"grace", "terminating", "killing"} => interrupted
    /\ pc = "killing" => "kill" \in told
    /\ pc = "judging" => child = "reaped" \/ (interrupted /\ "kill" \in told)

\* Afterwards a command still runs only if even SIGKILL did not end it, or a
\* Ctrl-C landed where none is expected.
AfterChild ==
    /\ pc \in After /\ child = "running" /\ hit \subseteq {"waiting", "grace"} => "kill" \in told
    /\ pc \in After /\ stopped = Unstopped /\ status = "ran" => child = "reaped" /\ told = {}
    /\ code = 0 =>
          /\ child = "reaped" /\ (pc = "judging" \/ pc \in After) /\ status = "ran"
          /\ pc \in {"stopping", "closing", "done"} => run \in {"ok", "error"}

\* The run of a command that was told of in its store has an end, unless one of
\* two statements was interrupted.
RunEnds ==
    /\ status \in {"ran", "not-spawned"} => run # "none"
    /\ status \in {"interrupted", "not-started"} => run = "none" \/ "stored" \in hit \/ pc = "stored"
    /\ pc \in {"stopping", "closing", "done"} =>
          /\ status \in {"ran", "not-spawned"} => run \in {"ok", "error"}
          /\ status = "ran" /\ child = "reaped" => call = Outcome
    /\ pc \in {"raising", "raised"} => "finally" \in hit

ChildInv == ChildTypes /\ BeforeChild /\ WithChild /\ AfterChild /\ RunEnds

-----------------------------------------------------------------------------
(* The command around it. *)

\* What a replay's result may say, once it has one.
ResultTells ==
    /\ result.code \in 0..255
    /\ result.code \in {OK, DIFFERENT} =>
          /\ child = "reaped" /\ told = {} /\ run \in {"ok", "error"}
          /\ calls => trigger # "not-called"
    /\ hit \cap {"stored", "finally", "done"} = {} => (result.names <=> run # "none")

CommandInv ==
    /\ banner \in {"shadow", "replay"}
    /\ at \in {"planning", "preparing", "running", "reporting", "writing", "exited"}
    /\ at \in {"planning", "preparing"} => pc = "starting"
    /\ at = "planning" => calls = FALSE
    /\ at = "planning" /\ banner = "replay" => typed \in Typed /\ source \in Sources
    /\ calls => plan.args = "values"
    /\ trigger # "loading" => calls
    /\ at = "reporting" => pc = "done" /\ status = "ran" /\ call # "not-called"
    /\ at \in {"reporting", "writing"} => banner = "replay"
    /\ at = "writing" => ResultTells
    /\ at = "exited" /\ banner = "replay" =>
          /\ exit \in {OK, DIFFERENT} => ResultTells /\ result.code = exit
          /\ exit # ERROR /\ "writing" \notin hit => ResultTells /\ file = result /\ exit = result.code
    /\ at = "exited" /\ exit = OK => child = "reaped" /\ run \in {"ok", "error"}
    /\ at = "exited" => exit \in 0..255

-----------------------------------------------------------------------------
(* Serve. *)

ServeInv ==
    /\ serving \in {"preparing", "prepared", "starting", "started", "waiting", "stopping", "stopped",
                    "closing", "closed", "exited"}
    /\ watcher \in {"none", "joining", "unasked", "asked", "ended"}
    /\ served \in {-1, FAILED, STOPPED} /\ signalled \in Nat
    /\ serving \in {"preparing", "prepared", "starting"} => proxy = "none" /\ watcher = "none"
    /\ serving \in {"preparing", "prepared", "starting", "started", "waiting", "stopping", "stopped"}
          => served = -1
    /\ watcher \in {"unasked", "asked"} \/ died => proxy = "ended"
    /\ watcher = "asked" => stop \/ died
    /\ stop => signalled > 0 \/ asked \/ died
    /\ serving \in {"stopping", "stopped"} => signalled > 0 \/ asked \/ died
    /\ serving \in {"closing", "closed"} /\ served = -1 => signalled > 0 \/ asked \/ died
    /\ served = STOPPED => signalled > 0 \/ asked
    /\ served = FAILED => proxy # "up"
    /\ serving \in {"preparing", "closed", "exited"} => ~lock

IInv == ChildInv /\ CommandInv /\ ServeInv

-----------------------------------------------------------------------------
(* The child's steps keep its invariant. *)

\* What the shell's code of a command is: one byte.
LEMMA ExitCodes ==
    /\ \A rc \in ReturnCodes : ExitCodeFor(rc) \in 0..255
    /\ ExitCodeFor(KILLED) = 137
<1> QED BY ChildAssumption DEF ExitCodeFor, KILLED

\* Nothing of a command is true before there is one.
LEMMA ChildInit == Init => ChildInv
<1> SUFFICES ASSUME Init PROVE ChildInv
  OBVIOUS
<1> USE DEF Init, CommandInit, ChildRunInit
<1>1. ChildTypes
  <2>1. pc \in Stages /\ child = "none" /\ status = "interrupted" /\ run = "none"
    BY DEF Stages
  <2>2. code \in 0..255
    BY DEF SIGINT
  <2>3. terminated \in BOOLEAN /\ interrupted \in BOOLEAN /\ adopted \in BOOLEAN /\ calls \in BOOLEAN
    OBVIOUS
  <2> QED BY <2>1, <2>2, <2>3 DEF ChildTypes
<1>2. BeforeChild
  BY DEF BeforeChild, Before, WithProxy, Ongoing
<1>3. WithChild
  BY DEF WithChild, Ongoing, Waits
<1>4. AfterChild
  BY DEF AfterChild, After, SIGINT
<1>5. RunEnds
  BY DEF RunEnds
<1> QED BY <1>1, <1>2, <1>3, <1>4, <1>5 DEF ChildInv

\* What run_child does next keeps the invariant.
LEMMA ProceedStep ==
    ASSUME ChildInv, Proceed
    PROVE  ChildInv'
<1> USE DEF ChildInv, ChildTypes, BeforeChild, WithChild, AfterChild, RunEnds, Stages, Before,
            Ongoing, WithProxy, Waits, After, SIGINT, SIGTERM, Unstopped, ERROR, CannotRun,
            signalVars, resultVars, childVars, agentVars
<1>1. CASE StartEngine
  BY <1>1 DEF StartEngine
<1>2. CASE CheckTerminated
  BY <1>2 DEF CheckTerminated
<1>3. CASE StoreStart
  BY <1>3 DEF StoreStart
<1>4. CASE MarkRan
  BY <1>4 DEF MarkRan
<1>5. CASE Spawn
  BY <1>5 DEF Spawn
<1>6. CASE Adopt
  BY <1>6 DEF Adopt
<1>7. CASE PassHeld
  BY <1>7 DEF PassHeld
<1>8. CASE Reap
  BY <1>8, ExitCodes DEF Reap
<1>9. CASE GraceEnds
  BY <1>9 DEF GraceEnds
<1>10. CASE TerminateEnds
  BY <1>10 DEF TerminateEnds
<1>11. CASE GiveUp
  BY <1>11, ExitCodes DEF GiveUp
<1>12. CASE Judge
  BY <1>12 DEF Judge
<1>13. CASE EndRun
  BY <1>13 DEF EndRun, Outcome
<1>14. CASE StopEngine
  BY <1>14 DEF StopEngine, Outcome
<1>15. CASE CloseStore
  BY <1>15 DEF CloseStore, Outcome
<1> QED
  BY <1>1, <1>2, <1>3, <1>4, <1>5, <1>6, <1>7, <1>8, <1>9, <1>10, <1>11, <1>12, <1>13, <1>14, <1>15 DEF Proceed

\* The command's own steps, and Ctrl-Cs, keep it.
LEMMA ChildStep ==
    ASSUME ChildInv, ChildRunNext
    PROVE  ChildInv'
<1> USE DEF ChildInv, ChildTypes, BeforeChild, WithChild, AfterChild, RunEnds, Stages, Before,
            Ongoing, WithProxy, Waits, After, SIGINT, SIGTERM, Unstopped,
            signalVars, resultVars, childVars, agentVars, CtrlC, CtrlCAt
<1>0. CASE Proceed
  BY <1>0, ProceedStep
<1>1. CASE ChildExits
  BY <1>1 DEF ChildExits, Outcome
<1>2. CASE CannotCall
  BY <1>2 DEF CannotCall, Outcome
<1>3. CASE Call
  BY <1>3 DEF Call, Outcome
<1>4. CASE CallEnds
  BY <1>4 DEF CallEnds, Outcome
<1>5. CASE InterruptStart
  BY <1>5 DEF InterruptStart, Outcome
<1>6. CASE InterruptWait
  <2>1. CASE pc = "waiting" /\ interrupted' = TRUE /\ pc' = "grace" /\ UNCHANGED told
    BY <1>6, <2>1 DEF InterruptWait, Outcome
  <2>2. CASE /\ pc = "grace" /\ told' = told \cup {"term"} /\ pc' = "terminating"
             /\ UNCHANGED interrupted
    BY <1>6, <2>2 DEF InterruptWait, Outcome
  <2> QED BY <1>6, <2>1, <2>2 DEF InterruptWait
<1>7. CASE InterruptWork
  BY <1>7 DEF InterruptWork, Outcome
<1>8. CASE InterruptFinally
  BY <1>8 DEF InterruptFinally, Outcome
<1>9. CASE InterruptStop
  BY <1>9 DEF InterruptStop, Outcome
<1> QED
  BY <1>0, <1>1, <1>2, <1>3, <1>4, <1>5, <1>6, <1>7, <1>8, <1>9 DEF ChildRunNext

\* A SIGTERM, wherever it lands, keeps it.
LEMMA SigtermStep ==
    ASSUME ChildInv, Sigterm
    PROVE  ChildInv'
<1> QED
  BY DEF Sigterm, ChildInv, ChildTypes, BeforeChild, WithChild, AfterChild, RunEnds, Outcome,
         Stages, Before, Ongoing, WithProxy, Waits, After, resultVars, agentVars

\* So does a signal that only leaves its trace, and what the command around
\* run_child does before and after it.
LEMMA AroundStep ==
    ASSUME ChildInv, hit \subseteq hit',
           UNCHANGED <<pc, terminated, interrupted, adopted, resultVars, engine, run, child, told,
                       trigger>>,
           calls' = calls \/ (pc = "starting" /\ calls' \in BOOLEAN)
    PROVE  ChildInv'
<1> QED
  BY DEF ChildInv, ChildTypes, BeforeChild, WithChild, AfterChild, RunEnds, Outcome,
         Stages, Before, Ongoing, WithProxy, Waits, After, resultVars

-----------------------------------------------------------------------------
(* The command's steps keep both invariants. *)

\* A command that has planned nothing has no result.
LEMMA CommandInitInv == Init => CommandInv
<1> QED
  BY DEF Init, CommandInit, ChildRunInit, CommandInv

\* The child's own steps leave what the command knows as it is.
LEMMA ChildKeepsCommand ==
    ASSUME CommandInv, at = "running", ChildRunNext,
           UNCHANGED <<at, lineVars, plan, result, file, exit>>
    PROVE  CommandInv'
<1>1. UNCHANGED calls /\ (UNCHANGED trigger \/ calls)
  BY DEF ChildRunNext, Proceed, StartEngine, CheckTerminated, StoreStart, MarkRan, Spawn, Adopt,
         PassHeld, Reap, GraceEnds, TerminateEnds, GiveUp, Judge, EndRun, StopEngine, CloseStore,
         ChildExits, CannotCall, Call, CallEnds, InterruptStart, InterruptWait, InterruptWork,
         InterruptFinally, InterruptStop, childVars, agentVars, CommandInv
<1> QED BY <1>1 DEF CommandInv, lineVars

\* A replay is planned, refused or misused; only one that calls passes values.
LEMMA PlanStep ==
    ASSUME ChildInv, CommandInv, PlanReplay \/ PlanShadow \/ Prepare
    PROVE  ChildInv' /\ CommandInv'
<1>0. /\ pc = "starting" /\ child = "none" /\ told = {} /\ run = "none" /\ trigger = "loading"
      /\ calls \in BOOLEAN /\ ERROR \in 0..255 /\ ERROR \notin {OK, DIFFERENT}
      /\ SIGTERM \in 0..255 /\ SIGTERM \notin {OK, DIFFERENT}
  <2>1. pc = "starting" /\ calls \in BOOLEAN
    BY DEF CommandInv, ChildInv, ChildTypes, PlanReplay, PlanShadow, Prepare
  <2>2. child = "none" /\ told = {} /\ run = "none" /\ trigger = "loading"
    BY <2>1 DEF ChildInv, BeforeChild, Before
  <2> QED BY <2>1, <2>2 DEF ERROR, SIGTERM, OK, DIFFERENT
<1>1. CASE PlanShadow
  <2>1. ChildInv'
    BY <1>1, AroundStep DEF PlanShadow, childRunVars, resultVars
  <2> QED BY <1>0, <1>1, <2>1 DEF PlanShadow, childRunVars, lineVars, CommandInv
<1>2. CASE Prepare
  <2>1. ChildInv'
    BY <1>2, AroundStep DEF Prepare, childRunVars, resultVars
  <2>2. at' = "writing" => ResultTells' /\ banner' = "replay"
    BY <1>0, <1>2 DEF Prepare, Say, ResultTells, childRunVars, lineVars
  <2> QED
    BY <1>0, <1>2, <2>1, <2>2 DEF Prepare, childRunVars, lineVars, CommandInv, OK
<1>3. CASE PlanReplay
  <2>1. UNCHANGED <<pc, signalVars, resultVars, engine, run, adopted, child, told, trigger, banner>>
    BY <1>3 DEF PlanReplay
  <2>2. /\ \/ exit' = ERROR /\ at' = "exited" /\ UNCHANGED <<plan, calls, result>>
           \/ /\ result' = [code |-> IF terminated THEN SIGTERM ELSE ERROR, names |-> FALSE]
              /\ at' = "writing" /\ UNCHANGED <<plan, calls, exit>>
           \/ /\ calls' \in BOOLEAN /\ (calls' => plan'.args = "values")
              /\ at' = "preparing" /\ UNCHANGED <<result, exit>>
    <3>1. CASE /\ ~Misused /\ ~Refused /\ (typed.python => Calls)
               /\ plan' = [calls |-> Calls,
                           args |-> IF ~Calls THEN "none" ELSE IF typed.args = "none" THEN source.args
                                    ELSE typed.args]
               /\ calls' = Calls
               /\ at' = "preparing"
               /\ UNCHANGED <<result, exit>>
      <4>1. typed \in TypedLines
        BY <1>3, CommandsAssumption DEF CommandInv, PlanReplay
      <4>2. typed.args \in {"none", "values", "description"}
        BY <4>1 DEF TypedLines
      <4>3. Calls => typed.args # "description" /\ (typed.args = "none" => source.args = "values")
        BY <3>1 DEF Calls, Refused, NotReplayable
      <4>4. Calls \in BOOLEAN
        BY DEF Calls
      <4> QED BY <3>1, <4>2, <4>3, <4>4
    <3> QED BY <1>3, <3>1 DEF PlanReplay, Say
  <2>3. ChildInv'
    BY <1>0, <2>1, <2>2, AroundStep DEF signalVars
  <2>4. at' = "writing" => ResultTells'
    BY <1>0, <2>1, <2>2 DEF ResultTells
  <2>5. banner' = "replay" /\ calls' \in BOOLEAN /\ trigger' = "loading" /\ pc' = "starting"
    BY <1>0, <1>3, <2>1, <2>2 DEF PlanReplay, CommandInv
  <2>6. calls' => plan'.args = "values"
    BY <2>2 DEF CommandInv
  <2> QED BY <1>0, <2>2, <2>3, <2>4, <2>5, <2>6 DEF CommandInv
<1> QED BY <1>1, <1>2, <1>3

\* A command that has ended is told of: what the child's invariant says of its
\* code, its call and its run is what the exit code and the result say.
LEMMA JudgeStep ==
    ASSUME ChildInv, CommandInv, EndShadow \/ JudgeReplay \/ Report \/ WriteResult
    PROVE  ChildInv' /\ CommandInv'
<1>0. UNCHANGED <<childRunVars, lineVars>>
  BY DEF EndShadow, JudgeReplay, Report, WriteResult
<1>1. ChildInv'
  BY <1>0, AroundStep DEF childRunVars, resultVars
<1>2. UNCHANGED <<pc, status, stopped, call, run, child, told, calls, trigger, hit, banner, typed,
                  source>>
  BY <1>0 DEF childRunVars, lineVars
<1>3. CASE EndShadow
  <2>1. code \in 0..255 /\ (code = 0 => child = "reaped" /\ run \in {"ok", "error"})
    BY <1>3 DEF EndShadow, ChildInv, ChildTypes, AfterChild
  <2>2. at' = "exited" /\ banner' = "shadow" /\ exit' = code /\ UNCHANGED plan
    BY <1>2, <1>3 DEF EndShadow
  <2> QED BY <1>1, <1>2, <2>1, <2>2 DEF CommandInv, OK
<1>4. CASE JudgeReplay
  <2>1. at' = "writing" => ResultTells'
    <3>1. CASE status # "ran"
      <4>1. result'.code \in {SIGINT, SIGTERM, ERROR} /\ (result'.names <=> status = "not-spawned")
        <5>1. result' = [code |-> IF code \in {SIGINT, SIGTERM} THEN code ELSE ERROR,
                         names |-> status = "not-spawned"]
          BY <1>4, <3>1 DEF JudgeReplay, Say
        <5>2. result'.code = IF code \in {SIGINT, SIGTERM} THEN code ELSE ERROR
          BY <5>1
        <5>3. result'.names <=> status = "not-spawned"
          BY <5>1
        <5> QED BY <5>2, <5>3
      <4>2. result'.code \in 0..255 /\ result'.code \notin {OK, DIFFERENT}
        BY <4>1 DEF SIGINT, SIGTERM, ERROR, OK, DIFFERENT
      <4>3. status = "not-spawned" => run # "none"
        BY DEF ChildInv, RunEnds
      <4>4. hit \cap {"stored", "finally", "done"} = {} /\ status # "not-spawned" => run = "none"
        BY <1>4, <3>1 DEF ChildInv, ChildTypes, RunEnds, JudgeReplay
      <4> QED BY <1>2, <4>1, <4>2, <4>3, <4>4 DEF ResultTells
    <3>2. CASE status = "ran"
      <4>1. at' = "writing" => result' = [code |-> IF stopped = Unstopped THEN ERROR ELSE stopped,
                                         names |-> TRUE]
        BY <1>4, <3>2 DEF JudgeReplay, Say
      <4>2. (IF stopped = Unstopped THEN ERROR ELSE stopped) \in {SIGINT, SIGTERM, ERROR}
        BY DEF ChildInv, ChildTypes
      <4>3. run # "none"
        BY <3>2 DEF ChildInv, RunEnds
      <4> QED BY <1>2, <4>1, <4>2, <4>3 DEF ResultTells, SIGINT, SIGTERM, ERROR, OK, DIFFERENT
    <3> QED BY <3>1, <3>2
  <2>2. /\ at' \in {"writing", "reporting"} /\ banner' = "replay" /\ UNCHANGED <<plan, exit>>
        /\ at' = "reporting" => pc' = "done" /\ status' = "ran" /\ call' # "not-called"
    BY <1>2, <1>4 DEF JudgeReplay
  <2> QED BY <1>1, <1>2, <2>1, <2>2 DEF CommandInv
<1>5. CASE Report
  <2>1. pc = "done" /\ status = "ran" /\ call # "not-called" /\ banner = "replay"
    BY <1>5 DEF Report, CommandInv
  <2>2. run \in {"ok", "error"}
    BY <2>1 DEF ChildInv, RunEnds
  <2>3. stopped = Unstopped => child = "reaped" /\ told = {} /\ (calls => trigger # "not-called")
    <3>1. stopped = Unstopped => child = "reaped" /\ told = {}
      BY <2>1 DEF ChildInv, AfterChild, After
    <3>2. child = "reaped" => call = Outcome
      BY <2>1 DEF ChildInv, RunEnds
    <3>3. calls /\ trigger = "not-called" => Outcome = "not-called"
      BY DEF Outcome
    <3> QED BY <2>1, <3>1, <3>2, <3>3
  <2>4. /\ result'.names = TRUE /\ result'.code \in {OK, DIFFERENT, ERROR, SIGINT, SIGTERM}
        /\ result'.code \in {OK, DIFFERENT} => stopped = Unstopped
    BY <1>5 DEF Report, Say, ChildInv, ChildTypes, ERROR, SIGINT, SIGTERM, OK, DIFFERENT
  <2>5. ResultTells'
    BY <1>2, <2>2, <2>3, <2>4 DEF ResultTells, ERROR, SIGINT, SIGTERM, OK, DIFFERENT
  <2> QED BY <1>1, <1>2, <1>5, <2>1, <2>5 DEF Report, CommandInv
<1>6. CASE WriteResult
  <2>1. ResultTells /\ banner = "replay" /\ UNCHANGED <<result, plan>> /\ at' = "exited"
    BY <1>6 DEF WriteResult, CommandInv
  <2>2. ResultTells'
    BY <1>2, <2>1 DEF ResultTells
  <2>3. \/ exit' = result.code /\ file' = result
        \/ exit' = ERROR
    BY <1>6 DEF WriteResult
  <2>4. exit' \in 0..255 /\ (exit' = OK => child = "reaped" /\ run \in {"ok", "error"})
    BY <2>1, <2>3 DEF ResultTells, ERROR, OK
  <2>5. exit' \in {OK, DIFFERENT} => result'.code = exit'
    BY <2>1, <2>3 DEF ERROR, OK, DIFFERENT
  <2> QED BY <1>1, <1>2, <2>1, <2>2, <2>3, <2>4, <2>5 DEF CommandInv
<1> QED BY <1>3, <1>4, <1>5, <1>6

\* Signals outside run_child: a replay says so, `irimi shadow` dies of them.
LEMMA SignalStep ==
    ASSUME ChildInv, CommandInv, InterruptReplay \/ InterruptRest \/ Terminate
    PROVE  ChildInv' /\ CommandInv'
<1>0. /\ SIGINT \in 0..255 /\ SIGINT \notin {OK, DIFFERENT, ERROR}
      /\ SIGTERM \in 0..255 /\ SIGTERM \notin {OK, DIFFERENT, ERROR}
  BY DEF SIGINT, SIGTERM, OK, DIFFERENT, ERROR
<1>1. CASE InterruptReplay
  <2>1. /\ UNCHANGED <<pc, terminated, interrupted, resultVars, engine, run, childVars, banner,
                       plan, exit>>
        /\ result' = [code |-> SIGINT, names |-> at = "reporting"] /\ at' = "writing"
        /\ banner = "replay"
    BY <1>1 DEF InterruptReplay, Say, CtrlC, CtrlCAt
  <2>2. hit \subseteq hit'
    BY <1>1 DEF InterruptReplay, CtrlC, CtrlCAt
  <2>3. ChildInv'
    BY <2>1, <2>2, AroundStep DEF childVars, agentVars
  <2>4. hit' \cap {"stored", "finally", "done"} = {} => (at = "reporting" <=> run # "none")
    <3>1. CASE at = "running" /\ pc = "raised"
      BY <2>2, <3>1 DEF ChildInv, RunEnds
    <3>2. CASE at \in {"planning", "preparing"}
      BY <3>2 DEF CommandInv, ChildInv, BeforeChild
    <3>3. CASE at = "reporting"
      BY <3>3 DEF CommandInv, ChildInv, RunEnds
    <3>4. CASE at = "running" /\ pc = "done" /\ CtrlC
      BY <3>4 DEF CtrlC, CtrlCAt
    <3> QED BY <1>1, <3>1, <3>2, <3>3, <3>4 DEF InterruptReplay
  <2>5. ResultTells'
    BY <1>0, <2>1, <2>4 DEF ResultTells
  <2> QED BY <2>1, <2>3, <2>5 DEF CommandInv, childVars, agentVars
<1>2. CASE InterruptRest
  <2>1. /\ UNCHANGED <<pc, terminated, interrupted, resultVars, engine, run, childVars, banner, plan>>
        /\ exit' = SIGINT /\ at' = "exited" /\ (banner = "shadow" \/ "writing" \in hit')
    BY <1>2 DEF InterruptRest, CtrlCAt, lineVars
  <2>2. hit \subseteq hit'
    BY <1>2 DEF InterruptRest, CtrlCAt
  <2>3. ChildInv'
    BY <2>1, <2>2, AroundStep DEF childVars, agentVars
  <2> QED BY <1>0, <2>1, <2>3 DEF CommandInv, childVars, agentVars, OK
<1>3. CASE Terminate
  <2>1. CASE /\ at \notin {"writing", "exited"}
             /\ Sigterm
             /\ UNCHANGED <<at, lineVars, plan, result, file, exit>>
    BY <2>1, SigtermStep DEF CommandInv, Sigterm, lineVars, resultVars, agentVars
  <2>2. CASE /\ at = "writing"
             /\ hit' = hit \cup {at}
             /\ exit' = SIGTERM /\ at' = "exited"
             /\ UNCHANGED <<pc, terminated, interrupted, resultVars, engine, run, childVars, ctrlCs,
                            lineVars, plan, result, file>>
    <3>1. ChildInv'
      BY <2>2, AroundStep DEF childVars, agentVars
    <3> QED BY <1>0, <2>2, <3>1 DEF CommandInv, childVars, agentVars, lineVars, OK
  <2> QED BY <1>3, <2>1, <2>2 DEF Terminate
<1> QED BY <1>1, <1>2, <1>3

\* Every step of a command keeps both.
LEMMA CommandStep ==
    ASSUME ChildInv, CommandInv, CommandNext
    PROVE  ChildInv' /\ CommandInv'
<1>1. CASE at = "running" /\ ChildRunNext /\ UNCHANGED <<at, lineVars, plan, result, file, exit>>
  BY <1>1, ChildStep, ChildKeepsCommand
<1>2. CASE at = "running" /\ Proceed /\ UNCHANGED <<at, lineVars, plan, result, file, exit>>
  BY <1>1, <1>2 DEF ChildRunNext
<1>3. CASE PlanReplay \/ PlanShadow \/ Prepare
  BY <1>3, PlanStep
<1>4. CASE EndShadow \/ JudgeReplay \/ Report \/ WriteResult
  BY <1>4, JudgeStep
<1>5. CASE InterruptReplay \/ InterruptRest \/ Terminate
  BY <1>5, SignalStep
<1> QED BY <1>1, <1>2, <1>3, <1>4, <1>5 DEF CommandNext, CommandProceeds

-----------------------------------------------------------------------------
(* Serve's steps keep its invariant. *)

\* A serve that has not begun promises nothing.
LEMMA ServeInitInv == Init => ServeInv
<1> QED BY DEF Init, ServeInit, ServeInv, FAILED, STOPPED

\* Each of serve's threads, and each signal, keeps it.
LEMMA ServeStep ==
    ASSUME ServeInv, ServeNext
    PROVE  ServeInv'
<1> USE DEF ServeInv, endVars, FAILED, STOPPED
<1>1. CASE PrepareServe
  BY <1>1 DEF PrepareServe
<1>2. CASE CheckSignalled
  BY <1>2 DEF CheckSignalled
<1>3. CASE StartProxy
  BY <1>3 DEF StartProxy
<1>4. CASE StartWatcher
  BY <1>4 DEF StartWatcher
<1>5. CASE Wait
  BY <1>5 DEF Wait
<1>6. CASE SetStop
  BY <1>6 DEF SetStop
<1>7. CASE StopProxy
  BY <1>7 DEF StopProxy
<1>8. CASE CloseServe
  BY <1>8 DEF CloseServe
<1>9. CASE ExitServe
  BY <1>9 DEF ExitServe
<1>10. CASE ProxyEnds
  BY <1>10 DEF ProxyEnds
<1>11. CASE WatcherAsks
  BY <1>11 DEF WatcherAsks
<1>12. CASE WatcherTells
  BY <1>12 DEF WatcherTells
<1>13. CASE WatcherStops
  BY <1>13 DEF WatcherStops
<1>14. CASE Signal
  BY <1>14 DEF Signal
<1>15. CASE CallerStops
  BY <1>15 DEF CallerStops
<1> QED
  BY <1>1, <1>2, <1>3, <1>4, <1>5, <1>6, <1>7, <1>8, <1>9, <1>10, <1>11, <1>12, <1>13, <1>14, <1>15
  DEF ServeNext, ServeProceeds, Watch

-----------------------------------------------------------------------------
(* What the invariants are for. *)

\* The three invariants hold together.
THEOREM CommandsInvariant == FairSpec => []IInv
<1>1. Init => IInv
  BY ChildInit, CommandInitInv, ServeInitInv DEF IInv
<1>2. IInv /\ [Next]_vars => IInv'
  <2> SUFFICES ASSUME IInv, [Next]_vars PROVE IInv'
    OBVIOUS
  <2>1. UNCHANGED commandVars => ChildInv' /\ CommandInv'
    BY DEF commandVars, childRunVars, lineVars, IInv, ChildInv, ChildTypes, BeforeChild, WithChild,
           AfterChild, RunEnds, Outcome, CommandInv, ResultTells
  <2>2. UNCHANGED serveVars => ServeInv'
    BY DEF serveVars, IInv, ServeInv
  <2>3. CASE CommandNext /\ UNCHANGED serveVars
    BY <2>2, <2>3, CommandStep DEF IInv
  <2>4. CASE ServeNext /\ UNCHANGED commandVars
    BY <2>1, <2>4, ServeStep DEF IInv
  <2>5. CASE UNCHANGED <<commandVars, serveVars>>
    BY <2>1, <2>2, <2>5 DEF IInv
  <2> QED BY <2>3, <2>4, <2>5 DEF Next, vars
<1> QED BY <1>1, <1>2, PTL DEF FairSpec

\* A command gets every SIGTERM irimi got, and its stored run and the proxy for as
\* long as it runs, and its run gets an end (`run_child`, `Child`,
\* `wait_for_child`), wherever the signals land: but for a Ctrl-C outside the wait.
THEOREM CommandIsLookedAfter == FairSpec => []CommandLookedAfter
<1>1. IInv => CommandLookedAfter
  <2> SUFFICES ASSUME IInv PROVE CommandLookedAfter
    OBVIOUS
  <2>1. TermReachesChild
    BY DEF IInv, ChildInv, WithChild, TermReachesChild
  <2>2. CommandKeepsRunAndProxy
    <3> SUFFICES ASSUME child = "running", hit \subseteq {"waiting", "grace"}, "kill" \notin told
                 PROVE  engine = "up" /\ run = "started"
      BY DEF CommandKeepsRunAndProxy
    <3>1. pc \notin Before /\ pc \notin After
      BY DEF IInv, ChildInv, BeforeChild, AfterChild
    <3>2. pc \in WithProxy /\ (pc \in Ongoing \/ pc = "judging")
      BY <3>1 DEF IInv, ChildInv, ChildTypes, Stages, Before, After, WithProxy, Ongoing
    <3> QED BY <3>2 DEF IInv, ChildInv, BeforeChild, WithChild
  <2>3. StoredRunsEnd
    <3>1. pc \in {"done", "raised"} /\ run = "started" => "stored" \in hit \/ "finally" \in hit
      BY DEF IInv, ChildInv, ChildTypes, RunEnds
    <3> QED BY <3>1 DEF StoredRunsEnd
  <2> QED BY <2>1, <2>2, <2>3 DEF CommandLookedAfter
<1> QED BY <1>1, CommandsInvariant, PTL

\* An exit code that speaks of the agent does, and a replay's result file says
\* what the exit code says and names the run there is (`cmd_replay`).
THEOREM OutcomeIsTold == FairSpec => []OutcomeTold
<1>1. IInv => OutcomeTold
  <2> SUFFICES ASSUME IInv PROVE OutcomeTold
    OBVIOUS
  <2>1. CodesTellOfTheAgent
    BY DEF IInv, CommandInv, ResultTells, CodesTellOfTheAgent
  <2>2. ResultFileTells
    BY DEF IInv, CommandInv, ResultTells, ResultFileTells
  <2> QED BY <2>1, <2>2 DEF OutcomeTold
<1> QED BY <1>1, CommandsInvariant, PTL

\* serve exits as if stopped only when something stopped it, and as failed only
\* without an engine, and frees the store either way (`watch_engine`, `_run_serve`).
THEOREM ServeReportsDeath == FairSpec => []DeathIsReported
<1>1. IInv => DeathIsReported
  BY DEF IInv, ServeInv, DeathIsReported
<1> QED BY <1>1, CommandsInvariant, PTL

-----------------------------------------------------------------------------
(* The maps: the inductive invariant. *)

\* What an override or a flag leaves of a map: all that its rules are about.
SameRules(t, s) ==
    /\ t.service = s.service /\ t.hosts = s.hosts /\ t.style = s.style
    /\ t.default_kind = s.default_kind
    /\ DOMAIN t.routes = DOMAIN s.routes
    /\ \A i \in DOMAIN s.routes :
          /\ SameRoute(t.routes[i], s.routes[i])
          /\ t.routes[i].kind = s.routes[i].kind /\ t.routes[i].keys = s.routes[i].keys

RulesHold ==
    /\ CheckUnique
    /\ \A i \in DOMAIN maps : ParseDefaultKind(maps[i]) /\ CheckRouteRules(maps[i])

MapsInv ==
    /\ maps \in Seq(MapShape)
    /\ stage \in {"read", "shipped", "overridden", "merged", "serving", "refused"}
    /\ stage \notin {"read", "refused"} => RulesHold
    /\ stage = "serving" => Validated
    /\ sent # <<>> => stage = "serving"
    /\ AnsweredAsMapped

-----------------------------------------------------------------------------
(* Matching. *)

\* Prefixes of one length are the same.
LEMMA OnePrefix ==
    ASSUME NEW S, NEW s \in Seq(S), NEW t \in Seq(S), NEW u \in Seq(S),
           IsPrefix(s, u), IsPrefix(t, u), Len(s) = Len(t)
    PROVE  s = t
<1>1. SubSeq(s, 1, Len(s)) = SubSeq(u, 1, Len(s)) /\ SubSeq(t, 1, Len(t)) = SubSeq(u, 1, Len(t))
  BY DEF IsPrefix
<1>2. SubSeq(s, 1, Len(s)) = s /\ SubSeq(t, 1, Len(t)) = t
  OBVIOUS
<1> QED BY <1>1, <1>2

\* A host has one service at most: no two maps claim it with equal weight.
LEMMA OneService ==
    ASSUME maps \in Seq(MapShape), CheckUnique, NEW host \in Seq(STRING),
           NEW s \in ServiceFor(host), NEW t \in ServiceFor(host)
    PROVE  s = t
<1>1. PICK i \in DOMAIN maps, j \in DOMAIN maps : s = maps[i] /\ t = maps[j]
  BY DEF ServiceFor, ToSet
<1>2. PICK h \in Claims(s, host), g \in Claims(t, host) : Weight(g) <= Weight(h) /\ Weight(h) <= Weight(g)
  BY DEF ServiceFor
<1>3. maps[i] \in MapShape /\ maps[j] \in MapShape
  BY <1>1
<1>4. h \in s.hosts /\ g \in t.hosts /\ h \in HostShape /\ g \in HostShape
  BY <1>1, <1>2, <1>3 DEF Claims, MapShape
<1>5. Len(h.labels) = Len(g.labels)
  BY <1>2, <1>4 DEF Weight, HostShape
<1>6. /\ IF h.wild THEN h.labels # host /\ IsPrefix(h.labels, host) ELSE h.labels = host
      /\ IF g.wild THEN g.labels # host /\ IsPrefix(g.labels, host) ELSE g.labels = host
  BY <1>2 DEF Claims
<1>7. IsPrefix(host, host)
  BY DEF IsPrefix
<1>8. IsPrefix(h.labels, host) /\ IsPrefix(g.labels, host)
  BY <1>6, <1>7
<1>9. h.labels = g.labels
  BY ONLY <1>4, <1>5, <1>8, host \in Seq(STRING), OnePrefix DEF HostShape
<1>10. h.wild = g.wild
  BY <1>4, <1>6, <1>9 DEF HostShape
<1>11. i = j
  BY <1>1, <1>4, <1>9, <1>10 DEF CheckUnique
<1> QED BY <1>1, <1>11

\* A path's holes are counted by a number.
LEMMA HolesAreCounted ==
    ASSUME NEW route \in RouteShape
    PROVE  Holes(route.path) \in Nat
<1>1. route.path \in Seq(STRING)
  BY DEF RouteShape
<1>2. IsFiniteSet(DOMAIN route.path)
  BY <1>1, FS_Interval
<1>3. {i \in DOMAIN route.path : route.path[i] = Hole} \subseteq DOMAIN route.path
  OBVIOUS
<1>4. IsFiniteSet({i \in DOMAIN route.path : route.path[i] = Hole})
  BY <1>2, <1>3, FS_Subset
<1> QED BY <1>4, FS_CardinalityType DEF Holes

\* A request has one route at most, of those that its method and path match.
LEMMA OneRoute ==
    ASSUME NEW sm \in MapShape, NEW method, NEW path,
           NEW a \in MatchRoute(sm, method, path), NEW b \in MatchRoute(sm, method, path)
    PROVE  a = b /\ a \in ToSet(sm.routes) /\ a.method \in {AnyMethod, method}
<1> DEFINE M == Matching(sm, method, path)
           H(i) == Holes(sm.routes[i].path)
           Best == {j \in M : \A k \in M : H(j) < H(k) \/ (H(j) = H(k) /\ j <= k)}
<1>1. sm.routes \in Seq(RouteShape)
  BY DEF MapShape
<1>2. \A i \in M : i \in DOMAIN sm.routes /\ i \in Nat /\ H(i) \in Nat
                   /\ sm.routes[i].method \in {AnyMethod, method}
  BY <1>1, HolesAreCounted DEF Matching
<1>3. PICK i \in Best, j \in Best : a = sm.routes[i] /\ b = sm.routes[j]
  BY DEF MatchRoute
<1>4. i \in M /\ j \in M
  OBVIOUS
<1>5. H(i) < H(j) \/ (H(i) = H(j) /\ i <= j)
  BY <1>4
<1>6. H(j) < H(i) \/ (H(j) = H(i) /\ j <= i)
  BY <1>4
<1>7. i = j
  <2> HIDE DEF H, M
  <2> QED BY <1>2, <1>4, <1>5, <1>6
<1> QED BY <1>2, <1>3, <1>4, <1>7 DEF ToSet


-----------------------------------------------------------------------------
(* Overrides and flags. *)

\* A bounded set of numbers that is not empty has a greatest one.
LEMMA GreatestExists ==
    ASSUME NEW S, S \subseteq Nat, S # {}, NEW n \in Nat, \A i \in S : i <= n
    PROVE  \E e \in S : \A j \in S : j <= e
<1> DEFINE Bounds == {k \in Nat : \A j \in S : j <= k}
<1>1. Bounds \subseteq Nat /\ Bounds # {}
  OBVIOUS
<1>2. PICK e \in Bounds : \A k \in Bounds : ~ (<<k, e>> \in OpToRel(<, Nat))
  BY <1>1, NatLessThanWellFounded, WFMin
<1>3. ASSUME NEW k \in Bounds, k < e PROVE FALSE
  <2>1. <<k, e>> \in OpToRel(<, Nat)
    BY <1>3 DEF OpToRel
  <2> QED BY <1>2, <2>1
<1>4. e \in S
  <2> SUFFICES ASSUME e \notin S PROVE FALSE
    OBVIOUS
  <2>1. e \in Nat /\ \A j \in S : j \in Nat /\ j <= e /\ j # e
    OBVIOUS
  <2>2. PICK j \in S : j \in Nat /\ j <= e /\ j # e
    BY <2>1
  <2>3. e - 1 \in Nat /\ e - 1 < e
    BY <2>1, <2>2
  <2>4. \A m \in Nat : m <= e /\ m # e => m <= e - 1
    BY <2>1
  <2>5. \A m \in S : m <= e - 1
    BY <2>1, <2>4
  <2> QED BY <1>3, <2>3, <2>5
<1> QED BY <1>4

\* A field's value is the map's own, or what an override or a flag says.
LEMMA GivenTyped ==
    ASSUME NEW S, NEW base \in S, NEW value \in Optional(S)
    PROVE  Given(value, base) \in S
<1>1. value \in Seq(S) /\ Len(value) <= 1
  BY DEF Optional
<1>2. CASE value = <<>>
  BY <1>2 DEF Given
<1>3. CASE value # <<>>
  <2>1. value[1] \in S
    BY <1>1, <1>3
  <2> QED BY <1>3, <2>1 DEF Given
<1> QED BY <1>2, <1>3

\* So is what the last entry of an override says.
LEMMA LastSaidTyped ==
    ASSUME NEW S, NEW base \in S, NEW n \in Nat, NEW I, I \subseteq 1..n,
           NEW said \in [I -> Optional(S)]
    PROVE  LastSaid(said, base) \in S
<1> DEFINE named == {i \in I : said[i] # <<>>}
<1>1. CASE named = {}
  BY <1>1 DEF LastSaid
<1>2. CASE named # {}
  <2>1. named \subseteq Nat /\ \A i \in named : i <= n
    OBVIOUS
  <2>2. \E e \in named : \A j \in named : j <= e
    <3> HIDE DEF named
    <3> QED BY <1>2, <2>1, GreatestExists
  <2>3. \E e \in named : \A j \in named : e >= j
    <3>1. PICK e \in named : \A j \in named : j <= e
      BY <2>2
    <3>2. \A j \in named : e >= j
      BY <2>1, <3>1
    <3> QED BY <3>2
  <2>4. Max(named) \in named
    BY <2>3 DEF Max
  <2>5. said[Max(named)] \in Seq(S) /\ said[Max(named)] # <<>>
    BY <2>4 DEF Optional
  <2>6. said[Max(named)][1] \in S
    BY <2>5
  <2>7. LastSaid(said, base) = said[Max(named)][1]
    BY <1>2 DEF LastSaid
  <2> QED BY <2>6, <2>7
<1> QED BY <1>1, <1>2

\* An override leaves of a route what the rules are about.
LEMMA RouteOverridden ==
    ASSUME NEW route \in RouteShape, NEW o \in OverrideShape
    PROVE  /\ OverrideRoute(route, o) \in RouteShape
           /\ SameRoute(OverrideRoute(route, o), route)
           /\ OverrideRoute(route, o).kind = route.kind /\ OverrideRoute(route, o).keys = route.keys
<1> DEFINE entries == {i \in DOMAIN o.routes : SameRoute(o.routes[i], route)}
<1>1. o.routes \in Seq(RouteOverrideShape)
  BY DEF OverrideShape
<1>2. Len(o.routes) \in Nat /\ entries \subseteq 1..Len(o.routes)
      /\ \A i \in entries : o.routes[i] \in RouteOverrideShape
  BY <1>1
<1> HIDE DEF entries
<1>3. PICK t : t = LastSaid([i \in entries |-> o.routes[i].target], route.target)
  OBVIOUS
<1>4. PICK a : a = LastSaid([i \in entries |-> o.routes[i].forward_auth], route.forward_auth)
  OBVIOUS
<1>5. t \in Targets
  <2>1. [i \in entries |-> o.routes[i].target] \in [entries -> Optional(Targets)]
    BY <1>2 DEF RouteOverrideShape
  <2>2. route.target \in Targets
    BY DEF RouteShape
  <2> QED BY ONLY <1>2, <1>3, <2>1, <2>2, LastSaidTyped
<1>6. a \in BOOLEAN
  <2>1. [i \in entries |-> o.routes[i].forward_auth] \in [entries -> Optional(BOOLEAN)]
    BY <1>2 DEF RouteOverrideShape
  <2>2. route.forward_auth \in BOOLEAN
    BY DEF RouteShape
  <2> QED BY ONLY <1>2, <1>4, <2>1, <2>2, LastSaidTyped
<1>7. OverrideRoute(route, o) = [route EXCEPT !.target = t, !.forward_auth = a]
  BY <1>3, <1>4 DEF OverrideRoute, entries
<1>8. PICK r : r = OverrideRoute(route, o)
  OBVIOUS
<1>9. r \in RouteShape /\ SameRoute(r, route) /\ r.kind = route.kind /\ r.keys = route.keys
  BY ONLY <1>5, <1>6, <1>7, <1>8, route \in RouteShape DEF RouteShape, SameRoute
<1> QED BY <1>8, <1>9

\* An override leaves of a map what its rules are about.
LEMMA MapOverridden ==
    ASSUME NEW sm \in MapShape, NEW o \in OverrideShape
    PROVE  Overridden(sm, o) \in MapShape /\ SameRules(Overridden(sm, o), sm)
<1>1. sm.routes \in Seq(RouteShape) /\ sm.target \in Targets /\ sm.target_reads \in BOOLEAN
  BY DEF MapShape
<1>2. PICK routes : routes = [i \in DOMAIN sm.routes |-> OverrideRoute(sm.routes[i], o)]
  OBVIOUS
<1>3. /\ routes \in Seq(RouteShape) /\ DOMAIN routes = DOMAIN sm.routes
      /\ \A i \in DOMAIN sm.routes :
            /\ SameRoute(routes[i], sm.routes[i])
            /\ routes[i].kind = sm.routes[i].kind /\ routes[i].keys = sm.routes[i].keys
  <2>1. \A i \in DOMAIN sm.routes : sm.routes[i] \in RouteShape
    BY <1>1
  <2>2. \A i \in DOMAIN sm.routes :
            /\ OverrideRoute(sm.routes[i], o) \in RouteShape
            /\ SameRoute(OverrideRoute(sm.routes[i], o), sm.routes[i])
            /\ OverrideRoute(sm.routes[i], o).kind = sm.routes[i].kind
            /\ OverrideRoute(sm.routes[i], o).keys = sm.routes[i].keys
    BY <2>1, RouteOverridden
  <2>3. DOMAIN sm.routes = 1..Len(sm.routes) /\ Len(sm.routes) \in Nat
    BY <1>1
  <2>4. routes \in [1..Len(sm.routes) -> RouteShape]
    BY <1>2, <2>2, <2>3
  <2>5. routes \in Seq(RouteShape)
    BY <2>3, <2>4
  <2> QED BY <1>2, <2>2, <2>5
<1>4. PICK t : t = Given(o.target, sm.target)
  OBVIOUS
<1>5. PICK reads : reads = Given(o.target_reads, sm.target_reads)
  OBVIOUS
<1>6. t \in Targets /\ reads \in BOOLEAN
  <2>1. o.target \in Optional(Targets) /\ o.target_reads \in Optional(BOOLEAN)
    BY DEF OverrideShape
  <2> QED BY <1>1, <1>4, <1>5, <2>1, GivenTyped
<1>7. PICK m : m = Overridden(sm, o)
  OBVIOUS
<1>8. m = [sm EXCEPT !.routes = routes, !.target = t, !.target_reads = reads]
  BY <1>2, <1>4, <1>5, <1>7 DEF Overridden
<1>9. m \in MapShape /\ SameRules(m, sm)
  BY ONLY <1>3, <1>6, <1>8, sm \in MapShape DEF MapShape, SameRules
<1> QED BY <1>7, <1>9

\* So does a flag.
LEMMA MapTargeted ==
    ASSUME NEW sm \in MapShape, NEW f \in FlagShape
    PROVE  Targeted(sm, f) \in MapShape /\ SameRules(Targeted(sm, f), sm)
<1>1. sm.routes \in Seq(RouteShape) /\ sm.target \in Targets /\ sm.target_reads \in BOOLEAN
      /\ f.target \in Optional(Targets) /\ f.reads \in BOOLEAN
  BY DEF MapShape, FlagShape
<1>2. PICK m : m = Targeted(sm, f)
  OBVIOUS
<1>3. PICK reads : reads = (sm.target_reads \/ f.reads)
  OBVIOUS
<1>4. reads \in BOOLEAN
  BY <1>3
<1>5. CASE f.path = <<>>
  <2>1. PICK t : t = Given(f.target, sm.target)
    OBVIOUS
  <2>2. t \in Targets
    BY <1>1, <2>1, GivenTyped
  <2>3. m = [sm EXCEPT !.target = t, !.target_reads = reads]
    BY <1>2, <1>3, <1>5, <2>1 DEF Targeted
  <2>4. m \in MapShape /\ SameRules(m, sm)
    BY ONLY <1>4, <2>2, <2>3, sm \in MapShape DEF MapShape, SameRules, SameRoute
  <2> QED BY <1>2, <2>4
<1>6. CASE f.path # <<>>
  <2>1. PICK routes : routes = TargetedRoutes(sm, f)
    OBVIOUS
  <2>2. ASSUME NEW i \in DOMAIN sm.routes
        PROVE  /\ routes[i] \in RouteShape /\ SameRoute(routes[i], sm.routes[i])
               /\ routes[i].kind = sm.routes[i].kind /\ routes[i].keys = sm.routes[i].keys
    <3>1. sm.routes[i] \in RouteShape
      BY <1>1
    <3>2. sm.routes[i].target \in Targets
      BY <3>1 DEF RouteShape
    <3>3. PICK t : t = Given(f.target, sm.routes[i].target)
      OBVIOUS
    <3>4. t \in Targets
      BY <1>1, <3>2, <3>3, GivenTyped
    <3>5. routes[i] = sm.routes[i] \/ routes[i] = [sm.routes[i] EXCEPT !.target = t]
      BY <2>1, <3>3 DEF TargetedRoutes
    <3> QED BY ONLY <3>1, <3>4, <3>5 DEF RouteShape, SameRoute
  <2>3. routes \in Seq(RouteShape) /\ DOMAIN routes = DOMAIN sm.routes
    <3>1. DOMAIN sm.routes = 1..Len(sm.routes) /\ Len(sm.routes) \in Nat
      BY <1>1
    <3>2. routes \in [1..Len(sm.routes) -> RouteShape]
      BY <2>1, <2>2, <3>1 DEF TargetedRoutes
    <3> QED BY <3>1, <3>2
  <2>4. m = [sm EXCEPT !.routes = routes, !.target_reads = reads]
    BY <1>2, <1>3, <1>6, <2>1 DEF Targeted
  <2>5. m \in MapShape /\ SameRules(m, sm)
    BY ONLY <1>4, <2>2, <2>3, <2>4, sm \in MapShape DEF MapShape, SameRules
  <2> QED BY <1>2, <2>5
<1> QED BY <1>5, <1>6

\* A map's rules hold of what is left of it.
LEMMA RulesKept ==
    ASSUME NEW s \in MapShape, NEW t \in MapShape, SameRules(t, s),
           ParseDefaultKind(s), CheckRouteRules(s)
    PROVE  ParseDefaultKind(t) /\ CheckRouteRules(t)
<1>1. ParseDefaultKind(t)
  BY DEF SameRules, ParseDefaultKind
<1>2. \A i \in DOMAIN s.routes :
         /\ t.routes[i].method = s.routes[i].method /\ t.routes[i].path = s.routes[i].path
         /\ t.routes[i].kind = s.routes[i].kind /\ t.routes[i].keys = s.routes[i].keys
  BY DEF SameRules, SameRoute
<1>3. DOMAIN t.routes = DOMAIN s.routes /\ t.style = s.style
  BY DEF SameRules
<1>4. CheckRouteRules(t)
  BY <1>2, <1>3 DEF CheckRouteRules, CheckLiveKindMethods
<1> QED BY <1>1, <1>4

\* Maps that are left so keep their rules among each other too.
LEMMA MapsRewritten ==
    ASSUME maps \in Seq(MapShape), NEW new \in [DOMAIN maps -> MapShape],
           \A i \in DOMAIN maps : SameRules(new[i], maps[i]), maps' = new
    PROVE  maps' \in Seq(MapShape) /\ (RulesHold => RulesHold')
<1>1. DOMAIN maps = 1..Len(maps) /\ Len(maps) \in Nat /\ \A i \in DOMAIN maps : maps[i] \in MapShape
  BY ElementOfSeq
<1>2. new \in Seq(MapShape)
  BY <1>1
<1>3. ASSUME RulesHold PROVE CheckUnique'
  <2>1. \A i \in DOMAIN maps : new[i].service = maps[i].service /\ new[i].hosts = maps[i].hosts
    BY DEF SameRules
  <2> QED BY <1>3, <2>1 DEF RulesHold, CheckUnique
<1>4. ASSUME RulesHold
      PROVE  \A i \in DOMAIN maps' : ParseDefaultKind(maps'[i]) /\ CheckRouteRules(maps'[i])
  <2> SUFFICES ASSUME NEW i \in DOMAIN maps
               PROVE  ParseDefaultKind(new[i]) /\ CheckRouteRules(new[i])
    OBVIOUS
  <2>1. ParseDefaultKind(maps[i]) /\ CheckRouteRules(maps[i])
    BY <1>4 DEF RulesHold
  <2>2. maps[i] \in MapShape /\ new[i] \in MapShape /\ SameRules(new[i], maps[i])
    BY <1>1
  <2> QED BY ONLY <2>1, <2>2, RulesKept
<1> QED BY <1>2, <1>3, <1>4 DEF RulesHold


-----------------------------------------------------------------------------
(* The decision. *)

\* A request of no service, one that no route of its service matches, and one
\* that a route does.
UnknownAs(c, r) ==
    /\ c.services = {} /\ c.routes = {}
    /\ c.kind = ApplyScopeRule(ByMethod(r.method), r.method, {})

UnmatchedAs(c, r, sm) ==
    /\ c.services = {sm} /\ c.routes = {}
    /\ c.kind = ApplyScopeRule(IF sm.default_kind # NoKind THEN sm.default_kind
                               ELSE ByMethod(r.method), r.method, {})

MatchedAs(c, r, sm, route) ==
    /\ c.services = {sm} /\ c.routes = {route} /\ route.method \in {AnyMethod, r.method}
    /\ c.kind = ApplyScopeRule(route.kind, r.method, {route})

Ruled(sm) == sm \in MapShape /\ ParseDefaultKind(sm) /\ CheckRouteRules(sm)

ClassifiedAs(c, r) ==
    \/ UnknownAs(c, r)
    \/ \E sm \in ToSet(maps) :
          /\ Ruled(sm)
          /\ UnmatchedAs(c, r, sm) \/ \E route \in ToSet(sm.routes) : MatchedAs(c, r, sm, route)

\* The one service of a request's host, and its route if one matches.
LEMMA OneClassified ==
    ASSUME maps \in Seq(MapShape), RulesHold, NEW r \in Requests
    PROVE  ClassifiedAs(Classify(r), r)
<1>0. PICK c : c = Classify(r)
  OBVIOUS
<1>1. r.host \in Seq(STRING)
  BY MapsAssumption
<1>2. PICK sms : sms = ServiceFor(r.host)
  OBVIOUS
<1>3. PICK routes : routes = RoutesFor(sms, r)
  OBVIOUS
<1>4. /\ c.services = sms /\ c.routes = routes
      /\ c.kind = ApplyScopeRule(KindOf(sms, routes, r.method), r.method, routes)
  BY <1>0, <1>2, <1>3 DEF Classify
<1>5. CASE sms = {}
  <2>1. routes = {}
    BY <1>3, <1>5 DEF RoutesFor
  <2>2. KindOf(sms, routes, r.method) = ByMethod(r.method)
    BY <1>5, <2>1 DEF KindOf
  <2>3. UnknownAs(c, r)
    BY <1>4, <1>5, <2>1, <2>2 DEF UnknownAs
  <2> QED BY <1>0, <2>3 DEF ClassifiedAs
<1>6. CASE sms # {}
  <2>1. PICK sm \in sms : TRUE
    BY <1>6
  <2>2. sms = {sm}
    <3>1. \A t \in sms : t = sm
      BY <1>1, <1>2, <2>1, OneService DEF RulesHold
    <3> QED BY <2>1, <3>1
  <2>3. PICK i \in DOMAIN maps : sm = maps[i]
    BY <1>2, <2>1 DEF ServiceFor, ToSet
  <2>4. sm \in ToSet(maps) /\ sm \in MapShape /\ Ruled(sm) /\ CheckRouteRules(sm)
    BY <2>3 DEF RulesHold, ToSet, Ruled
  <2>5. routes = MatchRoute(sm, r.method, r.path)
    BY <1>3, <2>2 DEF RoutesFor
  <2>6. CASE routes = {}
    <3>1. KindOf(sms, routes, r.method)
            = IF sm.default_kind # NoKind THEN sm.default_kind ELSE ByMethod(r.method)
      <4>1. (CHOOSE s \in sms : TRUE) = sm
        BY <2>2
      <4> QED BY <2>2, <2>6, <4>1 DEF KindOf
    <3>2. UnmatchedAs(c, r, sm)
      BY <1>4, <2>2, <2>6, <3>1 DEF UnmatchedAs
    <3> QED BY <1>0, <2>4, <3>2 DEF ClassifiedAs
  <2>7. CASE routes # {}
    <3>1. PICK route \in routes : TRUE
      BY <2>7
    <3>2. \A other \in routes : other = route
      BY <2>4, <2>5, <3>1, OneRoute
    <3>3. route \in ToSet(sm.routes) /\ route.method \in {AnyMethod, r.method}
      BY <2>4, <2>5, <3>1, OneRoute
    <3>4. routes = {route}
      BY <3>1, <3>2
    <3>5. KindOf(sms, routes, r.method) = route.kind
      <4>1. (CHOOSE x \in routes : TRUE) = route
        BY <3>4
      <4> QED BY <2>7, <4>1 DEF KindOf
    <3>6. MatchedAs(c, r, sm, route)
      BY <1>4, <2>2, <3>3, <3>4, <3>5 DEF MatchedAs
    <3> QED BY <1>0, <2>4, <3>3, <3>6 DEF ClassifiedAs
  <2> QED BY <2>6, <2>7
<1> QED BY <1>5, <1>6

\* A request is decided as its map, checked and validated, says.
LEMMA DecidedAsMapped ==
    ASSUME maps \in Seq(MapShape), RulesHold, Validated, NEW r \in Requests, NEW c, c = Classify(r),
           sent' = [request |-> r, kind |-> c.kind, routes |-> c.routes, services |-> c.services,
                    by |-> Answerer(Resolve(r, c), c.kind)],
           UNCHANGED <<maps, allow>>
    PROVE  AnsweredAsMapped'
<1> DEFINE Reached(sm) == /\ sm.target # Self
                          /\ r.host \in CredentialHosts(sm) => sm.target = Loopback
<1>1. PICK target : target = Resolve(r, c)
  OBVIOUS
<1>2. PICK by : by = Answerer(target, c.kind)
  OBVIOUS
<1>3. /\ sent'.request = r /\ sent'.kind = c.kind /\ sent'.routes = c.routes
      /\ sent'.services = c.services /\ sent'.by = by
  BY <1>1, <1>2
<1>4. /\ target # Self => by = target
      /\ target = Self /\ c.kind \in LiveKinds => by = "live"
      /\ target = Self /\ c.kind \notin LiveKinds => by = "irimi"
  BY <1>2 DEF Answerer
<1>5. /\ LiveKinds = {"read", "llm", "telemetry"} /\ TargetableKinds = {"write", "unknown"}
      /\ Self = "self" /\ Loopback = "loopback" /\ AnyMethod = "*"
  BY DEF LiveKinds, TargetableKinds, Self, Loopback, AnyMethod
<1>6. ASSUME UnknownAs(c, r)
      PROVE  AnsweredAsMapped'
  <2>0. /\ c.services = {} /\ c.routes = {}
        /\ c.kind = ApplyScopeRule(ByMethod(r.method), r.method, {})
    BY <1>6 DEF UnknownAs
  <2>1. target = Self
    BY <1>1, <2>0 DEF Resolve
  <2>2. r.method \notin SafeMethods => c.kind = "unknown"
    BY <1>5, <2>0 DEF ApplyScopeRule, ByMethod
  <2> QED BY <1>3, <1>4, <1>5, <2>0, <2>1, <2>2
      DEF AnsweredAsMapped, LiveOnlyAsNamed, TargetsAnswerTheirService
<1>7. ASSUME NEW sm \in ToSet(maps), c.services = {sm}, sm \in MapShape,
             ParseDefaultKind(sm), CheckRouteRules(sm)
      PROVE  /\ ValidateTargets(sm) /\ sm.target \in Targets
             /\ target = IF r.host \in CredentialHosts(sm) /\ TargetOf(sm, c) # Loopback
                         THEN Self ELSE TargetOf(sm, c)
             /\ sm.target \in {Self, Loopback} \cup allow
  <2>1. ValidateTargets(sm)
    BY <1>7 DEF Validated
  <2>2. (CHOOSE s \in c.services : TRUE) = sm
    BY <1>7
  <2>3. c.services # {}
    BY <1>7
  <2>4. target = IF r.host \in CredentialHosts(sm) /\ TargetOf(sm, c) # Loopback
                 THEN Self ELSE TargetOf(sm, c)
    BY <1>1, <2>2, <2>3 DEF Resolve
  <2>5. sm.target \in {Self, Loopback} \cup allow
    BY <2>1 DEF ValidateTargets, CheckTargetHost
  <2> QED BY <1>7, <2>1, <2>4, <2>5 DEF MapShape
<1>8. ASSUME NEW sm \in ToSet(maps), c.services = {sm}, sm \in MapShape,
             ParseDefaultKind(sm), CheckRouteRules(sm), c.routes = {},
             c.kind = ApplyScopeRule(IF sm.default_kind # NoKind THEN sm.default_kind
                                     ELSE ByMethod(r.method), r.method, {})
      PROVE  AnsweredAsMapped'
  <2>1. TargetOf(sm, c) = ServiceTargetFor(sm, c.kind)
    BY <1>8 DEF TargetOf
  <2>2. /\ c.kind \in TargetableKinds => TargetOf(sm, c) = sm.target
        /\ c.kind = "read" => TargetOf(sm, c) = IF sm.target_reads THEN sm.target ELSE Self
        /\ c.kind \notin TargetableKinds \cup {"read"} => TargetOf(sm, c) = Self
    BY <1>5, <2>1 DEF ServiceTargetFor
  <2>3. c.kind \in LiveKinds => r.method \in SafeMethods
    BY <1>5, <1>8 DEF ApplyScopeRule
  <2>4. /\ sm.target \in Targets
        /\ target = IF r.host \in CredentialHosts(sm) /\ TargetOf(sm, c) # Loopback
                    THEN Self ELSE TargetOf(sm, c)
        /\ sm.target \in {Self, Loopback} \cup allow
    BY <1>7, <1>8
  <2>5. target \in {Self, sm.target}
    BY <2>2, <2>4
  <2>6. by = "live" => target = Self /\ c.kind \in LiveKinds
    BY <1>4, <1>5, <2>4, <2>5 DEF Targets
  <2>7. LiveOnlyAsNamed'
    BY <1>3, <2>3, <2>6 DEF LiveOnlyAsNamed
  <2>8. by \in {"live", "irimi", Loopback} \cup allow
    BY <1>4, <2>4, <2>5
  <2>9. r.host \in CredentialHosts(sm) => by \in {"live", "irimi", Loopback}
    BY <1>4, <2>4
  <2>10. Reached(sm) /\ c.kind \in TargetableKinds => by = sm.target
    BY <1>4, <1>5, <2>2, <2>4
  <2>11. Reached(sm) /\ c.kind = "read" =>
             by = IF sm.target_reads THEN sm.target ELSE "live"
    BY <1>4, <1>5, <2>2, <2>4
  <2>12. TargetsAnswerTheirService'
    BY <1>3, <1>8, <2>8, <2>9, <2>10, <2>11 DEF TargetsAnswerTheirService
  <2> QED BY <2>7, <2>12 DEF AnsweredAsMapped
<1>9. ASSUME NEW sm \in ToSet(maps), c.services = {sm}, sm \in MapShape,
             ParseDefaultKind(sm), CheckRouteRules(sm),
             NEW route \in ToSet(sm.routes), c.routes = {route},
             route.method \in {AnyMethod, r.method},
             c.kind = ApplyScopeRule(route.kind, r.method, {route})
      PROVE  AnsweredAsMapped'
  <2>1. TargetOf(sm, c) = TargetFor(sm, route)
    <3>1. (CHOOSE x \in c.routes : TRUE) = route /\ c.routes # {}
      BY <1>9
    <3> QED BY <3>1 DEF TargetOf
  <2>2. /\ route.target # Self => TargetOf(sm, c) = route.target
        /\ route.target = Self =>
              /\ route.kind \in TargetableKinds => TargetOf(sm, c) = sm.target
              /\ route.kind = "read" => TargetOf(sm, c) = IF sm.target_reads THEN sm.target ELSE Self
              /\ route.kind \notin TargetableKinds \cup {"read"} => TargetOf(sm, c) = Self
    BY <1>5, <2>1 DEF TargetFor, ServiceTargetFor
  <2>3. /\ sm.target \in Targets /\ ValidateTargets(sm)
        /\ target = IF r.host \in CredentialHosts(sm) /\ TargetOf(sm, c) # Loopback
                    THEN Self ELSE TargetOf(sm, c)
        /\ sm.target \in {Self, Loopback} \cup allow
    BY <1>7, <1>9
  <2>4. /\ route.target \in Targets /\ route.target \in {Self, Loopback} \cup allow
        /\ route.kind \in Kinds
    <3>1. route \in RouteShape
      BY <1>9 DEF MapShape, ToSet
    <3> QED BY <2>3, <3>1 DEF RouteShape, ValidateTargets, CheckTargetHost
  <2>5. target \in {Self, sm.target, route.target}
    BY <2>2, <2>3, <2>4 DEF Kinds, TargetableKinds
  <2>6. by = "live" => target = Self /\ c.kind \in LiveKinds
    BY <1>4, <1>5, <2>3, <2>4, <2>5 DEF Targets
  <2>7. /\ route.kind \in LiveKinds => route.method # AnyMethod
        /\ route.kind \in LiveKinds /\ route.method \in DestructiveMethods => "live_because" \in route.keys
    <3>1. PICK i \in DOMAIN sm.routes : route = sm.routes[i]
      BY DEF ToSet
    <3>2. CheckLiveKindMethods(route)
      BY <1>9, <3>1 DEF CheckRouteRules
    <3> QED BY <3>2 DEF CheckLiveKindMethods
  <2>8. c.kind = route.kind
    <3>1. route.kind \in LiveKinds => route.method = r.method
      BY <1>9, <2>7
    <3> QED BY <1>9, <3>1 DEF ApplyScopeRule
  <2>9. LiveOnlyAsNamed'
    <3>1. c.kind \in LiveKinds => route.method = r.method /\ route.kind \in LiveKinds
      BY <1>9, <2>7, <2>8
    <3> QED BY <1>3, <1>9, <2>6, <2>7, <3>1 DEF LiveOnlyAsNamed
  <2>10. by \in {"live", "irimi", Loopback} \cup allow
    BY <1>4, <2>3, <2>4, <2>5
  <2>11. r.host \in CredentialHosts(sm) => by \in {"live", "irimi", Loopback}
    BY <1>4, <2>3
  <2>12. Reached(sm) /\ route.target = Self /\ c.kind \in TargetableKinds => by = sm.target
    BY <1>4, <1>5, <2>2, <2>3, <2>8
  <2>13. Reached(sm) /\ route.target = Self /\ c.kind = "read" =>
             by = IF sm.target_reads THEN sm.target ELSE "live"
    BY <1>4, <1>5, <2>2, <2>3, <2>8
  <2>14. TargetsAnswerTheirService'
    BY <1>3, <1>9, <2>10, <2>11, <2>12, <2>13 DEF TargetsAnswerTheirService
  <2> QED BY <2>9, <2>14 DEF AnsweredAsMapped
<1>10. ClassifiedAs(c, r)
  BY ONLY maps \in Seq(MapShape), RulesHold, r \in Requests, c = Classify(r), OneClassified
<1>11. ASSUME NEW sm \in ToSet(maps), Ruled(sm), UnmatchedAs(c, r, sm)
       PROVE  AnsweredAsMapped'
  BY <1>8, <1>11 DEF Ruled, UnmatchedAs
<1>12. ASSUME NEW sm \in ToSet(maps), Ruled(sm),
              NEW route \in ToSet(sm.routes), MatchedAs(c, r, sm, route)
       PROVE  AnsweredAsMapped'
  BY <1>9, <1>12 DEF Ruled, MatchedAs
<1> QED BY ONLY <1>6, <1>10, <1>11, <1>12 DEF ClassifiedAs

-----------------------------------------------------------------------------
(* The steps. *)

\* Every step of loading the maps, and the decision, keep the invariant.
LEMMA MapsStep ==
    ASSUME MapsInv, MapsNext
    PROVE  MapsInv'
<1>1. /\ maps \in Seq(MapShape)
      /\ stage \in {"read", "shipped", "overridden", "merged", "serving", "refused"}
      /\ stage \notin {"read", "refused"} => RulesHold
      /\ stage = "serving" => Validated
      /\ sent # <<>> => stage = "serving"
      /\ AnsweredAsMapped
  BY DEF MapsInv
<1>2. ASSUME UNCHANGED maps
      PROVE  maps' \in Seq(MapShape) /\ (RulesHold => RulesHold')
  BY <1>1, <1>2 DEF RulesHold, CheckUnique
<1>3. ASSUME UNCHANGED <<maps, allow>>, Validated
      PROVE  Validated'
  BY <1>3 DEF Validated, ValidateTargets, CheckTargetHost
<1>4. ASSUME UNCHANGED sent, sent = <<>>
      PROVE  AnsweredAsMapped'
  BY <1>4 DEF AnsweredAsMapped, LiveOnlyAsNamed, TargetsAnswerTheirService, Decided
<1>5. ASSUME NEW s, Refuse(s), s # "serving"
      PROVE  MapsInv'
  <2>1. sent = <<>>
    BY <1>1, <1>5 DEF Refuse
  <2>2. stage' = "refused" /\ UNCHANGED <<maps, allow, sent>>
    BY <1>5 DEF Refuse
  <2> QED BY <1>2, <1>4, <2>1, <2>2 DEF MapsInv
<1>6. CASE LoadShipped
  <2>1. sent = <<>> /\ stage' = "shipped" /\ UNCHANGED <<maps, allow, sent>>
    BY <1>1, <1>6 DEF LoadShipped
  <2>2. RulesHold
    BY <1>6 DEF LoadShipped, ParsesAll, RulesHold, ToSet
  <2> QED BY <1>2, <1>4, <2>1, <2>2 DEF MapsInv
<1>7. CASE OverridesDone \/ FlagsDone
  <2>1. sent = <<>> /\ stage \notin {"read", "refused"}
        /\ stage' \in {"overridden", "merged"} /\ UNCHANGED <<maps, allow, sent>>
    BY <1>1, <1>7 DEF OverridesDone, FlagsDone
  <2> QED BY <1>1, <1>2, <1>4, <2>1 DEF MapsInv
<1>8. CASE Validate
  <2>1. sent = <<>> /\ stage \notin {"read", "refused"} /\ Validated
        /\ stage' = "serving" /\ UNCHANGED <<maps, allow, sent>>
    BY <1>1, <1>8 DEF Validate
  <2> QED BY <1>1, <1>2, <1>3, <1>4, <2>1 DEF MapsInv
<1>9. ASSUME NEW new \in [DOMAIN maps -> MapShape], \A i \in DOMAIN maps : SameRules(new[i], maps[i]),
             maps' = new, stage \in {"shipped", "overridden"}, UNCHANGED <<stage, allow, sent>>
      PROVE  MapsInv'
  <2>1. maps' \in Seq(MapShape) /\ RulesHold'
    BY <1>1, <1>9, MapsRewritten
  <2> QED BY <1>1, <1>4, <1>9, <2>1 DEF MapsInv
<1>10. \A i \in DOMAIN maps : maps[i] \in MapShape /\ SameRules(maps[i], maps[i])
  BY <1>1 DEF SameRules, SameRoute
<1>11. ASSUME NEW o \in Overrides, ApplyOverrides(o)
       PROVE  MapsInv'
  <2>1. o \in OverrideShape
    BY MapsAssumption
  <2>2. PICK new : new = [i \in DOMAIN maps |-> IF maps[i].service = o.service
                                               THEN Overridden(maps[i], o) ELSE maps[i]]
    OBVIOUS
  <2>3. new \in [DOMAIN maps -> MapShape] /\ \A i \in DOMAIN maps : SameRules(new[i], maps[i])
    BY <1>10, <2>1, <2>2, MapOverridden
  <2> QED BY <1>9, <1>11, <2>2, <2>3 DEF ApplyOverrides
<1>12. ASSUME NEW f \in Flags, ApplyCliTargets(f)
       PROVE  MapsInv'
  <2>1. f \in FlagShape
    BY MapsAssumption
  <2>2. PICK new : new = [i \in DOMAIN maps |-> IF maps[i] \in ServiceFor(f.host)
                                               THEN Targeted(maps[i], f) ELSE maps[i]]
    OBVIOUS
  <2>3. new \in [DOMAIN maps -> MapShape] /\ \A i \in DOMAIN maps : SameRules(new[i], maps[i])
    BY <1>10, <2>1, <2>2, MapTargeted
  <2> QED BY <1>9, <1>12, <2>2, <2>3 DEF ApplyCliTargets
<1>13. ASSUME NEW r \in Requests, Decide(r)
       PROVE  MapsInv'
  <2>1. stage = "serving" /\ UNCHANGED <<stage, maps, allow>>
    BY <1>13 DEF Decide
  <2>2. PICK c : c = Classify(r)
    OBVIOUS
  <2>3. sent' = [request |-> r, kind |-> c.kind, routes |-> c.routes, services |-> c.services,
                 by |-> Answerer(Resolve(r, c), c.kind)]
    BY <1>13, <2>2 DEF Decide
  <2>4. AnsweredAsMapped'
    BY <1>1, <2>1, <2>2, <2>3, DecidedAsMapped
  <2> QED BY <1>1, <1>2, <1>3, <2>1, <2>4 DEF MapsInv
<1> QED BY <1>5, <1>6, <1>7, <1>8, <1>11, <1>12, <1>13 DEF MapsNext

\* The maps of a process keep their rules from the shipped files to a request.
THEOREM MapsInvariant == FairSpec => []MapsInv
<1>1. Init => MapsInv
  <2> SUFFICES ASSUME Init PROVE MapsInv
    OBVIOUS
  <2>1. maps \in Shipped /\ stage = "read" /\ sent = <<>>
    BY DEF Init, MapsInit
  <2> QED BY <2>1, MapsAssumption
      DEF MapsInv, AnsweredAsMapped, LiveOnlyAsNamed, TargetsAnswerTheirService, Decided
<1>2. MapsInv /\ [Next]_vars => MapsInv'
  <2> SUFFICES ASSUME MapsInv, [Next]_vars PROVE MapsInv'
    OBVIOUS
  <2>1. CASE UNCHANGED mapVars
    BY <2>1 DEF mapVars, MapsInv, RulesHold, CheckUnique, Validated, ValidateTargets, CheckTargetHost,
       AnsweredAsMapped, LiveOnlyAsNamed, TargetsAnswerTheirService, Decided
  <2>2. CASE MapsNext
    BY <2>2, MapsStep
  <2> QED BY <2>1, <2>2 DEF Next, vars
<1> QED BY <1>1, <1>2, PTL DEF FairSpec

\* Whatever the maps, overrides and flags say, the real service answers only what
\* is safe or what a route names, and a target answers for its service
\* (`check_route_rules`, `validate_targets`, `classify`, `resolve`).
THEOREM RequestsAreAnsweredAsMapped == FairSpec => []AnsweredAsMapped
<1>1. MapsInv => AnsweredAsMapped
  BY DEF MapsInv
<1> QED BY <1>1, MapsInvariant, PTL

=============================================================================
