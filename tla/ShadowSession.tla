--------------------------- MODULE ShadowSession ---------------------------
(***************************************************************************)
(* How the shadow proxy decides, answers and remembers requests.           *)
(*                                                                         *)
(* Each request of an agent ("flow") is planned on a worker thread         *)
(* (ShadowSession.plan, ShadowPolicy.decide), put on its flow and finished *)
(* by one hook of the event loop: `response` (ShadowSession.complete) or   *)
(* `error` (ShadowSession.fail).  The store's writer thread ends runs.     *)
(* The three share two locked stores, the write log (WriteLog) and the     *)
(* idempotency keys (idempotency.Store), each with its own bounded memory  *)
(* of ended runs (EndedRuns).  A lock covers one call, so an action here   *)
(* makes at most one call on a shared store, and everything between two    *)
(* calls interleaves.                                                      *)
(*                                                                         *)
(* A faked write's answer is minted once; it is identified by the flow     *)
(* that minted it.  A write's parameters are the object it acts on.        *)
(***************************************************************************)
EXTENDS Naturals, Sequences

CONSTANTS
    Flows,         \* the requests an agent sends
    Runs,          \* run ids
    Keys,          \* idempotency keys
    Objects,       \* what a write changes and a read shows (a charge, a channel)
    Requests,      \* the requests of this model, a set of RequestSet
    MaxEndedRuns,  \* MAX_ENDED_RUNS
    MaxEnds,       \* bound: the run ends the store's writer handles
    NoKey, NoFlow, NoRun

Kinds == {"read", "llm", "telemetry", "write", "unknown"}
LiveKinds == {"read", "llm", "telemetry"}

RequestSet == [run     : Runs,
               kind    : Kinds,
               key     : Keys \cup {NoKey},
               obj     : Objects,
               checked : BOOLEAN,   \* its route names a precondition
               target  : BOOLEAN]   \* the service map sends it to a target

ASSUME SessionAssumption ==
    /\ Requests \subseteq RequestSet
    /\ Requests # {}
    /\ MaxEndedRuns \in Nat \ {0}
    /\ MaxEnds \in Nat
    /\ NoKey \notin Keys
    /\ NoFlow \notin Flows
    /\ NoRun \notin Runs

VARIABLES
    pc,         \* where each flow is
    req,        \* its request
    decided,    \* how it is answered (Decision, and the flags a write's answer carries)
    verdict,    \* the precondition's outcome
    answer,     \* the flow that minted the answer it gets
    seen,       \* the faked writes its answer is built from
    coverage,   \* Exchange.overlay of a read
    writeLog,   \* WriteLog._runs
    logEnded,   \* WriteLog._ended, oldest first
    keys,       \* idempotency.Store._runs: the flow whose answer a key holds
    keyEnded,   \* Store._ended, oldest first
    ending,     \* the run whose `ended` callback is between its two calls
    ends,       \* the ends handled so far
    after,      \* history: the flows already answered when this one was sent
    everEnded   \* history: the runs whose end reached the write log

flowVars == <<pc, req, decided, verdict, answer, seen, coverage, after>>
endVars  == <<logEnded, keyEnded, ending, ends, everEnded>>
vars == <<pc, req, decided, verdict, answer, seen, coverage, after,
          writeLog, keys, logEnded, keyEnded, ending, ends, everEnded>>

Places    == {"unsent", "admitted", "snapped", "recalled", "checked", "planned", "done", "failed"}
Decisions == {"none", "forward", "delegate", "fresh", "rejected", "retry", "conflict", "irimi"}
Verdicts  == {"unasked", "passed", "not_evaluable", "rejected"}
Coverages == {"unset", "none", "full", "partial", "streamed"}

-----------------------------------------------------------------------------
(* The bounded memory of ended runs.                                        *)

\* Whether the memory s holds run r.
Remembers(s, r) == \E i \in 1..Len(s) : s[i] = r

\* s without its i-th element.
Without(s, i) == [j \in 1..(Len(s) - 1) |-> IF j < i THEN s[j] ELSE s[j + 1]]

\* r becomes the newest; past the bound the oldest is forgotten.
EndedAdd(s, r) ==
    LET kept  == IF Remembers(s, r)
                 THEN Without(s, CHOOSE i \in 1..Len(s) : s[i] = r)
                 ELSE s
        added == Append(kept, r)
    IN  IF Len(added) > MaxEndedRuns THEN Tail(added) ELSE added

-----------------------------------------------------------------------------
(* What a flow is.                                                          *)

Run(f) == req[f].run
IsLive(f) == req[f].kind \in LiveKinds

\* A keyed write on a matched route has a slot in the idempotency store.
Keyed(f) == req[f].kind = "write" /\ req[f].key # NoKey
SameSlot(f, g) == Keyed(f) /\ Keyed(g) /\ Run(f) = Run(g) /\ req[f].key = req[g].key

\* Mutant: a slot without its run.
HeldByAnyRun(f) ==
    IF ~Keyed(f) \/ \A r \in Runs : keys[r][req[f].key] = NoFlow THEN NoFlow
    ELSE keys[CHOOSE r \in Runs : keys[r][req[f].key] # NoFlow][req[f].key]

\* The answer an earlier write left under f's key, if any.
Held(f) == IF Keyed(f) THEN keys[Run(f)][req[f].key] ELSE NoFlow

\* A write irimi faked itself: not live, not a target's, no error, no
\* rejection, no retry or conflict.
IsAuthoredWrite(f) == ~IsLive(f) /\ decided[f] = "fresh"

\* The run's faked writes that act on f's object.
InScope(f, writes) == {g \in writes : req[g].obj = req[f].obj}

Init ==
    /\ pc = [f \in Flows |-> "unsent"]
    /\ req \in [Flows -> {CHOOSE r \in Requests : TRUE}]
    /\ decided = [f \in Flows |-> "none"]
    /\ verdict = [f \in Flows |-> "unasked"]
    /\ answer = [f \in Flows |-> NoFlow]
    /\ seen = [f \in Flows |-> {}]
    /\ coverage = [f \in Flows |-> "unset"]
    /\ after = [f \in Flows |-> {}]
    /\ writeLog = [r \in Runs |-> {}]
    /\ keys = [r \in Runs |-> [k \in Keys |-> NoFlow]]
    /\ logEnded = <<>>
    /\ keyEnded = <<>>
    /\ ending = NoRun
    /\ ends = 0
    /\ everEnded = {}

\* Move f to a place, with a decision.
Go(f, place, decision) ==
    /\ pc' = [pc EXCEPT ![f] = place]
    /\ decided' = [decided EXCEPT ![f] = decision]

-----------------------------------------------------------------------------
(* The request hook and the worker thread.                                  *)

\* A request is parsed and admitted.
Send(f, r) ==
    /\ pc[f] = "unsent"
    /\ Go(f, "admitted", "none")
    /\ req' = [req EXCEPT ![f] = r]
    /\ after' = [after EXCEPT ![f] = {g \in Flows : pc[g] = "done"}]
    /\ UNCHANGED <<verdict, answer, seen, coverage, writeLog, keys, endVars>>

\* The decision raises, a write's body was cut or a target is refused: irimi's
\* 502, sent at once, never a forward and never the fake.
DecisionFailed(f) ==
    /\ pc[f] \in {"admitted", "snapped", "recalled", "checked"}
    /\ Go(f, "done", "irimi")
    /\ UNCHANGED <<req, after, verdict, answer, seen, coverage, writeLog, keys, endVars>>

PlanDelegate(f) ==
    /\ pc[f] = "admitted"
    /\ req[f].target
    /\ Go(f, "planned", "delegate")
    /\ UNCHANGED <<req, after, verdict, answer, seen, coverage, writeLog, keys, endVars>>

PlanForward(f) ==
    /\ pc[f] = "admitted"
    /\ ~req[f].target
    /\ IsLive(f)
    /\ Go(f, "planned", "forward")
    /\ UNCHANGED <<req, after, verdict, answer, seen, coverage, writeLog, keys, endVars>>

\* The run's writes, as the precondition will see them, are read once.
Snapshot(f) ==
    /\ pc[f] = "admitted"
    /\ ~req[f].target
    /\ ~IsLive(f)
    /\ pc' = [pc EXCEPT ![f] = "snapped"]
    /\ seen' = [seen EXCEPT ![f] = writeLog[Run(f)]]
    /\ UNCHANGED <<req, after, decided, verdict, answer, coverage, writeLog, keys, endVars>>

\* Mutant: the key is not looked up.
RecallNothing(f) ==
    /\ pc[f] = "snapped"
    /\ pc' = [pc EXCEPT ![f] = "recalled"]
    /\ UNCHANGED <<req, after, decided, verdict, answer, seen, coverage, writeLog, keys, endVars>>

\* The key is unused, or there is none: the write is decided afresh.
RecallFresh(f) ==
    /\ pc[f] = "snapped"
    /\ Held(f) = NoFlow
    /\ pc' = [pc EXCEPT ![f] = "recalled"]
    /\ UNCHANGED <<req, after, decided, verdict, answer, seen, coverage, writeLog, keys, endVars>>

\* A retry gets the key's first answer again, verdict included.
RecallRetry(f) ==
    /\ pc[f] = "snapped"
    /\ Held(f) # NoFlow
    /\ req[Held(f)].obj = req[f].obj
    /\ Go(f, "planned", "retry")
    /\ answer' = [answer EXCEPT ![f] = Held(f)]
    /\ verdict' = [verdict EXCEPT ![f] = verdict[Held(f)]]
    /\ UNCHANGED <<req, after, seen, coverage, writeLog, keys, endVars>>

\* The key was used with other parameters: the service's idempotency error.
RecallConflict(f) ==
    /\ pc[f] = "snapped"
    /\ Held(f) # NoFlow
    /\ req[Held(f)].obj # req[f].obj
    /\ Go(f, "planned", "conflict")
    /\ UNCHANGED <<req, after, verdict, answer, seen, coverage, writeLog, keys, endVars>>

\* Mutant of VerdictOn: the service's document is judged as it was read.
VerdictOnService(f, doc) ==
    IF doc = "unread" THEN "not_evaluable" ELSE IF doc = "spent" THEN "rejected" ELSE "passed"

\* The check read finds the object `doc` on the real service: "open", "spent"
\* or, where no verdict can be given, "unread".  The run's writes are applied
\* to the document before it is judged; a checked write uses its object up (a
\* refund of the whole charge, a cancellation, an archiving).
VerdictOn(f, doc) ==
    IF doc = "unread" THEN "not_evaluable"
    ELSE IF doc = "spent" \/ InScope(f, seen[f]) # {} THEN "rejected" ELSE "passed"

\* Mutant: a write with no precondition is left waiting for a verdict.
CheckOnlyChecked(f) ==
    /\ pc[f] = "recalled"
    /\ req[f].checked
    /\ pc' = [pc EXCEPT ![f] = "checked"]
    /\ \E doc \in {"open", "spent", "unread"} :
          verdict' = [verdict EXCEPT ![f] = VerdictOn(f, doc)]
    /\ UNCHANGED <<req, after, decided, answer, seen, coverage, writeLog, keys, endVars>>

Check(f) ==
    /\ pc[f] = "recalled"
    /\ pc' = [pc EXCEPT ![f] = "checked"]
    /\ \/ /\ req[f].checked
          /\ \E doc \in {"open", "spent", "unread"} :
                verdict' = [verdict EXCEPT ![f] = VerdictOn(f, doc)]
       \/ /\ ~req[f].checked
          /\ UNCHANGED verdict
    /\ UNCHANGED <<req, after, decided, answer, seen, coverage, writeLog, keys, endVars>>

\* Mutant of Put: the last answer wins.
PutLast(f) ==
    IF Keyed(f) /\ ~Remembers(keyEnded, Run(f))
    THEN keys' = [keys EXCEPT ![Run(f)][req[f].key] = f]
    ELSE UNCHANGED keys

\* Store.put: the first answer wins, and an ended run keeps no key.
Put(f) ==
    IF Keyed(f) /\ Held(f) = NoFlow /\ ~Remembers(keyEnded, Run(f))
    THEN keys' = [keys EXCEPT ![Run(f)][req[f].key] = f]
    ELSE UNCHANGED keys

\* The answer, accepted or rejected, is minted and remembered under its key.
AnswerLocally(f) ==
    /\ pc[f] = "checked"
    /\ Go(f, "planned", IF verdict[f] = "rejected" THEN "rejected" ELSE "fresh")
    /\ answer' = [answer EXCEPT ![f] = f]
    /\ Put(f)
    /\ UNCHANGED <<req, after, verdict, seen, coverage, writeLog, endVars>>

-----------------------------------------------------------------------------
(* The response and error hooks.                                            *)

\* The plan cannot be put on its flow (an answer mitmproxy refuses to encode, a
\* translation or a target that does not apply): irimi's 502 here too, though
\* the key already holds the answer.
CarryFails(f) ==
    /\ pc[f] = "planned"
    /\ Go(f, "done", "irimi")
    /\ UNCHANGED <<req, after, verdict, answer, seen, coverage, writeLog, keys, endVars>>

\* Mutants of File: an add that replaces the run's writes, and one that does not
\* ask whether the run ended.
FileOnlyThis(f) ==
    IF IsAuthoredWrite(f) /\ ~Remembers(logEnded, Run(f))
    THEN writeLog' = [writeLog EXCEPT ![Run(f)] = {f}]
    ELSE UNCHANGED writeLog
FileAnyway(f) ==
    IF IsAuthoredWrite(f)
    THEN writeLog' = [writeLog EXCEPT ![Run(f)] = @ \cup {f}]
    ELSE UNCHANGED writeLog

\* WriteLog.add, unless the run has ended.
File(f) ==
    IF IsAuthoredWrite(f) /\ ~Remembers(logEnded, Run(f))
    THEN writeLog' = [writeLog EXCEPT ![Run(f)] = @ \cup {f}]
    ELSE UNCHANGED writeLog

\* An answer from irimi or from a target is recorded; a faked write is filed
\* before the agent gets the answer.
CompleteAnswer(f) ==
    /\ pc[f] = "planned"
    /\ decided[f] # "forward"
    /\ pc' = [pc EXCEPT ![f] = "done"]
    /\ File(f)
    /\ UNCHANGED <<req, after, decided, verdict, answer, seen, coverage, keys, endVars>>

\* A live answer.  A read is overlaid with the run's writes as they are now:
\* "plain" answers are, those the overlay cannot edit ("short": cut, unreadable,
\* the service's own error) are marked partial, "streamed" ones are left alone.
CompleteForward(f) ==
    /\ pc[f] = "planned"
    /\ decided[f] = "forward"
    /\ pc' = [pc EXCEPT ![f] = "done"]
    /\ \E body \in IF req[f].kind = "read" THEN {"plain", "short", "streamed"} ELSE {"streamed"} :
          LET mine == InScope(f, writeLog[Run(f)])
          IN  /\ coverage' = [coverage EXCEPT ![f] =
                     CASE body = "streamed" -> "streamed"
                       [] body # "streamed" /\ mine = {} -> "none"
                       [] body = "plain" /\ mine # {} -> "full"
                       [] body = "short" /\ mine # {} -> "partial"]
              /\ seen' = [seen EXCEPT ![f] = IF body = "plain" THEN mine ELSE {}]
    /\ UNCHANGED <<req, after, decided, verdict, answer, writeLog, keys, endVars>>

\* The connection fails before the answer: it is recorded, and nothing is filed.
Fail(f) ==
    /\ pc[f] = "planned"
    /\ pc' = [pc EXCEPT ![f] = "failed"]
    /\ UNCHANGED <<req, after, decided, verdict, answer, seen, coverage, writeLog, keys, endVars>>

-----------------------------------------------------------------------------
(* The `ended` callback on the store's writer thread: two calls.            *)

EndWriteLog(r) ==
    /\ ending = NoRun
    /\ ends < MaxEnds
    /\ ends' = ends + 1
    /\ ending' = r
    /\ writeLog' = [writeLog EXCEPT ![r] = {}]
    /\ logEnded' = EndedAdd(logEnded, r)
    /\ everEnded' = everEnded \cup {r}
    /\ UNCHANGED <<flowVars, keys, keyEnded>>

EndKeys ==
    /\ ending # NoRun
    /\ ending' = NoRun
    /\ keys' = [keys EXCEPT ![ending] = [k \in Keys |-> NoFlow]]
    /\ keyEnded' = EndedAdd(keyEnded, ending)
    /\ UNCHANGED <<flowVars, writeLog, logEnded, ends, everEnded>>

-----------------------------------------------------------------------------

Decide(f) ==
    \/ PlanDelegate(f) \/ PlanForward(f)
    \/ Snapshot(f) \/ RecallFresh(f) \/ RecallRetry(f) \/ RecallConflict(f)
    \/ Check(f) \/ AnswerLocally(f)

Plan(f) == Decide(f) \/ DecisionFailed(f)

Finish(f) == CompleteAnswer(f) \/ CompleteForward(f) \/ Fail(f) \/ CarryFails(f)

Next ==
    \/ \E f \in Flows : \/ \E r \in Requests : Send(f, r)
                        \/ Plan(f)
                        \/ Finish(f)
    \/ \E r \in Runs : EndWriteLog(r)
    \/ EndKeys

Spec == Init /\ [][Next]_vars

\* A worker thread finishes its plan: a plan waits on nothing but the check
\* read, which times out, and need not raise to end.  A hook that has a local answer runs; a service or a
\* target may never answer, so nothing is assumed of those.
FairSpec ==
    /\ Spec
    /\ \A f \in Flows : WF_vars(Decide(f)) /\ WF_vars(CompleteAnswer(f) /\ decided[f] # "delegate")

-----------------------------------------------------------------------------
(* What the session promises.                                               *)

TypeOK ==
    /\ pc \in [Flows -> Places]
    /\ req \in [Flows -> Requests]
    /\ decided \in [Flows -> Decisions]
    /\ verdict \in [Flows -> Verdicts]
    /\ answer \in [Flows -> Flows \cup {NoFlow}]
    /\ seen \in [Flows -> SUBSET Flows]
    /\ coverage \in [Flows -> Coverages]
    /\ after \in [Flows -> SUBSET Flows]
    /\ writeLog \in [Runs -> SUBSET Flows]
    /\ keys \in [Runs -> [Keys -> Flows \cup {NoFlow}]]
    /\ logEnded \in Seq(Runs)
    /\ keyEnded \in Seq(Runs)
    /\ ending \in Runs \cup {NoRun}
    /\ ends \in Nat
    /\ everEnded \subseteq Runs

\* A write irimi decided on its own evidence, not from an earlier answer.
DecidedAfresh(f) == decided[f] \in {"fresh", "rejected"}

\* f's run is still open, and g had been answered when f was sent.
Follows(f, g) == g \in after[f] /\ Run(f) = Run(g) /\ Run(f) \notin everEnded

\* A keyed write sent after the same key was answered is never decided, and so
\* never applied, a second time, whatever the other flows do in between
\* (policy.ShadowPolicy.decide, idempotency.Store).
RetryAppliedOnce ==
    \A f, g \in Flows :
        Follows(f, g) /\ SameSlot(f, g) /\ DecidedAfresh(g) => ~DecidedAfresh(f)

\* All retries of one key get the same answer, even when the first sendings of
\* that key raced and were answered differently (Store.put: the first wins).
RetriesAgree ==
    \A f, g \in Flows :
        /\ SameSlot(f, g)
        /\ Run(f) \notin everEnded
        /\ decided[f] = "retry"
        /\ decided[g] = "retry"
        => answer[f] = answer[g]

\* A write sent after a faked write on the same object was answered does not
\* pass its precondition check: the check is made on a snapshot of the write
\* log, and the snapshot holds every write answered before the request.
CheckSeesEarlierWrites ==
    \A f, g \in Flows :
        /\ Follows(f, g)
        /\ IsAuthoredWrite(g)
        /\ req[g].obj = req[f].obj
        /\ decided[f] = "fresh"
        => verdict[f] # "passed"

\* An agent reads its own writes: a read sent after a faked write on its object
\* was answered shows that write, or is marked as not showing it all, or was
\* streamed (Overlay, ShadowSession.complete).
ReadsShowAnsweredWrites ==
    \A f, g \in Flows :
        /\ Follows(f, g)
        /\ IsAuthoredWrite(g)
        /\ req[g].obj = req[f].obj
        /\ decided[f] = "forward"
        /\ pc[f] = "done"
        => \/ coverage[f] = "full" /\ g \in seen[f]
           \/ coverage[f] \in {"partial", "streamed"}

\* One run never sees another's writes or answers, even when both use the same
\* key and object (docs/serve-mode.md, "Each run has its own write log").
RunsNeverMix ==
    /\ \A r \in Runs : \A f \in writeLog[r] : Run(f) = r
    /\ \A f \in Flows : \A g \in seen[f] : Run(g) = Run(f)
    /\ \A f \in Flows : answer[f] # NoFlow => Run(answer[f]) = Run(f)

\* While an ended run is remembered it holds no write and no key, whatever the
\* requests that outlived it do (WriteLog.add, Store.put).
EndedRunsHoldNothing ==
    \A r \in Runs :
        /\ Remembers(logEnded, r) => writeLog[r] = {}
        /\ Remembers(keyEnded, r) => \A k \in Keys : keys[r][k] = NoFlow

\* A rejected write, a retry, an error and an answer the agent never got are
\* not in the write log (exchange.is_authored_write, ShadowSession.fail).
OnlyAnsweredFakesAreFiled ==
    \A r \in Runs : \A f \in writeLog[r] : pc[f] = "done" /\ IsAuthoredWrite(f)

\* A write irimi answers itself does get an answer, or loses its connection:
\* no decision waits for another flow or for the end of a run.
FakedWritesAreAnswered ==
    \A f \in Flows :
        (pc[f] = "admitted" /\ ~IsLive(f) /\ ~req[f].target) ~> pc[f] \in {"done", "failed"}

-----------------------------------------------------------------------------
(* Why they hold: the inductive invariant, in the parts that build on each   *)
(* other.                                                                    *)

Undecided == {"unsent", "admitted", "snapped", "recalled", "checked"}
Planning  == {"snapped", "recalled", "checked"}

\* What a flow's place says of its decision; a request follows only answered ones.
Placed ==
    \A f \in Flows :
        /\ pc[f] = "unsent" => after[f] = {} /\ seen[f] = {} /\ answer[f] = NoFlow
        /\ pc[f] \in Undecided <=> decided[f] = "none"
        /\ pc[f] \in Planning \/ decided[f] \in {"fresh", "rejected"} => ~IsLive(f)
        /\ \A g \in after[f] : pc[g] = "done"

\* Both memories, and the run being ended, hold only runs that ended.
EndsKnown ==
    /\ \A r \in Runs : Remembers(logEnded, r) \/ Remembers(keyEnded, r) => r \in everEnded
    /\ ending # NoRun => ending \in everEnded

\* An open run's key holds an answer once some write with it was decided, and
\* every retry got the answer the key still holds.
KeysHold ==
    \A f \in Flows :
        Keyed(f) /\ Run(f) \notin everEnded =>
            /\ DecidedAfresh(f) \/ decided[f] = "retry" => Held(f) # NoFlow
            /\ decided[f] = "retry" => Held(f) = answer[f]

\* So a write sent after an answer under its key never gets past the recall.
RecallStops ==
    \A f, g \in Flows :
        Follows(f, g) /\ SameSlot(f, g) /\ DecidedAfresh(g)
            => pc[f] \notin {"recalled", "checked"} /\ ~DecidedAfresh(f)

\* An open run's log holds every faked write that was answered.
LogHolds ==
    \A f \in Flows :
        IsAuthoredWrite(f) /\ pc[f] = "done" /\ Run(f) \notin everEnded
            => f \in writeLog[Run(f)]

\* So the snapshot a write is judged on holds every earlier one, and a write
\* that passed had none on its object.
SnapshotHolds ==
    /\ \A f, g \in Flows :
          /\ Follows(f, g)
          /\ IsAuthoredWrite(g)
          /\ pc[f] \in Planning \/ decided[f] = "fresh"
          => g \in seen[f]
    /\ \A f \in Flows :
          /\ pc[f] = "checked" \/ decided[f] = "fresh"
          /\ verdict[f] = "passed"
          => InScope(f, seen[f]) = {}
    /\ \A f \in Flows :
          pc[f] \in {"unsent", "admitted", "snapped", "recalled"} => verdict[f] = "unasked"

\* What is shared was sent, by the run that shares it.
SharedWithin ==
    /\ \A f \in Flows : \A g \in seen[f] : pc[g] = "done"
    /\ \A f \in Flows : answer[f] # NoFlow => pc[answer[f]] # "unsent"
    /\ \A r \in Runs, k \in Keys :
          keys[r][k] # NoFlow => Run(keys[r][k]) = r /\ pc[keys[r][k]] # "unsent"

IInv ==
    /\ TypeOK /\ Placed /\ EndsKnown
    /\ EndedRunsHoldNothing
    /\ KeysHold /\ RecallStops
    /\ LogHolds /\ SnapshotHolds /\ ReadsShowAnsweredWrites
    /\ OnlyAnsweredFakesAreFiled /\ SharedWithin /\ RunsNeverMix

-----------------------------------------------------------------------------
(* What it all amounts to for an agent.                                     *)

Owner == [f \in Flows |-> IF pc[f] = "unsent" THEN NoRun ELSE Run(f)]

\* The writes whose agent was told that they were applied.
Told == {f \in Flows : pc[f] = "done" /\ IsAuthoredWrite(f)}

Memory == INSTANCE RunMemory WITH
    Requests <- Flows, NoRequest <- NoFlow, owner <- Owner, told <- Told, memory <- writeLog,
    first <- keys, given <- answer, view <- seen, closed <- everEnded

\* However requests, worker threads, hooks and run ends interleave, a run's memory
\* behaves as one that is changed in single steps: an agent is told of a write in
\* the step that files it, a key's first answer stays, and a request is shown and
\* given only what is its own run's (WriteLog, idempotency.Store).
ImplementsMemory == Memory!Spec

=============================================================================
