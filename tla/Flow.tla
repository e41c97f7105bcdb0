-------------------------------- MODULE Flow --------------------------------
(***************************************************************************)
(* One request on its way through the proxy: the engine that listens, the  *)
(* hooks mitmproxy calls, irimi's own endpoint, and what leaves for the    *)
(* network.  mitmproxy sends on whatever a hook leaves without an answer,  *)
(* also when the hook raised, so every step that may raise is a fault here *)
(* and up to MaxFaults of them happen.                                     *)
(***************************************************************************)
EXTENDS Naturals, Sequences, FiniteSets, SequencesExt

CONSTANTS
    None,
    MaxFaults,  \* bound: steps that raise
    Cap,        \* MAX_STORED_BODY
    MaxChunks,  \* bound: chunks of a streamed answer
    Chunk       \* the chunks a service sends: sequences of "x" and "nl"

ASSUME FlowAssumption ==
    /\ MaxFaults \in Nat /\ Cap \in Nat /\ MaxChunks \in Nat
    /\ \A c \in Chunk : c \in Seq({"x", "nl"})

VARIABLES
    main,       \* start_engine's thread
    engine,     \* MitmEngine.run
    stopped,    \* _stopped
    exiting,    \* mitmproxy's should_exit
    ready,      \* _ready, and whether a start error came with it
    listening,
    at,         \* where the flow is
    req,        \* what the client sent
    dial,       \* where mitmproxy would send the flow's request
    headers,    \* the flow's request headers that matter
    answer,     \* flow.response
    meta,       \* the plan kept on the flow (META_KEY)
    tee,        \* the stream's capture (STREAM_KEY)
    passed,     \* history: the streamed bytes that went on to the agent
    recorded,   \* the exchanges handed to the store: who answered
    captured,   \* a streamed answer as it was recorded
    told,       \* what the endpoint handed to the store
    sent,       \* history: what left for the network
    plan,       \* history: the session's plan
    got,        \* what the agent got
    faults

engineVars == <<main, engine, stopped, exiting, ready, listening>>
requestVars == <<req, dial, headers>>
answerVars == <<answer, meta, tee, passed>>
outVars == <<recorded, captured, told, sent, plan, got>>
vars == <<engineVars, at, requestVars, answerVars, outVars, faults>>

-----------------------------------------------------------------------------
(* What clients send.                                                       *)

Proxied == [door : {"forward"}, run : BOOLEAN, head : BOOLEAN]

\* `host` is the first segment of the path of a request to the listener.
BaseUrl == [door : {"reverse"}, run : BOOLEAN, head : {FALSE}, loopback : BOOLEAN,
            host : {"allowed", "not allowed", "malformed"}]

\* `id` is the run a control route names: the process's own, any other that can
\* name a directory, `unattributed` or none of these.
Control ==
    [door : {"control"}, version : {"ours", "another major"}, method : {"GET", "POST"},
     route : {"health", "none", "start", "end", "tool-calls", "recorded"},
     id : {"own", "run", "unattributed", "no name"},
     body : {"object", "too long", "not an object", "not the fields"}]

Requests == Proxied \cup BaseUrl \cup Control

ToolRoutes == {"tool-calls", "recorded"}

\* Plans: `by` is `answered_by`, `settled` marks irimi's own error.
Error(why) == [by |-> "irimi", settled |-> TRUE, why |-> why, auth |-> FALSE]
Plans ==
    [by : {"live", "live, translated", "fake"}, settled : {FALSE}, why : {None}, auth : {FALSE}]
    \cup [by : {"delegated"}, settled : {FALSE}, why : {None}, auth : BOOLEAN]
    \cup {Error("decision-failed"), Error("target-failed")}
Stamp(p) == IF p.by = "live, translated" THEN "live" ELSE p.by

\* What answers carry as their stamp: a name, a status or none.
Stamped(stamps) == [by : {"irimi", "fake", "control", "service"}, stamp : stamps]

\* None is no string, no status and none of the records it stands in for.
ASSUME NoneAssumption ==
    /\ None \notin {"irimi", "fake", "delegated"} /\ None \notin Nat /\ None \notin Plans
    /\ None \notin Stamped({"irimi", "fake", "delegated"})
    /\ None \notin Stamped(Nat) /\ None \notin Stamped({None})
    /\ None \notin [to : {"service", "listener", "upstream", "target"},
                     headers : SUBSET {"credential", "run"}]

Init ==
    /\ main = "starting" /\ engine = "new"
    /\ stopped = FALSE /\ exiting = FALSE /\ listening = FALSE
    /\ ready = "no"
    /\ at = "none" /\ req = None
    /\ dial = None /\ headers = {}
    /\ answer = None /\ meta = None /\ tee = None /\ passed = <<>>
    /\ recorded = <<>> /\ captured = None /\ told = <<>>
    /\ sent = None /\ plan = None /\ got = None
    /\ faults = 0

-----------------------------------------------------------------------------
(* The engine: start_engine waits in one thread for `run` in another.       *)

flowVars == <<at, requestVars, answerVars, outVars, faults>>

\* `run` ends; whoever waits for it to be ready is told.
EndRun ==
    /\ engine' = "ended"
    /\ listening' = FALSE
    /\ ready' = IF ready = "no" THEN "failed" ELSE ready

MakeMaster ==
    /\ engine = "new"
    /\ \/ engine' = "made" /\ UNCHANGED <<listening, ready>>
       \/ EndRun
    /\ UNCHANGED <<main, stopped, exiting, flowVars>>

\* Mutant of CheckStopped: a shutdown that came before the master is forgotten.
CheckNothing ==
    /\ engine = "made"
    /\ engine' = "binding" /\ UNCHANGED <<listening, ready>>
    /\ UNCHANGED <<main, stopped, exiting, flowVars>>

CheckStopped ==
    /\ engine = "made"
    /\ \/ stopped /\ EndRun
       \/ ~stopped /\ engine' = "binding" /\ UNCHANGED <<listening, ready>>
    /\ UNCHANGED <<main, stopped, exiting, flowVars>>

\* The running hook: the listener is bound, or the engine is told why not.
Bind ==
    /\ engine = "binding"
    /\ engine' = "serving"
    /\ \/ listening' = TRUE /\ ready' = "bound" /\ UNCHANGED exiting
       \/ listening' = FALSE /\ ready' = "failed" /\ exiting' = TRUE
    /\ UNCHANGED <<main, stopped, flowVars>>

EndServing ==
    /\ engine = "serving" /\ exiting
    /\ EndRun
    /\ UNCHANGED <<main, stopped, exiting, flowVars>>

\* start_engine returns; an engine that failed, or is late, is stopped.
WaitReady ==
    /\ main = "starting"
    /\ \/ ready = "bound" /\ main' = "up"
       \/ ready # "bound" /\ main' = "stopping"
    /\ UNCHANGED <<engine, stopped, exiting, ready, listening, flowVars>>

LeaveUp ==
    /\ main = "up"
    /\ main' = "stopping"
    /\ UNCHANGED <<engine, stopped, exiting, ready, listening, flowVars>>

\* EngineThread.stop: `_stopped` is set before `_master` is looked at, and `run`
\* sets `_master` before it looks at `_stopped`.
SetStopped ==
    /\ main = "stopping"
    /\ stopped' = TRUE /\ main' = "shutting"
    /\ UNCHANGED <<engine, exiting, ready, listening, flowVars>>

Shutdown ==
    /\ main = "shutting"
    /\ exiting' = (exiting \/ engine # "new")
    /\ main' = "stopped"
    /\ UNCHANGED <<engine, stopped, ready, listening, flowVars>>

-----------------------------------------------------------------------------
(* The request hook, one step per step of `_request`.                       *)

Hooked == at \in {"parse", "admit", "point", "strip", "plan", "carry"}

Arrive ==
    /\ listening /\ at = "none"
    /\ \E r \in Requests :
          /\ req' = r
          /\ dial' = IF r.door = "forward" THEN "service" ELSE "listener"
          /\ headers' = {"credential"} \cup {h \in {"run"} : r.door # "control" /\ r.run}
    /\ at' = "parse"
    /\ UNCHANGED <<engineVars, answerVars, outVars, faults>>

\* `_answer_now`: the answer is on the flow before anything is recorded.
AnswerNow(p) ==
    /\ answer' = [by |-> Stamp(p), stamp |-> Stamp(p)]
    /\ recorded' = Append(recorded, Stamp(p))
    /\ at' = "hooked"
    /\ UNCHANGED <<meta, tee, passed>>

Refuse == AnswerNow(Error("refused"))

Fault == faults < MaxFaults /\ faults' = faults + 1

\* Mutant of Raise: the exception leaves the hook.
RaiseThrough ==
    /\ Hooked
    /\ Fault
    /\ at' = "hooked" /\ UNCHANGED <<answerVars, recorded>>
    /\ UNCHANGED <<engineVars, requestVars, captured, told, sent, plan, got>>

\* Anything in the hook may raise.  The guard answers a bare flow itself; an
\* answered one is sent as it is.
Raise ==
    /\ Hooked
    /\ Fault
    /\ AnswerNow(Error("decision-failed"))
    /\ UNCHANGED <<engineVars, requestVars, captured, told, sent, plan, got>>

Parse ==
    /\ at = "parse"
    /\ at' = "admit"
    /\ UNCHANGED <<engineVars, requestVars, answerVars, outVars, faults>>

\* What `_answer` checks, in its order.
Refusal(r) ==
    IF r.version # "ours" THEN 426
    ELSE IF r.route = "none" THEN 404
    ELSE IF r.method = (IF r.route = "health" THEN "POST" ELSE "GET") THEN 405
    ELSE IF r.route = "health" THEN None
    ELSE IF r.id = "no name" THEN 400
    ELSE IF r.id \in {"unattributed", "own"} /\ r.route \notin ToolRoutes THEN 400
    ELSE IF r.body = "too long" THEN 413
    ELSE IF r.body # "object" THEN 400
    ELSE None

\* The store is told of a start, an end and a tool call; a lookup finds a
\* recorded call in a replay, or does not.
Tells(r) == r.route \in {"start", "end", "tool-calls"}
Statuses(r) ==
    IF Refusal(r) # None THEN {Refusal(r)}
    ELSE CASE r.route = "recorded" -> {200, 404}
           [] r.route = "health"   -> {200}
           [] OTHER                -> {204}

\* The endpoint answers, and hands the store what it accepted.  Neither a store
\* nor a summary that raises stops it, but a store's failure is a 500.
AnswerControl ==
    /\ at = "admit" /\ req.door = "control"
    /\ at' = "hooked"
    /\ \/ /\ \E status \in Statuses(req) : answer' = [by |-> "control", stamp |-> status]
          /\ told' = IF Refusal(req) = None /\ Tells(req) THEN Append(told, req.route) ELSE told
          /\ UNCHANGED faults
       \/ /\ Fault
          /\ answer' = [by |-> "control", stamp |-> 500]
          /\ UNCHANGED told
    /\ UNCHANGED <<engineVars, requestVars, meta, tee, passed, recorded, captured, sent, plan, got>>

\* A base-URL request comes from this machine and names a host of a map.
MayRelay(r) == r.loopback /\ r.host = "allowed"

Admit ==
    /\ at = "admit" /\ req.door # "control"
    /\ \/ req.door = "forward" /\ at' = "strip" /\ UNCHANGED <<answerVars, recorded>>
       \/ req.door = "reverse" /\ MayRelay(req) /\ at' = "point" /\ UNCHANGED <<answerVars, recorded>>
       \/ req.door = "reverse" /\ ~MayRelay(req) /\ Refuse
    /\ UNCHANGED <<engineVars, requestVars, captured, told, sent, plan, got, faults>>

\* A step that raises where the hook expects it: the request is refused.
RefuseRaised ==
    /\ at \in {"parse", "admit", "point"}
    /\ Fault
    /\ Refuse
    /\ UNCHANGED <<engineVars, requestVars, captured, told, sent, plan, got>>

PointUpstream ==
    /\ at = "point"
    /\ dial' = "upstream"
    /\ at' = "strip"
    /\ UNCHANGED <<engineVars, req, headers, answerVars, outVars, faults>>

\* A header that cannot be stripped stays on, and the request goes on.
StripHeaders ==
    /\ at = "strip"
    /\ at' = "plan"
    /\ \/ headers' = headers \ {"run"} /\ UNCHANGED faults
       \/ "run" \in headers /\ Fault /\ UNCHANGED headers
    /\ UNCHANGED <<engineVars, req, dial, answerVars, outVars>>

\* The session's plan, made on a worker thread; it never raises.
MakePlan ==
    /\ at = "plan"
    /\ plan' \in Plans
    /\ at' = "carry"
    /\ UNCHANGED <<engineVars, requestVars, answerVars, recorded, captured, told, sent, got, faults>>

Settle ==
    /\ at = "carry" /\ plan.settled
    /\ AnswerNow(plan)
    /\ UNCHANGED <<engineVars, requestVars, captured, told, sent, plan, got, faults>>

Keep(p) == meta' = p /\ at' = "hooked" /\ UNCHANGED <<tee, passed, recorded>>

CarryForward ==
    /\ at = "carry" /\ plan.by \in {"live", "live, translated"}
    /\ Keep(plan)
    /\ UNCHANGED <<engineVars, requestVars, answer, captured, told, sent, plan, got, faults>>

\* `_to_target`: the credentials go first, then the flow is pointed.
CarryDelegate ==
    /\ at = "carry" /\ plan.by = "delegated"
    /\ headers' = IF plan.auth THEN headers ELSE headers \ {"credential"}
    /\ dial' = "target"
    /\ Keep(plan)
    /\ UNCHANGED <<engineVars, req, answer, captured, told, sent, plan, got, faults>>

\* Pointing it raises half-way: irimi answers, never the real service.
DelegateFails ==
    /\ at = "carry" /\ plan.by = "delegated"
    /\ Fault
    /\ headers' \in SUBSET headers
    /\ AnswerNow(Error("target-failed"))
    /\ UNCHANGED <<engineVars, req, dial, captured, told, sent, plan, got>>

CarryRespond ==
    /\ at = "carry" /\ plan.by = "fake"
    /\ answer' = [by |-> "fake", stamp |-> "fake"]
    /\ Keep(plan)
    /\ UNCHANGED <<engineVars, requestVars, captured, told, sent, plan, got, faults>>

\* irimi's own reads are recorded last.  A callback that raises there leaves
\* the hook's guard to answer a forwarded flow and drop its plan.
IssuedRaises ==
    /\ at = "hooked" /\ meta # None
    /\ Fault
    /\ \/ answer # None /\ UNCHANGED <<answer, meta, recorded>>
       \/ /\ answer = None
          /\ meta' = None
          /\ answer' = [by |-> "irimi", stamp |-> "irimi"]
          /\ recorded' = Append(recorded, "irimi")
    /\ at' = "returned"
    /\ UNCHANGED <<engineVars, requestVars, tee, passed, captured, told, sent, plan, got>>

ReturnHook ==
    /\ at = "hooked"
    /\ at' = "returned"
    /\ UNCHANGED <<engineVars, requestVars, answerVars, outVars, faults>>

-----------------------------------------------------------------------------
(* mitmproxy: it answers an answered flow and sends on a bare one.          *)

Dial ==
    /\ at = "returned" /\ answer = None
    /\ sent' = [to |-> dial, headers |-> headers]
    /\ at' = "sent"
    /\ UNCHANGED <<engineVars, requestVars, answerVars, recorded, captured, told, plan, got, faults>>

Answered ==
    /\ at = "returned" /\ answer # None
    /\ at' = "response"
    /\ UNCHANGED <<engineVars, requestVars, answerVars, outVars, faults>>

\* The service did not answer, broke off, or the client left.  A client that
\* leaves while the request hook runs is noticed when it has returned, whatever
\* the hook left on the flow.
Break ==
    /\ at \in {"returned", "sent", "body", "streaming"}
    /\ at' = "error"
    /\ UNCHANGED <<engineVars, requestVars, answerVars, outVars, faults>>

Asked == meta # None /\ Stamp(meta) \in {"live", "delegated"}
HeaderStamp(p) == IF Stamp(p) = "live" THEN None ELSE Stamp(p)

\* The answer's headers: it is stamped, and an event stream is let through
\* chunk by chunk.  A raise leaves it unstreamed, stamped or not.
Responseheaders ==
    /\ at = "sent"
    /\ \/ /\ answer' = [by |-> "service", stamp |-> IF Asked THEN HeaderStamp(meta) ELSE None]
          /\ \/ at' = "body" /\ UNCHANGED tee
             \/ Asked /\ at' = "streaming" /\ tee' = [chunks |-> <<>>, truncated |-> FALSE]
          /\ UNCHANGED faults
       \/ /\ Asked /\ Fault
          /\ answer' \in [by : {"service"}, stamp : {None, HeaderStamp(meta)}]
          /\ at' = "body" /\ UNCHANGED tee
    /\ UNCHANGED <<engineVars, requestVars, meta, passed, outVars>>

Lengths(chunks) == [i \in 1..Len(chunks) |-> Len(chunks[i])]
SumOf(lens) ==
    LET upto[i \in 0..Len(lens)] == IF i = 0 THEN 0 ELSE upto[i - 1] + lens[i]
    IN  upto[Len(lens)]
Total(chunks) == SumOf(Lengths(chunks))
Upto(s, n) == SubSeq(s, 1, IF n < Len(s) THEN n ELSE Len(s))

\* Mutant of Capture: the chunk that does not fit is left out, unmarked.
CaptureIfFits(t, c) == IF Len(c) > Cap - Total(t.chunks) THEN t ELSE [t EXCEPT !.chunks = Append(@, c)]

\* The tee keeps what fits under the cap.
Capture(t, c) ==
    IF t.truncated \/ c = <<>> THEN t
    ELSE LET room == Cap - Total(t.chunks)
             kept == Upto(c, room)
         IN [chunks    |-> IF kept = <<>> THEN t.chunks ELSE Append(t.chunks, kept),
             truncated |-> Len(c) > room]

\* A chunk passes through the tee; one that raises there goes on too.
PassChunk ==
    /\ at = "streaming"
    /\ \E c \in Chunk :
          /\ Len(passed) < MaxChunks
          /\ passed' = Append(passed, c)
          /\ \/ tee' = Capture(tee, c) /\ UNCHANGED faults
             \/ Fault /\ tee' = [tee EXCEPT !.truncated = TRUE]
    /\ UNCHANGED <<engineVars, at, requestVars, answer, meta, outVars>>

BodyEnds ==
    /\ at \in {"body", "streaming"}
    /\ at' = "response"
    /\ UNCHANGED <<engineVars, requestVars, answerVars, outVars, faults>>

-----------------------------------------------------------------------------
(* The response and error hooks.                                            *)

\* What a content encoding does: the bytes as they are, an encoding that cannot
\* be read, one that decodes to twice as much, and one that passes the cap.
Encodings == {"identity", "unreadable", "packed", "packed past the cap"}
Decode(body) == [i \in 1..(2 * Len(body)) |-> body[(i + 1) \div 2]]

CompleteLines(body) ==
    LET ends == {i \in 1..Len(body) : body[i] = "nl"}
    IN  Upto(body, IF ends = {} THEN 0 ELSE CHOOSE i \in ends : \A j \in ends : j <= i)

\* The lengths that cover the first `size` bytes.
ClipChunks(lens, size) ==
    LET before(i) == SumOf(SubSeq(lens, 1, i - 1))
        kept == {i \in 1..Len(lens) : before(i) < size}
    IN  [i \in 1..Cardinality(kept) |->
            IF lens[i] < size - before(i) THEN lens[i] ELSE size - before(i)]

\* The recorded body, its chunk lengths and whether it is short of the stream.
RecordedStream(t, whole, encoding) ==
    LET body == FlattenSeq(t.chunks)
        coded == encoding # "identity" /\ body # <<>>
        unread == coded /\ encoding = "unreadable"
        past == coded /\ encoding = "packed past the cap"
        text == CASE unread -> <<>>
                  [] past   -> Upto(Decode(body), Cap)
                  [] OTHER  -> IF coded THEN Decode(body) ELSE body
        lens == IF coded THEN IF text = <<>> THEN <<>> ELSE <<Len(text)>> ELSE Lengths(t.chunks)
        cut == t.truncated \/ ~whole \/ unread \/ past
        kept == IF cut THEN CompleteLines(text) ELSE text
    IN  [body |-> kept, chunks |-> ClipChunks(lens, Len(kept)), cut |-> cut, encoding |-> encoding]

\* Mutant of Pop: the plan stays on the flow.
KeepPlan == UNCHANGED <<meta, tee, passed>>

Pop == meta' = None /\ UNCHANGED <<tee, passed>>

\* Mutant of Unplanned: a flow the request hook settled is recorded again.
UnplannedRecorded ==
    /\ at = "response" /\ meta = None
    /\ got' = answer /\ recorded' = Append(recorded, answer.by)
    /\ at' = "done"
    /\ UNCHANGED <<engineVars, requestVars, answerVars, captured, told, sent, plan, faults>>

\* Answered in the request hook, or by nobody irimi knows of.
Unplanned ==
    /\ at = "response" /\ meta = None
    /\ got' = answer
    /\ at' = "done"
    /\ UNCHANGED <<engineVars, requestVars, answerVars, recorded, captured, told, sent, plan, faults>>

\* A streamed answer has gone: it is recorded as the tee kept it.
Streamed ==
    /\ at = "response" /\ meta # None /\ tee # None
    /\ Pop
    /\ got' = answer
    /\ recorded' = Append(recorded, Stamp(meta))
    /\ \E encoding \in Encodings : captured' = RecordedStream(tee, TRUE, encoding)
    /\ at' = "done"
    /\ UNCHANGED <<engineVars, requestVars, answer, told, sent, plan, faults>>

\* Any other is completed: a live read may be overlaid, and what is not live
\* is stamped again.
Completed ==
    /\ at = "response" /\ meta # None /\ tee = None
    /\ Pop
    /\ \E by \in {Stamp(meta)} \cup {b \in {"overlay"} : Stamp(meta) = "live"} :
          /\ answer' = IF by = "live" THEN answer ELSE [answer EXCEPT !.stamp = by]
          /\ recorded' = Append(recorded, by)
    /\ got' = answer'
    /\ at' = "done"
    /\ UNCHANGED <<engineVars, requestVars, captured, told, sent, plan, faults>>

\* It raises: the agent gets the answer as it came, and nothing is recorded.
ResponseRaises ==
    /\ at = "response" /\ meta # None
    /\ Fault
    /\ Pop
    /\ got' = answer
    /\ at' = "done"
    /\ UNCHANGED <<engineVars, requestVars, answer, recorded, captured, told, sent, plan>>

\* What the agent gets that has left, or whose service gave no whole answer.
NoAnswer == [by |-> "mitmproxy", stamp |-> None]

\* `error`: recorded as failed, with what of a stream passed.
Fail ==
    /\ Pop
    /\ \/ meta = None /\ UNCHANGED <<recorded, captured, faults>>
       \/ meta # None /\ Fault /\ UNCHANGED <<recorded, captured>>
       \/ /\ meta # None
          /\ recorded' = Append(recorded, Stamp(meta))
          /\ IF tee = None THEN UNCHANGED captured
             ELSE \E encoding \in Encodings : captured' = RecordedStream(tee, FALSE, encoding)
          /\ UNCHANGED faults
    /\ at' = "done"
    /\ UNCHANGED <<engineVars, requestVars, answer, told, sent, plan>>

ErrorHook ==
    /\ at = "error"
    /\ Fail
    /\ got' = IF tee # None THEN answer ELSE NoAnswer

\* The error hook may come after the response hook of the same flow.
LateError ==
    /\ at = "done"
    /\ Fail
    /\ UNCHANGED got

\* The engine's loop ended: the client's connection is gone.
Abandon ==
    /\ engine = "ended" /\ at \notin {"none", "done", "dropped"}
    /\ at' = "dropped"
    /\ UNCHANGED <<engineVars, requestVars, answerVars, outVars, faults>>

-----------------------------------------------------------------------------

Run == MakeMaster \/ CheckStopped \/ Bind \/ EndServing
StartAndStop == WaitReady \/ SetStopped \/ Shutdown

RequestHook ==
    \/ Parse \/ AnswerControl \/ Admit \/ PointUpstream \/ StripHeaders \/ MakePlan
    \/ Settle \/ CarryForward \/ CarryDelegate \/ CarryRespond \/ ReturnHook
ResponseHook == Unplanned \/ Streamed \/ Completed
Irimi == RequestHook \/ Dial \/ Answered \/ ResponseHook \/ ErrorHook
Raises == Raise \/ RefuseRaised \/ DelegateFails \/ IssuedRaises \/ ResponseRaises
Service == Break \/ Responseheaders \/ PassChunk \/ BodyEnds \/ LateError

Next ==
    \/ Run \/ StartAndStop \/ LeaveUp
    \/ engine = "serving" /\ (Arrive \/ Irimi \/ Raises \/ Service)
    \/ Abandon

Spec == Init /\ [][Next]_vars

\* The threads that start and run the engine go on, and so do the hooks once
\* a flow is in one.  Nothing is assumed of services, clients or the user, nor
\* that anything raises.
FairSpec ==
    /\ Spec
    /\ WF_vars(Run) /\ WF_vars(StartAndStop)
    /\ WF_vars(engine = "serving" /\ Irimi)

-----------------------------------------------------------------------------

\* What leaves for the network is what was planned to, and to where it was
\* planned: whatever raises in whichever hook, a flow irimi did not plan to
\* forward is answered by irimi (IrimiAddon: "Hooks never raise (fail-closed
\* hook rule)").  It carries no header of irimi's unless removing it raised,
\* and no credential to a target that was not to have them.
OnlyPlannedLeaves ==
    sent # None =>
        /\ plan # None /\ Stamp(plan) \in {"live", "delegated"}
        /\ sent.to = IF plan.by = "delegated" THEN "target"
                     ELSE IF req.door = "reverse" THEN "upstream" ELSE "service"
        /\ "run" \in sent.headers => faults > 0
        /\ "credential" \in sent.headers => plan.by # "delegated" \/ plan.auth

\* A flow is recorded once, as what answered it; a hook that raised may leave it
\* out.  What is recorded as from the network was sent there, unless its agent
\* left in the request hook: its record says who would have answered.  The store
\* hears of a post exactly when the SDK is told so, or has left before.
FromTheNetwork == {"live", "overlay", "delegated"}
Confirmed == got.by = "control" /\ got.stamp = 204

RecordedAsAnswered ==
    /\ Len(recorded) <= 1
    /\ recorded # <<>> =>
          \/ (recorded[1] \in FromTheNetwork) = (sent # None)
          \/ recorded[1] \in FromTheNetwork /\ sent = None /\ got = NoAnswer
    /\ at = "done" =>
          /\ recorded = <<>> => req.door = "control" \/ faults > 0
          /\ recorded # <<>> /\ got # NoAnswer =>
                IF sent = None THEN got.by = recorded[1]
                ELSE got.by = "service" /\ got.stamp \in {None, recorded[1]}
          /\ Confirmed => told # <<>>
          /\ told # <<>> => Confirmed \/ got = NoAnswer

\* Every answer irimi or a target made says so, streamed or not, also when one
\* hook raised: the other stamps it (`responseheaders`, `response`).
AnswersStamped ==
    at = "done" =>
        CASE got.by = "mitmproxy" -> TRUE
          [] got.by = "service"   ->
                \/ got.stamp = (IF recorded # <<>> THEN [live |-> None, overlay |-> "overlay",
                                 delegated |-> "delegated"][recorded[1]] ELSE HeaderStamp(plan))
                \/ faults > 1
          [] OTHER                -> got.stamp # None

\* What is recorded of a stream is the start of what the agent got, in whole
\* lines where it is short, marked when it is short, and covered by its chunks.
\* Bytes that are recorded as they came are no more than the cap.
StreamsRecordedInOrder ==
    captured # None =>
        LET all == FlattenSeq(passed)
            text == IF captured.encoding = "identity" THEN all ELSE Decode(all)
        IN  /\ IsPrefix(captured.body, text)
            /\ captured.body = text \/ captured.cut
            /\ captured.cut => captured.body = CompleteLines(captured.body)
            /\ SumOf(captured.chunks) = Len(captured.body)
            /\ captured.encoding = "identity" => Len(captured.body) <= Cap

\* A start that failed or was given up leaves nothing running or listening,
\* however far the engine had come.
StoppedEnds == main = "stopped" ~> engine = "ended" /\ ~listening

\* A request that reached a hook is answered or sent on, whatever raises.
HooksEnd == Hooked ~> got # None \/ sent # None \/ engine = "ended"

\* The agent and the trace are told the same of every flow: who answered it.
AnsweredAsTold == RecordedAsAnswered /\ AnswersStamped

\* Neither a flow in a hook nor an engine that was stopped is left hanging.
EverythingEnds == StoppedEnds /\ HooksEnd

=============================================================================
