----------------------------- MODULE RunSummary -----------------------------
(***************************************************************************)
(* What a run's summary says of its events (report/model.py): what each    *)
(* exchange was, who answered it, which check read was made for which      *)
(* write, and which reads are shown under which write.                     *)
(*                                                                         *)
(* The summary reads the events alone, in the order they were recorded.    *)
(* Writes are decided on worker threads, so their check reads and they     *)
(* themselves are recorded between those of other writes.                  *)
(***************************************************************************)
EXTENDS Naturals, Sequences, FiniteSets

CONSTANTS
    Services,        \* each on a host of its own
    Flows, Asks,     \* writes that are faked, and the service that has checks
    Objects,         \* what writes name
    NoFlow,
    Telling,         \* the objects that count as an id (three characters, a digit)
    LastTick,        \* bound of the clock
    MaxRest,         \* bound of the other exchanges of a run without such writes,
    MaxShown         \* and of the reads that show them in a run with some

ASSUME SummaryAssumption ==
    /\ NoFlow \notin Flows
    /\ Asks \in Services
    /\ Telling \subseteq Objects
    /\ {LastTick, MaxRest, MaxShown} \subseteq Nat

VARIABLES
    events,     \* the run's events in seq order
    flow,       \* each write under way: where it is, its times and its check
    now,        \* the clock; it may be set back
    setBack,
    answeredWrites  \* history: the services of the writes in the write log

summaryVars == <<events, flow, now, setBack, answeredWrites>>

-----------------------------------------------------------------------------
(* What an exchange was, from its record alone.                             *)

IsCheckRead(e) == e.issued = "engine"
IsAgentRead(e) == e.issued = "agent" /\ e.kind = "read"
IsLlm(e) == e.issued = "agent" /\ e.kind = "llm"

Recorded(e) == "from-recording" \in e.flags
FailedTarget(e) == "target-failed" \in e.flags
RefusedByIrimi(e) == e.flags \cap {"decision-failed", "refused"} # {}
FakeLevels == {"fake-L0", "fake-L2"}

\* is_summary_write: a write that irimi or a target answered, less retries.
IsSummaryWrite(e) ==
    /\ e.issued = "agent" /\ e.kind \in {"write", "unknown"}
    /\ e.by # "live"
    /\ "idempotent-replay" \notin e.flags

\* is_authored_write: later reads may show it.
IsAuthoredWrite(e) ==
    /\ e.kind \in {"write", "unknown"}
    /\ e.by \notin {"live", "delegated", "irimi"}
    /\ e.outcome # "rejected"
    /\ e.flags \cap {"decision-failed", "idempotent-replay", "idempotency-conflict"} = {}

\* Write.asked: irimi is taken to have made a check read for it.
Asked(e) == IsSummaryWrite(e) /\ e.by \in FakeLevels /\ e.outcome # "" /\ ~Recorded(e)

\* _write_status and _agent_read: how it was answered.
WriteStatus(e) ==
    CASE RefusedByIrimi(e) -> "refused"
      [] FailedTarget(e) /\ ~RefusedByIrimi(e) -> "unreached"
      [] e.by = "delegated" /\ ~FailedTarget(e) /\ ~RefusedByIrimi(e) -> "target"
      [] OTHER -> "faked"

ReadBy(e) ==
    CASE e.by \in {"live", "overlay", "recording"} -> "service"
      [] e.by = "delegated" -> "target"
      [] e.by = "irimi" -> IF FailedTarget(e) THEN "unreached" ELSE "refused"

\* What of the run's writes a read showed, "" when none is concerned.
Shown(e) ==
    CASE e.by = "overlay" -> IF e.overlay = "partial" THEN "part" ELSE "saw"
      [] e.by # "overlay" /\ e.overlay = "partial" -> "did_not"
      [] OTHER -> ""

\* Mutant: a recorded answer counts as the service's.
AnswererByName(e) ==
    CASE e.by \in {"live", "overlay"} -> "real"
      [] e.by = "delegated" /\ ~FailedTarget(e) -> "target"
      [] OTHER -> "irimi"

\* answered: who answered it, for the closing totals.
Answerer(e) ==
    CASE e.by \in {"live", "overlay"} /\ ~Recorded(e) -> "real"
      [] e.by = "delegated" /\ ~FailedTarget(e) -> "target"
      [] OTHER -> "irimi"

Positions(Holds(_)) == {i \in DOMAIN events : Holds(events[i])}
SummaryExchanges == {i \in DOMAIN events : events[i].kind # "telemetry"}

\* build: the writes a line is printed for, in order.
Actions == Positions(IsSummaryWrite)
-----------------------------------------------------------------------------
(* _check_reads: the check read that is shown as each asked write's.        *)

\* _names_any: the check read names the write's object as a whole word.
NamesIt(c, w) == events[w].object \in Telling /\ events[c].object = events[w].object

\* Mutant: the earliest is taken whatever it names.
TakenEarlier(c, d, w) == events[c].from < events[d].from

\* Which of two check reads made during a write is taken for it.
TakenBefore(c, d, w) ==
    \/ NamesIt(c, w) /\ ~NamesIt(d, w)
    \/ NamesIt(c, w) = NamesIt(d, w) /\ events[c].from < events[d].from

During(S, w) == {c \in S : events[w].from <= events[c].from /\ events[c].from <= events[w].to}

\* Of those during the write the first by TakenBefore, else the latest before it.
Picked(S, w) ==
    IF During(S, w) # {}
    THEN CHOOSE c \in During(S, w) :
             \A d \in During(S, w) \ {c} :
                 TakenBefore(c, d, w) \/ (~TakenBefore(d, c, w) /\ c < d)
    ELSE CHOOSE c \in S : \A d \in S : d <= c

\* The check reads of its service recorded before it that no write has taken.
Unclaimed(w, taken) ==
    {c \in Positions(IsCheckRead) : c < w /\ events[c].service = events[w].service} \ taken

\* The pairs of a write and its check read.
CheckReads ==
    LET upTo[n \in 0..Len(events)] ==
            IF n = 0 THEN {}
            ELSE LET taken == {p[2] : p \in upTo[n - 1]} IN
                 IF Asked(events[n]) /\ Unclaimed(n, taken) # {}
                 THEN upTo[n - 1] \cup {<<n, Picked(Unclaimed(n, taken), n)>>}
                 ELSE upTo[n - 1]
    IN upTo[Len(events)]

-----------------------------------------------------------------------------
(* The reads shown under a write.                                           *)

\* The service's writes before a read that it can have shown.
EarlierWrites(r) ==
    {w \in Actions : w < r /\ IsAuthoredWrite(events[w]) /\ events[w].service = events[r].service}

\* The pairs of a read and the latest write before it that it can have shown.
ReadsUnder ==
    {p \in Positions(IsAgentRead) \X Actions :
        /\ Shown(events[p[1]]) # ""
        /\ p[2] \in EarlierWrites(p[1])
        /\ \A v \in EarlierWrites(p[1]) : v <= p[2]}

-----------------------------------------------------------------------------
(* _host_counts: the counter each exchange of a host (a service here) is in; *)
(* an idempotent retry and a write forwarded live are in none.              *)

ReadCounter == [service |-> "reads", target |-> "target_reads",
                unreached |-> "unreached_reads", refused |-> "refused_reads"]
WriteCounter == [faked |-> "faked_writes", refused |-> "refused_writes",
                 target |-> "target_writes", unreached |-> "unreached_writes"]

Counter(e) ==
    CASE IsCheckRead(e) -> "check_reads"
      [] IsAgentRead(e) -> ReadCounter[ReadBy(e)]
      [] IsLlm(e) -> "llm"
      [] IsSummaryWrite(e) -> WriteCounter[WriteStatus(e)]
      [] OTHER -> ""

\* The closing totals.
Telemetry == DOMAIN events \ SummaryExchanges
Total == Cardinality(SummaryExchanges) + Cardinality(Telemetry)
Real == Cardinality(Telemetry) + Cardinality({i \in SummaryExchanges : Answerer(events[i]) = "real"})
Targets == Cardinality({i \in SummaryExchanges : Answerer(events[i]) = "target"})
ByIrimi == Total - Real - Targets

-----------------------------------------------------------------------------
(* How the events come about.                                               *)

Exchange(kind, by, service) ==
    [issued |-> "agent", kind |-> kind, by |-> by, service |-> service, object |-> "",
     overlay |-> "", flags |-> {}, outcome |-> "",
     from |-> 0, to |-> 0, flow |-> NoFlow]

NotBegun == [pc |-> "new", object |-> "", from |-> 0, asked |-> 0, made |-> FALSE, outcome |-> ""]

SummaryInit ==
    /\ events = <<>>
    /\ flow = [f \in Flows |-> NotBegun]
    /\ now = 0
    /\ setBack = FALSE
    /\ answeredWrites = {}

Begun(f) == flow[f].pc # "new"
Rest == {i \in DOMAIN events : events[i].flow = NoFlow}

\* time.time(): it goes on, and may be set back.
Tick ==
    /\ \E f \in Flows : Begun(f) /\ flow[f].pc # "done"
    /\ now < LastTick
    /\ now' = now + 1
    /\ UNCHANGED <<events, flow, setBack, answeredWrites>>

SetBack ==
    /\ now > 0 /\ ~setBack
    /\ now' = 0
    /\ setBack' = TRUE
    /\ UNCHANGED <<events, flow, answeredWrites>>

Moved(f, change) == flow' = [flow EXCEPT ![f] = change]

\* A write arrives, its check read is made,
Begin(f) ==
    /\ flow[f].pc = "new"
    /\ Rest = {} \/ \E g \in Flows : Begun(g)
    /\ \E o \in Objects :
           Moved(f, [NotBegun EXCEPT !.pc = "deciding", !.object = o, !.from = now])
    /\ UNCHANGED <<events, now, setBack, answeredWrites>>

Ask(f) ==
    /\ flow[f].pc = "deciding"
    /\ Moved(f, [flow[f] EXCEPT !.pc = "asked", !.asked = now, !.made = TRUE])
    /\ UNCHANGED <<events, now, setBack, answeredWrites>>

\* or none: its route declares no check, or none can be built for it.
DecideUnasked(f) ==
    /\ flow[f].pc = "deciding"
    /\ \E outcome \in {"", "not_evaluable"} :
           Moved(f, [flow[f] EXCEPT !.pc = "decided", !.outcome = outcome])
    /\ UNCHANGED <<events, now, setBack, answeredWrites>>

CheckOf(f) ==
    [Exchange("read", "live", Asks) EXCEPT
        !.issued = "engine", !.object = flow[f].object,
        !.from = flow[f].asked, !.flow = f]

WriteOf(f) ==
    [Exchange("write", "fake-L2", Asks) EXCEPT
        !.object = flow[f].object, !.from = flow[f].from, !.to = now, !.outcome = flow[f].outcome,
        !.flow = f]

\* _record_issued: the check read is recorded once the answer is set,
Decide(f) ==
    /\ flow[f].pc = "asked"
    /\ events' = Append(events, CheckOf(f))
    /\ \E outcome \in {"passed", "rejected", "not_evaluable"} :
           Moved(f, [flow[f] EXCEPT !.pc = "decided", !.outcome = outcome])
    /\ UNCHANGED <<now, setBack, answeredWrites>>

\* and the write when the answer was sent, in a step of its own.
Finish(f) ==
    /\ flow[f].pc = "decided"
    /\ events' = Append(events, WriteOf(f))
    /\ Moved(f, [flow[f] EXCEPT !.pc = "done"])
    /\ answeredWrites' = answeredWrites \cup
           (IF IsAuthoredWrite(WriteOf(f)) THEN {Asks} ELSE {})
    /\ UNCHANGED <<now, setBack>>

\* An answer that cannot be put on the flow: irimi's 502, then the check read.
PutFails(f) ==
    /\ flow[f].pc = "asked"
    /\ LET failed == [WriteOf(f) EXCEPT !.by = "irimi", !.flags = {"decision-failed"}]
       IN events' = events \o <<failed, CheckOf(f)>>
    /\ Moved(f, [flow[f] EXCEPT !.pc = "done"])
    /\ UNCHANGED <<now, setBack, answeredWrites>>

Reads(s) ==
    LET read(by) == Exchange("read", by, s) IN
    {read("live"), read("delegated"),
     [read("delegated") EXCEPT !.flags = {"target-failed"}],
     [read("irimi") EXCEPT !.flags = {"target-failed"}], [read("irimi") EXCEPT !.flags = {"refused"}],
     [read("recording") EXCEPT !.flags = {"from-recording"}]}

\* The overlay concerns a read only when a write of its service is in the log.
ReadsOverlaid(s) ==
    IF s \notin answeredWrites THEN {}
    ELSE LET read(by, overlay) == [Exchange("read", by, s) EXCEPT !.overlay = overlay]
         IN {read("overlay", "full"), read("overlay", "partial"), read("live", "partial")}

\* A read answered from a recording keeps the overlay it had there.  The writes it
\* shows may have been used up in the span of a recorded tool call: then this run
\* has no event of them.
ReadsReplayed(s) ==
    LET read(by, overlay) ==
            [Exchange("read", by, s) EXCEPT !.overlay = overlay, !.flags = {"from-recording"}]
    IN {read("overlay", "full"), read("overlay", "partial"), read("recording", "partial")}

\* Writes that are not faked anew: a retry, a reused key, a target's answer, one
\* whose target failed, one irimi refused, one answered from a recording.
OtherWrites(s) ==
    LET write(by, flags) == [Exchange("write", by, s) EXCEPT !.flags = flags, !.outcome = "passed"] IN
    {write("fake-L2", {"idempotent-replay"}), write("fake-L2", {"from-recording"}),
     [write("fake-L2", {"idempotency-conflict"}) EXCEPT !.outcome = ""],
     [write("delegated", {}) EXCEPT !.outcome = "not_evaluable"],
     [write("irimi", {"target-failed"}) EXCEPT !.outcome = ""],
     [write("irimi", {"refused"}) EXCEPT !.outcome = ""]}

\* One irimi refused keeps its kind.
Llms(s) ==
    {Exchange("llm", "live", s),
     [Exchange("llm", "recording", s) EXCEPT !.flags = {"from-recording"}],
     [Exchange("llm", "irimi", s) EXCEPT !.flags = {"refused"}]}

\* Any other exchange is recorded; with a write under way, only a read of its
\* service that shows writes in full.
Record(e) ==
    /\ IF \E f \in Flows : Begun(f)
       THEN Shown(e) = "saw" /\ e.service = Asks /\ Cardinality(Rest) < MaxShown
       ELSE Cardinality(Rest) < MaxRest
    /\ events' = Append(events, e)
    /\ answeredWrites' = answeredWrites \cup (IF IsAuthoredWrite(e) THEN {e.service} ELSE {})
    /\ UNCHANGED <<flow, now, setBack>>

SummaryNext ==
    \/ Tick \/ SetBack
    \/ \E f \in Flows : Begin(f) \/ Ask(f) \/ DecideUnasked(f) \/ Decide(f) \/ Finish(f) \/ PutFails(f)
    \/ \E s \in Services :
           \E e \in Reads(s) \cup ReadsOverlaid(s) \cup ReadsReplayed(s)
                        \cup OtherWrites(s) \cup Llms(s) : Record(e)
    \/ Record(Exchange("telemetry", "live", "telemetry"))

-----------------------------------------------------------------------------
(* What a summary promises.                                                 *)

\* When irimi made a check read for every write that says it was checked, each of
\* them is shown with one of its own, none is shown with two writes, and, on a
\* clock that was not set back, a write whose object its check read names is
\* never shown with a check read of another object.  Writes overlap, and only
\* the order, the times and the names in the events tell (_check_reads).
ChecksAreTheirs ==
    LET asked == Positions(Asked) IN
    (\A w \in asked : flow[events[w].flow].made) =>
        /\ \A w \in asked : \E p \in CheckReads : p[1] = w
        /\ \A p, q \in CheckReads : p[2] = q[2] => p = q
        /\ (~setBack /\ \A w \in asked : events[w].object \in Telling) =>
               \A p \in CheckReads : events[p[2]].object = events[p[1]].object

\* A write that irimi faked, as the service would have taken it, before a read of
\* its service.
FakedBefore(w, r) ==
    /\ w < r /\ events[w].service = events[r].service
    /\ WriteStatus(events[w]) = "faked"
    /\ events[w].outcome # "rejected" /\ "idempotency-conflict" \notin events[w].flags

\* A read whose answer shows writes, or may not show all of them, is printed
\* under exactly one write: one irimi had faked and answered before it, of the
\* read's own service, although writes that were refused, retried or sent to a
\* target lie between them (build, is_authored_write, complete).  Only a read
\* answered from a recording may be printed under none, and only when this run
\* has no such write before it: a recorded tool call had used them up.
ShownReadsFiled ==
    \A r \in Positions(IsAgentRead) :
        LET under == {p \in ReadsUnder : p[1] = r}
            faked == {w \in Actions : FakedBefore(w, r)}
        IN Shown(events[r]) # "" =>
               \/ \E w \in faked : under = {<<r, w>>}
               \/ under = {} /\ faked = {} /\ Recorded(events[r])

\* The closing totals and the hosts' lines are counted by two rules and agree:
\* what a target answered, and what irimi did, by its fakes, its refusals and
\* the recording.  They part where this says so: an llm call irimi refused is
\* irimi's in the totals and a model call in its host's line; and a target that
\* fails in the middle of an answer is left out, since its host's line still
\* counts it as answered (answered, _host_counts).
TotalsAgree ==
    LET counted(counters) == {i \in SummaryExchanges : Counter(events[i]) \in counters}
        recorded == {i \in SummaryExchanges : Recorded(events[i])}
        refusedLlms == {i \in SummaryExchanges : IsLlm(events[i]) /\ RefusedByIrimi(events[i])}
        halfway == {i \in SummaryExchanges : events[i].by = "delegated" /\ FailedTarget(events[i])}
    IN halfway = {} =>
        /\ Targets = Cardinality(counted({"target_reads", "target_writes"}))
        /\ ByIrimi = Cardinality(recorded \cup refusedLlms \cup
               counted({"faked_writes", "refused_writes", "unreached_writes", "refused_reads",
                        "unreached_reads", ""}))

\* A summary puts a run's reads, irimi's checks and the agent's own, under the
\* writes they belong to, though writes overlap.
ReadsUnderTheirWrites == ChecksAreTheirs /\ ShownReadsFiled

=============================================================================
