# Irimi in TLA+

Irimi puts a proxy between an agent and the services it calls. Reads go to the
real service, writes do not: irimi answers them itself ("fakes" them), keeps
them in a write log, and shows them in later reads, so that a run of the agent
sees a consistent world and changes nothing. Every exchange is stored in a
trace; a trace can be replayed. This directory holds TLA+ models of that
program, TLC runs over small instances and TLAPS proofs for all instances.
Paths below are relative to the repository (`src/irimi/...`).

## The system

| Component | State it keeps | Operations | What makes it correct |
|---|---|---|---|
| Engine hooks (`engine/mitm.py`) | the plan attached to each flow | `request`, `response`, `error`, `_carry_out` | every flow is answered; no write is forwarded; a failure is irimi's own 502 |
| Session (`engine/session.py`) | none of its own; snapshots of the write log | `plan`, `settle`, `complete`, `fail`, `decision_failed` | what is answered, recorded and filed agree |
| Decision policy (`decide/policy.py`) | none | `decide`: recall, check, remember | a retry is not applied again; a check sees the run's earlier writes |
| Idempotency store (`decide/idempotency.py`) | `_runs`, `_ended`, under a lock | `get`, `put`, `end_run` | one answer a key; nothing kept of an ended run |
| Write log (`decide/writelog.py`) | `_runs`, `_ended`, under a lock | `for_run`, `add`, `end_run` | holds a run's answered fakes, and only those; bounded |
| Overlay (`decide/overlay.py`) | none | the edits of a read's answer | a read shows the run's writes or says that it may not |
| Trace store (`record/store/writer.py`) | a bounded queue, drop counts, the runs' records, the event files | `start_run`, `append`, `end_run`, `close`, the writer thread | no caller waits; what is dropped is counted, on disk; an end stays an end |
| Files and layout (`config/files.py`, `record/store/layout.py`) | `events.jsonl`, `run.json` | `append_line`, `write_private`, `resume_seq` | whole lines, a dense sequence, also with several processes |
| Locks and retention (`record/store/lock.py`, `retention.py`) | lock files, run directories | take, release, delete old runs | one serve a root; a run in use is not deleted |
| Replay (`replay/`) | an index of recorded answers, what is used up, whether the replay diverged | match, use up, diverge, compare, report | each recorded answer is served once, in order, and none past a miss |
| Reports (`report/`) | none (functions of a run's events) | `build`, `_check_reads`, totals, counts | a read is shown under its write; two ways of counting agree |
| SDK (`sdk/`) | a stack of blocks and a current run per context, the control client's breaker, the wrapped transports | enter, join, adopt, hand off, leave; label, post | a request carries the label of the run whose block it is in; every run started is ended; the agent goes on |
| Child run and commands (`cli/shadow.py`, `runner.py`, `replay_cmd.py`) | the command's process, signal state, the run's state, the result file | start, stop, terminate, judge, report | a run ends once, with the command's outcome; the exit code says what happened |
| Serve (`cli/serve.py`) | the signals it was told of, the watcher's thread | start, wait, stop | a dead engine is reported, a signal is never lost |
| Service maps (`servicemaps/`, `decide/targets.py`) | the merged maps | load, merge, validate, classify, resolve | nothing unsafe and unnamed goes to the real service |
| Services (`services/`) | Slack's clock of faked ids | effects, answers, checks | faked posts and refunds fit among the real ones |

How they interact. A hook of the event loop asks the session for a plan on a
worker thread; the policy calls the idempotency store and, through a check read,
the real service; the plan is put on the flow; another hook, later, completes
it: overlay, write log, trace store. The trace store's writer thread calls an
`ended` callback when it has handled a run's end (`cli/compose.py`), and that
callback drops the run's write log and keys. Control posts of the SDK become
the store's start and end items. Replays read what the store wrote, and reports
read what both stored.

What is hard. (1) Many flows of one run are in flight, and between any two
locked calls another flow, or the run's end, can come in. (2) Memories are
bounded: of ended runs, of queued items and bytes. (3) The store drops, resumes,
forgets, fails to write, closes late, and dies. (4) Several processes share
one root. (5) Signals and lost posts around a run's start and end. (6) Any step of a hook
may raise, and the proxy sends on what a hook leaves without an answer. (7) Faked
objects lie among real ones that others add to, page by page. The
`hazards` of `PROJECT.json` give each at its line.

## Modules

Each `.tla` file is one part; `MC*.tla` are instances for TLC and `*_proofs.tla`
hold proofs. Four modules look at one of several parts at a time, chosen in
`Init`: `StoreFiles` (`EventsFile`, `StoreLocks`), `Replays` (`ReplayIndex`, `RunSummary`, `RunCompare`), `Commands`
(`RunCommands` on top of `ChildRun`, `Serve` and `ServiceMaps`) and `Services`
(`SlackChannel`, `StripeRefunds`). Their parts share no state in the code either (of one file's bytes
the locks know nothing), so a run of one of these checks each part by itself, with
the others at rest.

### ShadowSession: decide, answer, remember

Source: `engine/session.py`, `engine/mitm.py`, `decide/policy.py`,
`idempotency.py`, `writelog.py`, `overlay.py`, `preconditions.py`, and the `ended` callback of
`cli/compose.py`.

A flow is one request. `pc[f]` walks through the code's order of calls:
`unsent`, `admitted` (parsed), `snapped` (the write log was read), `recalled`
(the key was looked up), `checked` (the precondition was judged), `planned`
(the answer is on the flow), `done` or `failed`. An action makes at most one call
on a shared store, as a lock covers one call; everything between two calls interleaves. `writeLog` and `keys` are the two
stores, `logEnded` and `keyEnded` their memories of ended runs (`EndedRuns`, oldest
forgotten past `MAX_ENDED_RUNS`), and the `ended` callback is two actions,
`EndWriteLog` and `EndKeys`, since it makes two calls.

Abstractions. A write's parameters are identified with the object it acts on:
two sendings of a key conflict when their objects differ. A minted answer is
identified by the flow that minted it. The write log is a set; order is not
observable in the properties. A check read finds an object `open`, `spent` or
gives no verdict (`unread`); the run's own writes on the object are applied
before it is judged, and a checked write is taken to use its object up, as a full
refund, a cancellation or an archiving does. A read's body is `plain`, `short`
(what the overlay cannot edit in full) or `streamed`. `after[f]` and
`everEnded` are history variables the properties speak of.

### RunMemory: what the session amounts to

The abstract specification: a run's memory that is changed in single steps. A
write is remembered in the step in which its agent is told of it (`Apply`), a key
keeps the first answer given under it (`Mint`, `Repeat`), a request is shown and
given only what is its own run's (`Look`), and only a run's end takes anything
away, first the writes and then the keys (`Close`, `Forget`). `ShadowSession`
implements it with `memory <- writeLog`, `first <- keys`, `given <- answer`,
`view <- seen`, `closed <- everEnded`; `Owner` is the run of each flow that was sent
and `Told` the writes whose response hook is over. The property is
`ImplementsMemory`. What the abstract memory leaves open, and the code does: a
request may get an answer of its own though another one holds the key, since two
sendings may overlap; and an ended run may remember a write again, since the memory
of ended runs is bounded.

### TraceStore: the queue, the writer, close, restart

Source: `record/store/writer.py`. `Put` is a caller's `_put`/`_drop`; the
writer's actions are one item's handling cut where another thread, a failing
disk or a crash can come in: `Take`, `Release`, the `Handle...` step (which
opens the run, from disk if it is new), `WriteRecord`, `AppendLine`,
`ForgetEnded`, `Report` (the `ended` callback). Each file write has a failing
twin. `Close`, `PutSentinel`, `Joined` or `Abandon`, `Drain`, `Drained`,
`GiveUp` are the closing thread; `CountRun` and `WriteCount` are
`_write_drop_counts`, which either thread may run. `Restart` kills the process
at any point and opens the root again with an empty memory.

Abstractions. A line or a record is what the properties tell apart: a `run.json`
is whether it exists, has an end, and its `dropped_events`; an `events.jsonl`
is how many lines it has. An id is `own`, `invalid`, `unclaimed` or
`unwritable` (`ClassSet`), for the whole behaviour. An item is not larger than the byte budget:
`core/limits.py` keeps it so and `tests/test_limits.py` says so. A crash is the
process's, not the machine's: what was written is still there. `Put` and
`Drain` merge two short sections under the same lock.

### EventsFile: append, resume, read

Source: `config/files.py` (`append_line`), `record/store/layout.py`
(`resume_seq`), `record/store/reader.py` (`_lines`). A line is `Parts` pieces,
the newline in the last; `file` is the pieces on disk. One step is one system
call: `Write` is an `os.write` that takes some of what is left, `Refused` the
failing one with its `fstat`, `Cut` the `ftruncate`; `Open`, `ReadTail` and
`CutTorn` are the stat, the read and the truncate of `resume_seq`. `Stop` is a
close or a crash between any two. `Shared` says whether several processes have
the file open at once, as they may `unattributed/events.jsonl`.

Abstractions. A line is its number and its `seq`; whether bytes parse is whether
they are one line's pieces in order. `resume_seq` reads the whole file: its
shortcut over the last `RESUME_TAIL` bytes falls back on that.

### StoreLocks: who writes a root, who deletes from it

Source: `record/store/lock.py`, `retention.py`, and the calls in
`cli/compose.py`, `cli/runs.py` and `record/store/writer.py`. A process is a serve, a shadow (or
replay) or a deletion (`role`), at a place of its program (`pc`); `wpc` is its
store's writer thread, which puts a body and then appends the line naming it.
`Share`, `HoldServe`, `HoldServeToRemove`, `Exclude` are the four lock calls:
only `Share` waits. `Pick` chooses runs before any lock is held, `PlanRemoval`
reads what the other runs name, `RemoveRun` and `RemoveBlob` delete one thing
each. `Exit` kills a process anywhere and frees its locks, as the kernel does.

Abstractions. A run's ids are the directories; that a run has one writer at a
time is `MayWrite`'s condition. A directory is removed in one step, a torn body
file is not modelled, and which runs are old is any choice.

### ReplayIndex: answers from a recording

Source: `replay/index.py`, `replay/policy.py`, the idempotency functions of
`decide/policy.py`, and the outcome of `replay/report.py`. `rec` is the stored run,
chosen in `Init`; `consumed`, `diverged` and `held` are the index's and the key
store's state. A live request goes `sent`, `ready` (its key's standing was looked
up), `missed` or `found`, `shadow`, `done`; `Stand`, the `Lookup...` actions,
`Diverge` and the answers are one locked call each. `AnsweredCalls`,
`MissedCalls`, `NeverMade` and `NoDivergence` are the report's: what it says from
counts alone, which `NothingMissedSilently` compares with what was served.

Abstractions. A match key is a model value (what it is made of is pure);
servable, faked and checked are properties of a recorded event; the shadow policy that
answers a miss is only what it remembers under a key. A check read's answer
(`engine_read`) uses nothing up and is left out.

### RunSummary: what a run's report says

Source: `report/model.py`, with the parts of the session and the hooks that
record a write and its check read. `flow` makes the events: a write is begun, may
make a check read on its worker thread (`Ask`), is decided and finished, and the
check read is recorded before the write and between others'. Other exchanges are
recorded whole. The operators are the summary's functions of the events alone;
that they find back what `flow` knows is `ChecksAreTheirs`. `SetBack` is the wall
clock's. An object's name tells two objects apart when it looks like an id (`Telling`).

Left out: `would_fire`, the difference of arguments, layout and wording.

### RunCompare: two runs' writes side by side

Source: `replay/compare.py`, `replay/report.py` (`exit_code`). The runs are
recorded event by event, one maybe dropped; `ActionsOf` (of the `Lines`), `Align`, `ByKey` and
`ComparisonCode` are the pure functions, with `difflib`'s blocks from their
definition: the longest, of those the one that starts first. A changed row's field
by field difference is left out.

### ChildRun and RunCommands: a command under signals

Source: `cli/shadow.py` (`run_child`, `cmd_shadow`), `cli/runner.py` (`Child`,
`wait_for_child`, `exit_code_for`, `end_process_run`, `start_engine`),
`cli/replay_cmd.py`, `replay/plan.py`, `replay/child.py`. `pc` is
where `run_child` is; it has one action per statement that another could
separate. `Sigterm` runs the handler between any two, and a Ctrl-C is an action
per place it lands in, since the code expects it in one. `waiting`, `grace`, `terminating`
and `killing` are the four waits of `wait_for_child`. The command (`child`) exits when
it likes, or never. `trigger` is a replay's child that loads the function it is to
call, calls it or cannot. `RunCommands` is the rest of both commands: planning,
refusals, the verdict, the report, the result file, the exit code.

Abstractions. Popen's wait reaps the command and sets its code in one step; the
engine is up or down. A replay's arguments are forgotten once it is planned
(`Forgotten`). A Ctrl-C while the engine is built, the banner, hints and wording are left out.

### Serve: an engine and nothing else

Source: `cli/serve.py`, `cli/runner.py` (`watch_engine`, `stopping_on_signals`). The
main thread polls a list that the signal handler appends to; a watcher joins the
engine's thread and tells whether it was asked to end; a caller may set `stop`.

### SdkRuns: which run a request belongs to

Source: `sdk/_runs.py`, `_context.py`, `_control_client.py`, `_http_labels.py`,
`_tools.py`, `_state.py`. A context is a task or a thread: it copies the current
run and the open blocks where it is spawned. A block is opened, joined, adopted
(a replay's child) or handed off to a coroutine that may be awaited or thrown away;
it may be left in its own context, cancelled while its start or end is posted, or
closed in another task. A post is on its way, answered, timed out, or answered
late; `paused` is the breaker.

`instrument` is called by the first block of a run, or by the agent (`Instrument`), and
wraps the transports under the lock: `BeginPatching` takes it, `RunHook` wraps the
first transport and imports the library of the next, which runs an import hook,
`EndHook` comes back from it and `EndPatching` wraps the rest or stops at one
that raises. The hook is the agent's code and may do all that a body does on the
patching thread; a block it enters calls `instrument` again, which returns at once
(`LabelledInHook`, `_patching` at `_http_labels.py:55`). `hooked` is history: the runs in whose
blocks such a hook's code was, its own and those around the call.

Abstractions. A block entered by an async task calls `instrument` on a worker
thread in a copy of its context; here the task does it itself. One hook runs a patching, before
the second transport: a library has one import. A hook that throws its context
away and enters a block in a fresh one is left out. The wait for a retry of the breaker is any time; the values a
tool captures and an error's words are left out. `arrived` is the order in which
irimi is sent things, which is what its store will write; it is not composed
with `TraceStore`, whose `Put` takes any order.

### Flow: one request through every hook

Source: `engine/mitm.py`, `ingress.py`, `control.py`, `capture.py`, `decoding.py`,
`wire.py`. `engine`, `main`, `ready`, `stopped` are the start and stop across two
threads; `at` is where the request is in `request`, `responseheaders`, `response`
or `error`. Each step that may raise has a raising twin (`Fault`, `Raises`), at
most `MaxFaults` of them. `sent` is what left for the network. What a session's plan says is
any of `Plans`: `ShadowSession` has how it comes about. A stream is chunks of
`x` and newline, encoded or not, captured up to `Cap`. The client may leave, or the service
break off, at any time (`Break`): one that leaves while the request hook is on its
worker is noticed when the hook is back, with whatever it left on the flow, so
an answer may be recorded that nobody got. The error hook may also follow
the response hook of the same flow (`LateError`), and must find no plan.

One flow is enough here: a hook reads and writes one flow, and the stores it
shares are the other modules'.

### SlackChannel and StripeRefunds: faked objects among real ones

Source: `services/slack/`, `services/stripe/`, `decide/overlay.py`. The channel has
real messages (`RealMessage`) and faked posts (`Post`); `Mint` and `Observe` are
`TsClock`; `Page` is one page of a read: what the service answers (modelled from
how the code reads it: newest first, cut at a limit, with a cursor) with the
posts laid over it. The charge has Stripe's refunds and the run's. A faked refund is three
steps, of which several may be under way (`Calls`): `BeginRefund` copies the run's writes,
`CheckRefund` judges the charge as read with that copy, and `FileRefund` files it when
its response hook runs, or never. `ListPage` is a page of the list, `Charge` the charge as it is read.

Abstractions. A ts is a number, its second times `Carry` plus a counter. A broadcast
is only made to the channel that is read. Latest replies and their users are left
out, and a message is never deleted.

### ServiceMaps: who answers a request

Source: `servicemaps/`, `decide/targets.py`, `decide/policy.py`. `LoadShipped`,
`ApplyOverrides`, `ApplyCliTargets`, `Validate` are `load`'s phases, each of which may
refuse; documents and flags come one after another, and `OverridesDone` and `FlagsDone`
end their phases; `Decide` classifies one request with the maps that passed. A host is its
labels, last first, and a path its segments, so that patterns are prefixes and holes. The
shapes (`MapShape`, `OverrideShape`, `FlagShape`) are what the parser lets through. Reading
YAML, checking for unknown keys and messages are left out.

## Runs

| Run | Instance | What it checks |
|---|---|---|
| `session_one_run` | 4 flows of one open run: a keyed, checked write and a read of its object | `RetryAppliedOnce`, `RetriesAgree`, `ReadsShowAnsweredWrites`: retries and reads see what was answered before them, under every interleaving |
| `session_mixed` | 2 flows of any kind, 2 runs, `MaxEndedRuns` 1, two ends | `CheckSeesEarlierWrites`, `EndedRunsHoldNothing`, `FakedWritesAreAnswered` (liveness), `ImplementsMemory` (refinement) |
| `store_one_life` | an own id and a second of any class, queue of 2, 3 puts, 7 items | `EveryItemAccounted`, `CountsOnDiskAtClose`, `ReportFindsRunOnDisk`, `EndsArrive` (liveness), with failures and a late close |
| `store_restart` | one run, two processes, 3 puts in each | `RunsResumeWhole`, `EndIsKept` over forgetting, resuming and crashes |
| `store_files` | a run's file: 2 processes in turn, lines of 3 pieces, 4 lines, 4 opens; the locks: 2 processes at a time, 4 starts, 3 events, one run and `unattributed/` with one shared body | `LinesSurvive`, `SeqsDense` over refusals, half lines and crashes; `LocksProtect`, `RunsInUseStay`, `WaitersGetIn` (liveness) |
| `events_cut` | 2 processes at once, lines of 2 pieces | `CutsOnlyItsOwn`, which fails: a cut takes another process's line |
| `replay` | 4 live requests over 4 recordings; 2 overlapping writes and up to 3 other exchanges; two runs of up to 3 events | `AnswersAsRecorded`, `NothingStaleServed`, `NothingMissedSilently`; `ReadsUnderTheirWrites`, `TotalsAgree`; `ComparisonTells` |
| `commands` | every command line and stored run, 2 SIGTERMs, 3 Ctrl-Cs; a serve with 2 signals; some 2,600 lists of maps under any of 3 overrides, then any of 4 flags | `CommandLookedAfter`, `OutcomeTold`, `CommandsEnd` (liveness); `DeathIsReported`; `AnsweredAsMapped` |
| `sdk` | 2 contexts, 2 runs and a replay's, blocks nested 2 deep, one request or tool call, one failed post, 2 transports with an import hook between | `RequestsLabelled`, `PostsBracketRequests`, `NoRunForgotten` |
| `sdk_goes_on` | the same without requests and tool calls | `AgentGoesOn` (liveness) |
| `flow` | one request of any form, 2 raising steps, a stream of 3 chunks under a cap of 3, an agent that may leave | `OnlyPlannedLeaves`, `AnsweredAsTold`, `StreamsRecordedInOrder`, `EverythingEnds` (liveness) |
| `services` | a channel with 2 real messages and 2 posts; a charge of 3 with 2 refunds each, the run's both under way at once | `PostsSortAfterWhatWasRead`, `ReadsAddUp`; `RefundsAddUp` |

The exact constants are in the `.cfg` files; the sets they name in `MC*.tla`.

Some checked properties are a conjunction of parts that answer one question, each
part with a comment of its own where it is defined:

| Property | Parts |
|---|---|
| `RunsResumeWhole` | `TypeOK`, `DropsConserved` (a drop is counted once, over every resume), `EventsHaveRecord` |
| `EndsArrive` | `EndsReported` (an end that was queued is reported), `CloseEnds` (a close returns) |
| `LinesSurvive` | `TypeOK`, `OnlyLastTorn`, `KeptLinesRead` |
| `LocksProtect` | `OneServeWrites`, `LinesHaveBodies` |
| `AnswersAsRecorded` | `TypeOK`, `AnswersOnceInOrder`, `RetriesAnsweredAsRetries` |
| `NothingStaleServed` | `NothingServedPastAMiss`, `ServedBehindItsWrites` |
| `ReadsUnderTheirWrites` | `ChecksAreTheirs`, `ShownReadsFiled` |
| `ComparisonTells` | `RowsLineUp`, `OkMeansSameWrites` |
| `CommandLookedAfter` | `TermReachesChild`, `CommandKeepsRunAndProxy`, `StoredRunsEnd` |
| `OutcomeTold` | `CodesTellOfTheAgent`, `ResultFileTells` |
| `CommandsEnd` | `InterruptEnds`, `ServeEnds` |
| `RequestsLabelled` | `FiledUnderItsBlock`, `WrappedOnceFirst` |
| `AnsweredAsTold` | `RecordedAsAnswered`, `AnswersStamped` |
| `EverythingEnds` | `StoppedEnds`, `HooksEnd` |
| `ReadsAddUp` | `PagesHoldEverythingOnce`, `ThreadCountsAgree` |
| `RefundsAddUp` | `RefundsFitTheCharge`, `ListHoldsEveryRefundOnce` |
| `AnsweredAsMapped` | `LiveOnlyAsNamed`, `TargetsAnswerTheirService` |

Why the bounds are enough.

- *Session.* A violation involves at most two writes with a key (two racing first
  sendings), and a third flow that follows both and, for a retry against a retry,
  a fourth: four flows of one run. Isolation and ended runs need two runs that
  share key and object, and a memory of one so that it overflows. The proofs have no bound.
- *Store.* Three items are an event, an end and a late item of one run; a queue
  of two fills with a third in hand; byte sizes 0 and 1 against a budget make each bound
  bite on its own; two processes show every resume, since a third resumes from
  the same `run.json` form as the second.
- *Events file.* A line of three pieces can be cut before, in and after its middle, and
  one short write, one refusal and one crash each fit in four lines and four opens.
- *Locks.* Two processes at a time and four starts give a store, the deletion that
  meets it and their successors; a body shared by the two directories is the case
  that a deletion must spare.
- *Replay.* The four recordings have one each of: a read before and after a write
  and one that cannot be served; a write that cannot be served; a key sent twice;
  a tool call around another task's write with a nested call made again later. Four
  requests are two that race, one before and one after.
- *Summary.* `_check_reads` compares a check read with its own write and the one
  that overlaps it, by two times each: two flows, a clock with one tick (`LastTick`), reads that
  tell nothing, the same or another object. With writes under way one more read of their service that
  shows writes in full (`MaxShown`), and without, up to three exchanges of any kind (`MaxRest`), are
  recorded.
- *Comparison.* Three actions a run are the least with a block, something before and
  something behind it; a dropped event counts as one of them (`MaxRun`).
- *Commands.* Three Ctrl-Cs are what `wait_for_child` tells apart, and a second SIGTERM adds
  only a repetition; serve treats a second signal as the first.
- *SDK.* A run that is nested in another (`MaxNest` 2), in a context and in one
  spawned from it, and one request that is filed; two runs so that a wrong one exists. One
  failed post (`MaxFaults`) opens the breaker, and its late answer races what follows.
  Of two transports one is wrapped before the import hook and one after. What waits
  for a post or the lock does not depend on requests, so `sdk_goes_on` has none.
- *Flow.* Two raising steps are a hook's failure and that of the hook that follows
  it; three chunks of one or two bytes against a cap of three are below it, on it and over it,
  inside and at the end of a line.
- *Services.* Two counters a second make the clock carry; real messages at 1 and 4
  lie before and behind what irimi mints; pages of one make every list of two span
  pages. A charge of 3 with refunds of 1 and 2 is refunded in part, in full and
  too far, the last also by two refunds that pass their checks together. With
  two real messages and pages of one, a thread's read never spans two pages in the run:
  that case rests on the proof (`ReadsAlwaysAddUp`).
- *Maps.* One service with every combination of one route's method, path, kind and keys, a
  second route that is listed or a wildcard, and a host that may be a credential; a second
  service that claims the rest of the domain, a built-in credential host with it. The overrides
  and flags set each field, one of them twice, and come in any order, any number of times.

Reductions that lose no behaviour the properties see: a read or list that has
ended is dropped before the next (`EndRead`, `EndList`); the clocks move only where
a time is taken next; one request is decided for each way of loading the maps.

Fairness.

- `ShadowSession!FairSpec`: a worker thread finishes a plan (it waits
  on nothing but the check read, which has a timeout) and the response hook runs
  for an answer irimi made itself. Services and targets may never answer, so
  nothing is assumed of them, and the run's end is never assumed to come.
- `TraceStore!FairSpec`: the writer's file calls return, failing or not, and
  `close()` waits no longer than its deadline. No caller is assumed to put or to close.
- `StoreFiles!FairSpec`: a started process takes its next step, where it waits for
  no lock; nothing makes a store close or a process exit, so a store may stay
  open for ever. `WaitersGetIn` asks for weak fairness only: `Share` stays
  enabled once the deletion is over, as deletions never wait for the lock and a
  deletion cannot start while a store shares it. `flock` promises no more than that.
- `Commands!FairSpec`: irimi's threads go on, and their timed waits end; the
  command need not exit, no signal need come, and the engine need not die.
- `SdkRuns!FairSpec`: a post is answered or times out (the client's timeout), and a
  context that waits for nothing else goes on. Nothing is assumed of the agent's code,
  an import hook's included, so `AgentGoesOn` excuses a task that waits for the lock
  while another task's hook runs; nor of what becomes of a post that was given up.
- `Flow!FairSpec`: the two threads that start and run the engine go on, and so do
  the hooks once a flow is in one. Nothing is assumed of services and clients, nor that anything raises.

`CHECK_DEADLOCK FALSE` is set in every run: an agent may send nothing more, a
store may have been closed and irimi have exited; all of these really stop.

## Proofs

`ShadowSession_proofs` proves, from `SessionAssumption` alone (requests have
their form, the null values are none of the sets, `MaxEndedRuns` is at least
one), for any sets of flows, runs, keys and objects:
`TypeCorrect`, `Inductive` and from it `RetriedOnce`, `RetriesSame`,
`ChecksSee`, `ReadsShow`, `Isolation`, `EndedHoldNothing`, `OnlyFakesFiled`; and
`Refinement`, that the session implements `RunMemory`.

The argument. The safety properties compare what a flow was told with what was
answered *before it was sent*; none is inductive, because the evidence passes
through the stores. `IInv` says what the stores hold meanwhile:

- `Placed`: a place determines whether a decision exists, and `after` holds
  only finished flows; `EndsKnown`: the memories hold only ended runs, so an
  open run is refused nothing;
- `KeysHold`: in an open run a key decided on is held, and a retry's answer is
  the one still held (first wins); hence `RecallStops`: a flow that follows
  such a write can leave the recall only as a retry or a conflict;
- `LogHolds`: the log has each answered fake of an open run; hence
  `SnapshotHolds`: a snapshot has each earlier one, and a check that passed
  saw none on its object;
- `SharedWithin`: what the stores share was sent, within the run.

The step proof has one lemma per action or group of actions and per part of `IInv`.
The refinement needs one thing more, `OwnAnswers`: a flow decided on afresh has
its own answer and one not decided on has none. `MemoryInit` and `MemoryStep` then
give each action of the session its step of the memory: `Send` is `Send`, the snapshot
and the overlay are `Look`, remembering is `Mint`, a recall that finds the key is `Repeat`, the
response hook of a fake is `Apply`, the two halves of the `ended` callback are `Close`
and `Forget`, and everything else a stutter.

`StoreFiles_proofs` proves, from `LocksAssumption` alone, for any processes,
runs and bodies and with no bound on starts or events: `LocksTyped`,
`BodiesKept`, `OneServe`, with them `Protected` (`LocksProtect`), and
`InUseStay`. Its `LocksInv` is what the locks mean:

- `WriterLockHeld`: the exclusive holder is the one process that plans or
  removes, no one shares the lock meanwhile, and whoever has a run open or an
  event in hand shares it, a store whose `close()` gave up included;
- `ServeLockHeld`: a serve whose store is open holds `serve.lock`;
- `FilesKept`: an open run has its directory, a line about to be written has its
  body, and no line that a deletion leaves names a body it will remove.

A deletion's step then finds nothing open, and a body's removal no line that names it.

`TraceStore_proofs` proves, from `StoreAssumption` alone (the queue holds at least
one item, an end takes no bytes), for any runs, items, sizes and number of puts and
lives: `ItemsAreAccounted`, `RunsAreResumed`, `ReportIsOfRunOnDisk`, `CountsReachDisk`
and, of steps, `EndStays`. A run's drops are in up to four places while they go to
disk, and `StoreInv` says how these differ:

- `BytesInv`: the byte count is the sum over the queue and the item just taken. A
  sum by recursion is beyond the provers, so the invariant says that a function
  exists that gives the bytes waiting from each place on;
- `HandInv`: what the writer holds at each place, and that an event about to be
  appended has its run.json;
- `MemInv`: a run's entry says what its run.json says, and the difference from what
  the entry began with is at most what the process dropped since;
- `FlightInv`, `ClosingInv`: a count that the writer or a close is about to write
  shows no drop that was not counted; a close counts only once it gave up;
- `EndInv`: unless one gave up, what is on its way to a run.json keeps its end, and
  shows no less than the run was resumed with;
- `AtCloseInv`: as the writer ends, a run's count is on disk, on its way, still to
  do, or failed and shown to be.

`SdkRuns_proofs` proves, from `SdkAssumption` alone, for any contexts, ids,
transports and depth of blocks: `RequestsAreLabelled`, `PostsBracket` and
`RunsAreRemembered`. The properties compare events in the order they arrived with
blocks that may be open in several contexts at once. `SdkInv` says of them:

- `NestInv`: a context's blocks are those of its entries that opened a run, in
  order, and each entry's token restores the run of the block around it;
- `PlaceInv`: a context that waits for a post is at a block it entered itself;
- `PatchInv`: one context wraps the transports, as many as `wrapped` says and each once;
  until it is done, whoever is in a block is in one of an import hook's runs or still
  entering it, and only such runs were handed off or sent anything unlabelled;
- `OwnerInv`: a minted run is entered by one context at a time, and moved into a
  coroutine or ended, not both;
- `StartInv`, `EndInv`: a run has one start and one end, sent or arrived; while the
  caller still waits for the start, nothing else of the run can have been sent;
- `FiledInv`: a call still going on is of the block it was made in.

`Flow_proofs` proves, from `FlowAssumption` and `NoneAssumption` (`None` is none of
the values it stands in for), for any number of faults, any cap and any chunks:
`LeavesAsPlanned` and `TellsTheSame`. Its `IInv` gives for each place a flow may be at the few
shapes that answer, plan and record have there, an agent that left included: untouched, answered by irimi, by
the endpoint or by a fake (`Decided`), on its way or streaming (`Outside`), answered by
the service (`Answering`), and what a step that raised may leave (`Finished`).
`StreamsInOrder` has an invariant of its own, `StreamInv`: before the stream begins nothing has passed
(`Before`); what the tee keeps is the start of what has passed, no more than the cap, all of it
unless it is marked (`Kept`); and a capture taken from the tee is in whole lines where it is short, as long
as its chunks, and the start of what passed, decoded (`Fits`), after which no byte passes.
`RecordedFits` goes from the first to the second for each encoding.

`Services_proofs` proves, from `StripeAssumption` and `SlackAssumption`, for any charge, amounts,
limits and clocks and with no bound on refunds, messages or posts, `RefundsAgree`, `PostsSort` and
`ReadsAlwaysAddUp`.
`StripeInv` says:

- `Filed`, `ListTyped`, `ListBounds`: refunds are sums and what they are of, and a list remembers
  no more of them than there are;
- `CallTyped`, `SawWhatIsFiled`, `CallsFit`: a refund under way saw the first so many of the filed
  ones, which no later filing changes, and one that passed its check fits beside them and
  what Stripe had then;
- `PagesTurned`: no id is on the pages twice, and for some number of faked refunds and some number of Stripe's, no
  less than there were as the list began, the pages have exactly these, or, when
  more is to follow, these from the cursor on (`Turned`). New refunds lie before the ones that are still to be
  listed, which is why none moves across a page's edge;
- the charge as it was told, when a list is through, is still the charge: `ListIsWhole` sums
  the amounts of the pages and finds its `amount_refunded`.

`ChannelInv` is short: the clock of the ids (`last`) is at or past all the agent was shown
and every post (`ClockAhead`), and `Mint` goes past it, by the second or by the counter.

`ReadInv` is about the pages of a read, until one says that it is partial:

- `ThreadsHang`: no two messages or posts have one id, and a thread hangs from a top message that
  is there, one of Slack's from one of Slack's;
- `SoFar`: while there is more to come, the pages have exactly a set `N` of Slack's messages
  and a set `P` of the posts, each once, and `N` is all that fits up to the cursor. History
  comes newest first, so what is written meanwhile is not owed and lies behind; a thread
  comes oldest first, and what is new lies ahead (`SoFarKeeps`);
- `AllRead`: the read that has ended has all there was when it began;
- `Counted`: what an agent was shown is there, and its count has every reply there was when the read
  began.

A page joins what was read before because what is left has not been read (`StillLeft`) and the posts
come on one page alone (`PageJoins`); `Holds` says what a page has, laid over by the effects
(`HistoryPage`, `RepliesPage`), and a thread of a faked parent is one page of irimi's own (`FakedPage`).

All three need what a recursion gives for every input. The library's induction theorems
take an operator as a parameter; `Induction` (a set of numbers that has 0 and the
successor of each has them all) and `Recursion` (`Runs`: a function built by steps that are themselves a function)
say the same of sets and functions, from `<` being well-founded; `Flow_proofs` and
`Replays_proofs` use the same form.
`TotalRuns`, `FlattenRuns`, `MintedRuns`, `PickedRuns` instantiate them for sums, joined pages, refunds
with their ids and chosen messages, and `PairsRun` (in `Replays_proofs`) for the pairs of a summary.

`Commands_proofs` proves, from the assumptions of `ChildRun`, `RunCommands` and
`Serve`, for any exit codes, command lines, stored runs and number of signals:
`CommandIsLookedAfter`, `OutcomeIsTold` and `ServeReportsDeath`. Three invariants, as
the parts share only what the child's run ends as: `ChildInv` (before the command
nothing was sent to it; while it runs it has its run, its proxy and its SIGTERMs;
afterwards it is reaped, killed, or was left by a Ctrl-C where none is expected),
`CommandInv` (what result, file and exit code may say at each place) and
`ServeInv` (whoever asks serve to stop left a trace of it).

It also proves, from `MapsAssumption` (maps, overrides, flags and requests have the shapes
that the parser lets through), for any number of them, `RequestsAreAnsweredAsMapped`. The
property speaks of one request; `MapsInv` of the way there: once the shipped maps are read,
no two claim one host and every route keeps the rules (`RulesHold`), and what serves has
passed `Validated`. Overrides and flags keep the first because they change nothing that it is about
(`SameRules`, `RulesKept`); they may well break the second, which is why it is checked last.
That a host has one service (`OneService`: of two patterns of one host the longer wins, and of one
length there is only one) and a path one route (`OneRoute`) makes `Classify` say one of three
things (`OneClassified`), and the scope rule, the default kinds and the targets are gone through for each.

`Replays_proofs` proves, from `ReplayAssumption` (stored runs are made of events,
the null values are no keys and no matches), for any stored runs, requests and keys:
`AnswersAreTheRecordings`, `NoneIsStale` and `NoneMissedSilently`. `IndexInv` has, beside
the parts of these properties that are kept by themselves:

- `PlaceInv` and `PastInv`: what a request has at each place, and that what was
  answered before it stays answered;
- `MatchInv`: an answer is the entry that was taken, and matches;
- `UsedInv`: what a request took is used up, and so is every earlier entry it could
  have taken: none is passed over, from which order and the absence of silent misses follow;
- `DivergedInv`: a write that the recording did not answer diverged the replay before
  it was answered itself;
- `KeyInv`: a key whose write was answered is held, and whoever sends it again knows.

`NoneMissedSilently` maps the answers into the recorded calls that were to be made, one to one: as
many of the one as of the other leave none of the calls out. The index takes the least entry
that matches; that there is one follows from `<` being well-founded.

Of a run's summary it proves, from `SummaryAssumption` alone, for any flows, services,
objects and number of exchanges, `TotalsAreTold`, `ShownReadsAreFiled` and
`ReadsAreUnderTheirWrites`. None is
inductive, for the writes under way and the write log are still to be recorded. `SummaryInv` says:

- `SummaryType`: every event is `Sound`: who answered it fits its kind and its flags. From
  it each exchange's counter tells its answerer (`CountedAsAnswered`), so the two ways to
  count make the same three sets, and the totals are their cardinalities;
- `AuthoredInv`: a service in the write log has an authored write among the events;
- `ShownInv`: before a read that shows writes there is one of its service, unless the read was
  answered from a recording. The latest of these is what `ReadsUnder` files the read
  under; a recorded read without one is filed under none.

Which check reads a write can take needs `FlowsInv`, of the requests whose writes overlap:

- `Known`, `Once`: a check read and a checked write have the object and the times of the
  request that left them, and it left one of each;
- `CheckFirst`: what a request asked is recorded before its write is;
- `Timed`: on a clock that was not set back it was asked within the write, and no check
  read recorded before a write was made after it.

`ChecksAreTheirs` then follows by exchange. Between two writes the checked writes still to come
whose own check reads are recorded can be paired, one to one, with the check reads that are left, each with
one it may have (`Paired`): at first with its own. A write that takes the one
meant for another leaves it the one it was to have itself, which names the same object and is no earlier
(`PairedTaken`), because the code takes, of those that name the object, the earliest (`PickedRight`).
So none is ever left without, though a check read may be shown with another write of its object. The rule to
prefer names without the rule to prefer early ones would not keep the pairing.

Of two runs it proves, from `CompareAssumption` (an event has its fields, a tool call no flags, and
what was sent tells whether it is JSON), for runs of any length, `RunsAreCompared`. `CompareInv` is
only that the runs are made of such events: all else is in the functions. `LinedUp` says of the rows
of a stretch what both alignments promise of it: every action of it in one row, in order, rows of
two actions being of one key (`HasAll`, `RowFits`), a pair between any two of one key that stand
alone (`Parted`), and the same actions on both sides if all rows are same (`AllSame`).

- Rows of adjoining stretches have it of both together, if there is a pair where they meet (`RowsJoined`).
  A block is all pairs, so it joins what lies before it with what follows (`SplitLinedUp`).
- A stretch that has a block has a longest (`LongestExists`), and what it leaves is shorter. So a
  function that is its own `Body` exists (`SolutionExists`, from `Recursion` and `BodyDepends`) and lines up
  every stretch (`SolutionLinesUp`), if what a stretch without a block has is lined up: by key, nothing
  is left to pair (`UnpairedLinedUp`); among same actions, that is `ByKey`, the same argument once over (`AlignLinesUp`).
- Of runs that are the same the longest block is all of them (`SameAligned`), and two
  actions are the same just when their events differ at most in flags without meaning (`SameWrites`).

Of the file below the locks it proves, from `FileAssumption` alone, `TypeCorrect`; and, where
`Shared` is false, that is of a run's own file, for any number of
processes one after another, of pieces, lines and openings: `LinesAreKept`,
`SeqsAreDense` and, of steps, `FileOnlyGrows`. Of the shared file they are false
(`events_cut`). `FileInv` says of the file:

- `Laid`: a piece follows its line's others, and they the end of another line; so
  every newline ends a line that parses;
- `Numbered`: a line's `seq` is the number of newlines up to its own;
- `KeptInv`: each line whose append returned ends there;
- `Alone` and `Knows`: what the one user's variables say of it at each call. While a
  line is written, whole lines and `done` of its pieces are all there is
  (`Pending`), which is why a cut at `start` takes the torn line and no byte more, and
  `nextSeq` is one more than the lines that end in the file.

Every inductive invariant, and the type invariant in it, was model-checked on the
instances above before it was proved, and no run repeats it.

Only model-checked is liveness (`FakedWritesAreAnswered`, `EndsArrive`, `WaitersGetIn`,
`CommandsEnd`, `AgentGoesOn`, `EverythingEnds`): ENABLED is beyond the prover.

## Where code and text disagree

`events_cut` shows one, with its finding in `PROJECT.json`: a refused line's cut in
`unattributed/` can take a line that another process appended between its `fstat`
and its `ftruncate` (`files.py:73`, against `docs/architecture.md:150`).
`KeptLinesRead` is what holds of a run's own file.

Others were met while modelling; the models contain them and the properties are
stated so as to hold with them.

- Two overlapping sendings of one key are both decided (`policy.py:150`,
  against `idempotency.py:1`). `RetryAppliedOnce` is what does hold.
- A close that gave up on the writer can overwrite an end just written
  (`writer.py:312`, against `writer.py:314`). `EndIsKept` is what does hold.
- A read of a replay can be served between a write's unservable match and the
  divergence it causes (`replay/policy.py:100`, against `replay/index.py:6`).
  `NothingServedPastAMiss` is what does hold.
- A SIGTERM between `run_child`'s check (`shadow.py:227`) and the command's start does not
  stop it from starting, as `runner.py:180` says, but reaches it at once (`TermReachesChild`).
- A Ctrl-C between `start_run` and the next statement, or in the `finally` block, leaves
  a stored run without an end (`shadow.py:232`; `StoredRunsEnd` names the windows). A result file
  written then need not name the run (against `replay_cmd.py:141`; `ResultFileTells`).
  A Ctrl-C while the store closes is swallowed (`compose.py:317`), so a report may
  read a half-written run.
- A replayed call whose module raises `SystemExit(0)` while it loads is never made,
  and the replay's run ends `ok`, though the replay itself exits with an error.
- An engine whose loop ends before it woke the one who waits for it is reported
  as late, after `READY_TIMEOUT`, and not with its own error (`runner.py:161-165`).
- A refund without an `amount` is faked with its fixture's, where Stripe refunds the rest.
  So "a second refund of a charge the run fully refunded is refused"
  (`stripe/preconditions.py:3-4`) holds of refunds that name an amount
  (`tests/e2e/workflows/test_w05_dispute_responder.py:87` knows
  of it). One that names only a payment intent carries the fixture's charge.
- And it holds only of refunds made one after another: the writes are copied as a refund is
  planned (`session.py:145`) and it is filed only by its response hook (`session.py:366`), so
  two refunds of 2 that overlap both pass on a charge of 3, and are filed. A charge that cannot be
  read refuses nothing (`preconditions.py`). `RefundsFitTheCharge` is what does hold.
- An import hook may start a run on the thread that is patching, and that run's body goes on
  before the transports are wrapped (`_http_labels.py:55`, as the comment at 33 says and
  `tests/sdk/test_labelling.py:465` asserts): what it sends carries no label and is filed under the
  process's run. The same goes for a body that calls `instrument`, if the hook sends
  something. `RequestsLabelled` excepts the runs such a hook's code was in, and no others.
- A client that left while the request hook ran is recorded as answered by what the hook
  left on the flow, or as a forward that failed though nothing was sent
  (`mitm.py:475-489`, `session.py:374-391`); a run's start or end posted by an SDK
  that left is kept all the same. `RecordedAsAnswered` names these cases.
- A recorded tool call that is served uses up the writes in its span, which leaves the replay's run no
  event of them (`replay/index.py:360-363`); a recorded read that shows them is served with its overlay
  (`replay/policy.py:117-126`) and the report files it under no write (`report/model.py:313`).
  `ShownReadsFiled` says when this may be.
- An llm call irimi refused keeps its kind (`session.py:264-266`): it is `llm` in its host's line
  (`model.py:367`) and irimi's in the totals (`model.py:181`). A refused telemetry call
  counts as real, since only its host is kept. `TotalsAgree` names the first; telemetry is in no host's line.
- A body that was decoded may be recorded longer than the cap, which is of the bytes as they came,
  and a stream that was not cut keeps a last line without a newline. `StreamsRecordedInOrder` says which is which.
- Faked posts lie at the head of page 1 also when newer real messages exist, and a
  page that is cut, streamed or not read is not observed by the clock, which is why
  `PostsSortAfterWhatWasRead` speaks of what the agent was shown.
- `Write.asked` (`report/model.py:96`) is also true of a write whose check could not be
  built, and "a check read is recorded before its write" (`model.py:404`) is false when the
  answer cannot be put on the flow. `ChecksAreTheirs` has the first as its premise.
- A delegated read that fails in the middle of its answer counts as answered for its
  host (`model.py:147`) and not in the totals (`model.py:175`); `TotalsAgree` leaves it out.
- `NO_DIVERGENCE` is reported also when a write was refused for its cut body, or a call
  in a tool's span was answered on its own; `NothingMissedSilently` says what it leaves out.

## Not modelled

- Redaction, the codecs of the trace protocol, option parsing, `init`, `maps`, `runs`:
  functions of text, or single file operations, without state between their steps.
- Stripe's list of charges, single refunds, customers and payment intents, and
  Slack's verdict on an archived channel: each edits or judges one document on its own, and
  what they share with the others (which writes are in scope, in which order) is `ShadowSession`'s.
- Pages that are cut, streamed or not read by irimi, in `SlackChannel`.
- Modelled, but of these no property speaks: what the ended callback finds after an end that
  could not be written (that it is made is in `EndsArrive`); the result file of a replay that ends
  with exit code 2; the end of a run whose entry was cancelled, or whose coroutine nobody awaits.
- Layout and wording of every report; in `RunSummary`, `would_fire` and the
  differences of arguments; in `RunCompare`, the differences of fields.
- Exceptions inside `ShadowSession.complete`, and a failing idempotency store: `Flow`
  has a hook that raises, and says what the agent then gets, but not what had been filed.
- `list_runs` and `load` of the trace's reader; file modes and atomic replacement.
- A write that an ended run files after the memory of ended runs has forgotten it
  (`writelog.py:34`) is accepted by the code: `EndedRunsHoldNothing` speaks of the runs still
  remembered, and `RunMemory` allows the rest.
- Three hazards have no property. A run's end dropped on a full queue
  (`writer.py:280`) is accepted by the code. `prune` choosing runs before it takes the
  locks (`cli/runs.py:224`) is about ages, which `StoreLocks` does not have. A signal to a
  pid that was just reaped (`runner.py:201`) is inside Popen's wait, one step here.

## Plan

Modelled: the session and its memory, the store, its files and locks, replays and
their reports, commands and serve, the SDK, a request's way through the proxy, maps
and the two services. What is worth adding, in this order:

1. An append-only run log as the abstract specification of `TraceStore`, and the
   store composed with the session through the `ended` callback.
2. Stripe's and Slack's other documents, and ages in `StoreLocks`.
