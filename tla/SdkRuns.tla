------------------------------ MODULE SdkRuns ------------------------------
(***************************************************************************)
(* How the SDK brackets an agent's work into runs.                         *)
(*                                                                         *)
(* A block (`@sdk.trigger`, `sdk.run()`) makes a run current in a context  *)
(* variable, posts its start, runs its body and posts its end.  A task or  *)
(* a thread is a context: it copies the variable where it is spawned and   *)
(* changes only its own copy.  A post is made on a worker thread, so it    *)
(* outlives a caller that is cancelled; a circuit breaker skips posts for  *)
(* a while after one that timed out.  What reaches irimi is kept per run   *)
(* in the order it arrived.                                                *)
(***************************************************************************)
EXTENDS Naturals, Sequences, FiniteSets

CONSTANTS
    Contexts,    \* asyncio tasks and threads
    Root,        \* the one the process starts with
    RunIds,      \* the ids a process may mint
    ReplayRun,   \* the run a replay's child adopts (IRIMI_REPLAY_RUN)
    NoRun,       \* no run is current: what is sent belongs to the process's run
    Transports,  \* the HTTP methods `instrument` patches, in order
    MaxNest,     \* bound: blocks one context nests
    MaxWork,     \* bound: requests and tool calls
    MaxFaults    \* bound: posts that get no answer

ASSUME SdkAssumption ==
    /\ Root \in Contexts
    /\ NoRun \notin RunIds \cup {ReplayRun}
    /\ ReplayRun \notin RunIds
    /\ Transports # <<>>
    /\ MaxNest \in Nat /\ MaxWork \in Nat /\ MaxFaults \in Nat

VARIABLES
    replaying,   \* IRIMI_REPLAY_RUN matches IRIMI_RUN
    alive,       \* the contexts that exist
    at,          \* what each context is doing
    current,     \* _RUN_ID, per context
    entries,     \* the open blocks each context knows of, those it inherited first
    minted,      \* the ids minted so far
    handed,      \* runs moved into a coroutine that nobody awaits yet
    posts,       \* posts on their way
    paused,      \* the breaker is open
    faults,      \* posts that got no answer so far
    patcher,     \* the context inside `instrument`
    patches,     \* how often each transport was wrapped
    wrapped,     \* how many this call of `instrument` has wrapped
    depth,       \* the blocks the patching context knew of when it began
    installed,   \* instrument's `_installed`
    hooked,      \* history: the runs in whose blocks an import hook's code was
    calls,       \* tool calls that have not returned
    work,        \* requests and tool calls so far
    arrived,     \* per run, what irimi was sent, in order
    blocks,      \* history: the runs whose blocks each context's code is in
    tried,       \* history: runs whose end was posted
    cancelled    \* history: runs whose entry was cancelled while the start was posted

contextVars == <<alive, at, current, entries, blocks>>
postVars    == <<posts, paused, faults>>
patchVars   == <<patcher, patches, wrapped, depth, installed, hooked>>
runVars     == <<minted, handed, tried, cancelled>>
workVars    == <<calls, work>>
vars == <<replaying, contextVars, postVars, patchVars, runVars, workVars, arrived>>

Runs == RunIds \cup {ReplayRun}
Labels == Runs \cup {NoRun}

\* An open block: the run it opened (NoRun when it joined one), the context
\* variable's value before it, and the context that holds its token.
Entry == [run : Labels, before : Labels, home : Contexts]

\* A post on its way; once late, its caller has given it up.
Post == [run : RunIds, action : {"start", "end"}, late : BOOLEAN]

Last(s) == s[Len(s)]
Front(s) == SubSeq(s, 1, Len(s) - 1)

\* The run of the innermost block c's code is in.
BlockRun(c) == IF blocks[c] = <<>> THEN NoRun ELSE Last(blocks[c])

\* The innermost block c entered itself.
Innermost(c) == Last(entries[c])
InBlock(c) == entries[c] # <<>> /\ Innermost(c).home = c

\* An import hook leaves the blocks it entered, not those around `instrument`.
BeyondTheHook(c) == c \in patcher => Len(entries[c]) > depth

\* A post is made, unless the breaker is open: then it is skipped, and never
\* made later.
Send(r, action) ==
    posts' = posts \cup {p \in {[run |-> r, action |-> action, late |-> FALSE]} : ~paused}

\* Mutant of Waiting: a late post is waited for too.
WaitingForAnswer(r, action) == \E p \in posts : p.run = r /\ p.action = action

\* The caller of a post waits until it is done or late.
Waiting(r, action) ==
    \E p \in posts : p.run = r /\ p.action = action /\ ~p.late

Init ==
    /\ replaying \in BOOLEAN
    /\ alive = {Root}
    /\ at = [c \in Contexts |-> "body"]
    /\ current = [c \in Contexts |-> NoRun]
    /\ entries = [c \in Contexts |-> <<>>]
    /\ blocks = [c \in Contexts |-> <<>>]
    /\ minted = {}
    /\ handed = {}
    /\ posts = {}
    /\ paused = FALSE
    /\ faults = 0
    /\ patcher = {}
    /\ patches = [i \in 1..Len(Transports) |-> 0]
    /\ wrapped = 0
    /\ depth = 0
    /\ installed = FALSE
    /\ hooked = {}
    /\ calls = {}
    /\ work = 0
    /\ arrived = [r \in Labels |-> <<>>]
    /\ tried = {}
    /\ cancelled = {}

-----------------------------------------------------------------------------
(* Entering a block.                                                        *)

\* c opens run r: it becomes current until the block's token restores the
\* value before it.
Open(c, r) ==
    /\ entries' = [entries EXCEPT ![c] = Append(@, [run |-> r, before |-> current[c], home |-> c])]
    /\ current' = [current EXCEPT ![c] = r]
    /\ blocks' = [blocks EXCEPT ![c] = Append(@, r)]

MayEnter(c) == c \in alive /\ at[c] = "body" /\ Len(entries[c]) < MaxNest

\* A run is current: the block joins it, and neither captures nor posts.
Join(c) ==
    /\ MayEnter(c)
    /\ current[c] # NoRun
    /\ entries' = [entries EXCEPT ![c] = Append(@, [run |-> NoRun, before |-> NoRun, home |-> c])]
    /\ UNCHANGED <<replaying, alive, at, current, blocks, postVars, patchVars, runVars, workVars, arrived>>

\* In a replay's child the replay's run is adopted: `irimi replay` posts for it.
Adopt(c) ==
    /\ MayEnter(c)
    /\ current[c] = NoRun
    /\ replaying
    /\ Open(c, ReplayRun)
    /\ at' = [at EXCEPT ![c] = "labelling"]
    /\ UNCHANGED <<replaying, alive, postVars, patchVars, runVars, workVars, arrived>>

\* A fresh id: which one does not matter.
FreshRun == CHOOSE r \in RunIds : r \notin minted

Mint(c) ==
    /\ MayEnter(c)
    /\ current[c] = NoRun
    /\ ~replaying
    /\ minted # RunIds
    /\ Open(c, FreshRun)
    /\ minted' = minted \cup {FreshRun}
    /\ at' = [at EXCEPT ![c] = "starting"]
    /\ Send(FreshRun, "start")
    /\ UNCHANGED <<replaying, alive, paused, faults, patchVars, handed, tried, cancelled, workVars, arrived>>

\* The start was sent, skipped or given up: the process is labelled next.
StartPosted(c) ==
    /\ at[c] = "starting"
    /\ ~Waiting(Innermost(c).run, "start")
    /\ at' = [at EXCEPT ![c] = "labelling"]
    /\ UNCHANGED <<replaying, alive, current, entries, blocks, postVars, patchVars, runVars, workVars, arrived>>

-----------------------------------------------------------------------------
(* Leaving a block.                                                         *)

\* Mutant of Close: the context variable is not restored.
CloseKeepingRun(c) ==
    /\ entries' = [entries EXCEPT ![c] = Front(@)]
    /\ blocks' = [blocks EXCEPT ![c] = Front(@)]
    /\ UNCHANGED current

\* The innermost block's token restores the value before it.
Close(c) ==
    /\ entries' = [entries EXCEPT ![c] = Front(@)]
    /\ current' = [current EXCEPT ![c] = Innermost(c).before]
    /\ blocks' = [blocks EXCEPT ![c] = Front(@)]

LeaveJoined(c) ==
    /\ at[c] = "body" /\ InBlock(c) /\ BeyondTheHook(c)
    /\ Innermost(c).run = NoRun
    /\ entries' = [entries EXCEPT ![c] = Front(@)]
    /\ UNCHANGED <<replaying, alive, at, current, blocks, postVars, patchVars, runVars, workVars, arrived>>

LeaveAdopted(c) ==
    /\ at[c] = "body" /\ InBlock(c) /\ BeyondTheHook(c)
    /\ Innermost(c).run = ReplayRun
    /\ Close(c)
    /\ UNCHANGED <<replaying, alive, at, postVars, patchVars, runVars, workVars, arrived>>

\* Mutant of Leave: a block another task entered is left too.
LeaveAnywhere(c) ==
    /\ at[c] = "body" /\ c \in alive /\ entries[c] # <<>>
    /\ Innermost(c).run \in RunIds
    /\ at' = [at EXCEPT ![c] = "ending"]
    /\ Send(Innermost(c).run, "end")
    /\ tried' = tried \cup {Innermost(c).run}
    /\ UNCHANGED <<replaying, alive, current, entries, blocks, paused, faults, patchVars, minted, handed, cancelled, workVars, arrived>>

\* The body returned or raised.  A block another context entered is not left
\* here: its token is refused.
Leave(c) ==
    /\ at[c] = "body" /\ InBlock(c) /\ BeyondTheHook(c)
    /\ Innermost(c).run \in RunIds
    /\ at' = [at EXCEPT ![c] = "ending"]
    /\ Send(Innermost(c).run, "end")
    /\ tried' = tried \cup {Innermost(c).run}
    /\ UNCHANGED <<replaying, alive, current, entries, blocks, paused, faults, patchVars, minted, handed, cancelled, workVars, arrived>>

EndPosted(c) ==
    /\ at[c] = "ending"
    /\ ~Waiting(Innermost(c).run, "end")
    /\ Close(c)
    /\ at' = [at EXCEPT ![c] = "body"]
    /\ UNCHANGED <<replaying, alive, postVars, patchVars, runVars, workVars, arrived>>

\* The task is cancelled while it waits for a post: the block is closed at
\* once, and the post goes on without it.
CancelStart(c) ==
    /\ at[c] = "starting"
    /\ Close(c)
    /\ cancelled' = cancelled \cup {Innermost(c).run}
    /\ at' = [at EXCEPT ![c] = "body"]
    /\ UNCHANGED <<replaying, alive, postVars, patchVars, minted, handed, tried, workVars, arrived>>

CancelEnd(c) ==
    /\ at[c] = "ending"
    /\ Close(c)
    /\ at' = [at EXCEPT ![c] = "body"]
    /\ UNCHANGED <<replaying, alive, postVars, patchVars, runVars, workVars, arrived>>

\* Mutant of HandOff: the run is closed and the coroutine awaited bare.
HandOffBare(c) ==
    /\ at[c] = "body" /\ InBlock(c) /\ BeyondTheHook(c)
    /\ Innermost(c).run \in Runs
    /\ Close(c)
    /\ UNCHANGED <<replaying, alive, at, postVars, patchVars, runVars, workVars, arrived>>

\* A sync trigger's function returned a coroutine: the run moves into it, and
\* whichever task awaits it enters the run there and ends it.
HandOff(c) ==
    /\ at[c] = "body" /\ InBlock(c) /\ BeyondTheHook(c)
    /\ Innermost(c).run \in Runs
    /\ handed' = handed \cup {Innermost(c).run}
    /\ Close(c)
    /\ UNCHANGED <<replaying, alive, at, postVars, patchVars, minted, tried, cancelled, workVars, arrived>>

Await(c, r) ==
    /\ MayEnter(c)
    /\ r \in handed
    /\ handed' = handed \ {r}
    /\ Open(c, r)
    /\ UNCHANGED <<replaying, alive, at, postVars, patchVars, minted, tried, cancelled, workVars, arrived>>

\* A task, or a thread given `propagate`'s wrapper, starts with a copy of c's
\* context.
Spawn(c, d) ==
    /\ c \in alive /\ d \notin alive
    /\ at[c] = "body"
    /\ alive' = alive \cup {d}
    /\ current' = [current EXCEPT ![d] = current[c]]
    /\ entries' = [entries EXCEPT ![d] = entries[c]]
    /\ blocks' = [blocks EXCEPT ![d] = blocks[c]]
    /\ UNCHANGED <<replaying, at, postVars, patchVars, runVars, workVars, arrived>>

-----------------------------------------------------------------------------
(* A post, with the breaker before it.                                      *)

Arrives(r, event) == arrived' = [arrived EXCEPT ![r] = Append(@, event)]

\* What irimi keeps of a start, an end, a request or a tool call: the block
\* it was made in, and whether that block was inherited.
Event(what, c, block) ==
    [what |-> what, block |-> block,
     outlives |-> \E i \in 1..Len(entries[c]) :
                     entries[c][i].run = block /\ entries[c][i].home # c]
PostEvent(p) == [what |-> p.action, block |-> p.run, outlives |-> p.late]

\* The endpoint hands the post to the store, and answers a caller that still
\* waits; a refusal, or an answer that cannot be read, is an answer too.
HandlePost(p) ==
    /\ Arrives(p.run, PostEvent(p))
    /\ posts' = posts \ {p}
    /\ UNCHANGED <<replaying, contextVars, paused, faults, patchVars, runVars, workVars>>

\* No answer in TIMEOUT_S, or no connection: the breaker opens.  The post was
\* handled, is handled later, or never is.
LosePost(p) ==
    /\ ~p.late
    /\ faults < MaxFaults
    /\ faults' = faults + 1
    /\ paused' = TRUE
    /\ \/ posts' = posts \ {p} /\ UNCHANGED arrived
       \/ posts' = posts \ {p} /\ Arrives(p.run, PostEvent(p))
       \/ posts' = (posts \ {p}) \cup {[p EXCEPT !.late = TRUE]} /\ UNCHANGED arrived
    /\ UNCHANGED <<replaying, contextVars, patchVars, runVars, workVars>>

ResumePosts ==
    /\ paused
    /\ paused' = FALSE
    /\ UNCHANGED <<replaying, contextVars, posts, faults, patchVars, runVars, workVars, arrived>>

-----------------------------------------------------------------------------
(* `instrument`: the process's transports are wrapped once, under a lock.  *)
(* Wrapping imports a library, and an import hook is the agent's own code:  *)
(* it may enter blocks, on the thread that holds the lock.                  *)

Unpatched == {i \in 1..Len(Transports) : patches[i] = 0}

\* The context's own call of `instrument`, inside of which an import hook may
\* call it again.
Patching(c) == c \in patcher /\ at[c] = "labelling" /\ Len(entries[c]) = depth

\* The runs of the blocks c's code is in are an import hook's.
Hooked(c) == hooked' = hooked \cup {blocks[c][n] : n \in 1..Len(blocks[c])}

GoToBody(c) == at' = [at EXCEPT ![c] = "body"]

\* The agent calls `instrument` itself.
Instrument(c) ==
    /\ c \in alive /\ at[c] = "body"
    /\ ~installed /\ c \notin patcher
    /\ at' = [at EXCEPT ![c] = "labelling"]
    /\ UNCHANGED <<replaying, alive, current, entries, blocks, postVars, patchVars, runVars, workVars, arrived>>

Labelled(c) ==
    /\ at[c] = "labelling"
    /\ installed
    /\ GoToBody(c)
    /\ UNCHANGED <<replaying, alive, current, entries, blocks, postVars, patchVars, runVars, workVars, arrived>>

\* Mutant of LabelledInHook: it wraps again.
WrapInHook(c) ==
    /\ at[c] = "labelling"
    /\ c \in patcher /\ BeyondTheHook(c)
    /\ patches' = [i \in 1..Len(Transports) |-> patches[i] + 1]
    /\ GoToBody(c)
    /\ Hooked(c)
    /\ UNCHANGED <<replaying, alive, current, entries, blocks, postVars, patcher, wrapped, depth, installed, runVars, workVars, arrived>>

\* Mutant of LabelledInHook: it waits for the lock its own thread holds.
WaitForItself(c) ==
    /\ at[c] = "labelling"
    /\ c \in patcher /\ BeyondTheHook(c) /\ installed
    /\ GoToBody(c)
    /\ Hooked(c)
    /\ UNCHANGED <<replaying, alive, current, entries, blocks, postVars, patcher, patches, wrapped, depth, installed, runVars, workVars, arrived>>

\* Called again by the thread that is patching, it returns at once.
LabelledInHook(c) ==
    /\ at[c] = "labelling"
    /\ c \in patcher /\ BeyondTheHook(c)
    /\ GoToBody(c)
    /\ Hooked(c)
    /\ UNCHANGED <<replaying, alive, current, entries, blocks, postVars, patcher, patches, wrapped, depth, installed, runVars, workVars, arrived>>

BeginPatching(c) ==
    /\ at[c] = "labelling"
    /\ ~installed
    /\ patcher = {}
    /\ patcher' = {c}
    /\ wrapped' = 0
    /\ depth' = Len(entries[c])
    /\ UNCHANGED <<replaying, contextVars, postVars, patches, installed, hooked, runVars, workVars, arrived>>

\* The first transport is wrapped; the second one's library is imported, and the
\* import runs a hook.
RunHook(c) ==
    /\ Patching(c)
    /\ wrapped = 0
    /\ wrapped' = 1
    /\ patches' = [patches EXCEPT ![1] = @ + 1]
    /\ GoToBody(c)
    /\ Hooked(c)
    /\ UNCHANGED <<replaying, alive, current, entries, blocks, postVars, patcher, depth, installed, runVars, workVars, arrived>>

\* The hook returns into `instrument`.
EndHook(c) ==
    /\ c \in alive /\ at[c] = "body"
    /\ c \in patcher /\ Len(entries[c]) = depth
    /\ at' = [at EXCEPT ![c] = "labelling"]
    /\ UNCHANGED <<replaying, alive, current, entries, blocks, postVars, patchVars, runVars, workVars, arrived>>

\* The rest are wrapped in order; one that raises ends it.  Either way it is not
\* tried again.
EndPatching(c) ==
    /\ Patching(c)
    /\ patcher' = {}
    /\ installed' = TRUE
    /\ wrapped' = 0
    /\ depth' = 0
    /\ \E k \in wrapped..Len(Transports) :
          patches' = [i \in 1..Len(Transports) |->
                         IF wrapped < i /\ i <= k THEN patches[i] + 1 ELSE patches[i]]
    /\ GoToBody(c)
    /\ UNCHANGED <<replaying, alive, current, entries, blocks, postVars, hooked, runVars, workVars, arrived>>

-----------------------------------------------------------------------------
(* What the body does.                                                      *)

\* The label a request carries: none on a transport that was not wrapped.
LabelOn(c, i) == IF patches[i] = 0 THEN NoRun ELSE current[c]

Request(c, i) ==
    /\ c \in alive /\ at[c] = "body"
    /\ work < MaxWork
    /\ work' = work + 1
    /\ Arrives(LabelOn(c, i), Event("request", c, BlockRun(c)))
    /\ UNCHANGED <<replaying, contextVars, postVars, patchVars, runVars, calls>>

\* A tool call takes its run when it is made; it may return in another task,
\* after the block has ended.
CallTool(c) ==
    /\ c \in alive /\ at[c] = "body"
    /\ work < MaxWork
    /\ work' = work + 1
    /\ calls' = calls \cup {[run |-> current[c], event |-> Event("tool", c, BlockRun(c))]}
    /\ UNCHANGED <<replaying, contextVars, postVars, patchVars, runVars, arrived>>

\* Its record is posted like a start, and lost like one.
FinishTool(t) ==
    /\ t \in calls
    /\ calls' = calls \ {t}
    /\ \/ ~paused /\ Arrives(t.run, t.event) /\ UNCHANGED <<paused, faults>>
       \/ paused /\ UNCHANGED <<arrived, paused, faults>>
       \/ /\ ~paused /\ faults < MaxFaults
          /\ paused' = TRUE /\ faults' = faults + 1
          /\ UNCHANGED arrived \/ Arrives(t.run, t.event)
    /\ UNCHANGED <<replaying, contextVars, posts, patchVars, runVars, work>>

-----------------------------------------------------------------------------

Posting == \E p \in posts : ~p.late /\ (HandlePost(p) \/ LosePost(p))
PostingLate == \E p \in posts : p.late /\ HandlePost(p)

Labelling(c) == Labelled(c) \/ LabelledInHook(c) \/ BeginPatching(c) \/ EndPatching(c)

Hooking(c) == Instrument(c) \/ RunHook(c) \/ EndHook(c)

Blocks(c) ==
    \/ Join(c) \/ Adopt(c) \/ Mint(c)
    \/ LeaveJoined(c) \/ LeaveAdopted(c) \/ Leave(c)
    \/ CancelStart(c) \/ CancelEnd(c)
    \/ HandOff(c) \/ \E r \in Runs : Await(c, r)
    \/ \E d \in Contexts : Spawn(c, d)

Next ==
    \/ \E c \in Contexts :
          \/ Blocks(c)
          \/ StartPosted(c) \/ EndPosted(c)
          \/ Labelling(c) \/ Hooking(c)
          \/ \E i \in 1..Len(Transports) : Request(c, i)
          \/ CallTool(c)
    \/ \E t \in calls : FinishTool(t)
    \/ Posting \/ PostingLate
    \/ ResumePosts

Spec == Init /\ [][Next]_vars

\* A post ends: it is answered or it times out.  A context that is not waiting
\* for one goes on, and patching waits for nothing but an import hook.  Nothing is
\* assumed of the agent's own code, such a hook's included, nor of what becomes of a
\* post that timed out.
FairSpec ==
    /\ Spec
    /\ WF_vars(Posting)
    /\ \A c \in Contexts : WF_vars(StartPosted(c)) /\ WF_vars(EndPosted(c)) /\ WF_vars(Labelling(c))

-----------------------------------------------------------------------------
(* What the SDK promises.                                                   *)

\* What a task sends is filed under the run of the innermost block its code is
\* in, whatever the other tasks enter and leave, and a tool call under the run
\* it was made in, even when it returns in another (RunScope, run, _Call).  Only a
\* request may be filed under no run: when a transport could not be wrapped, or
\* from a run whose block an import hook was in while the wrapping went on.
FiledUnderItsBlock ==
    /\ \A c \in alive : current[c] = BlockRun(c)
    /\ \A r \in Labels : \A i \in 1..Len(arrived[r]) :
          \/ arrived[r][i].block = r
          \/ /\ r = NoRun /\ arrived[r][i].what = "request"
             /\ Unpatched # {} \/ arrived[r][i].block \in hooked

\* The posts bracket the run's requests: nothing of a run arrives before its
\* start, unless that post had timed out, and nothing after its end but from
\* tasks that outlive the block, calls still running there and calls that
\* outlive a cancelled one (RunScope: "Posts are synchronous").
PostsBracketRequests ==
    \A r \in RunIds : LET a == arrived[r] IN \A i, j \in 1..Len(a) :
        /\ a[i].what = a[j].what /\ a[i].what \in {"start", "end"} => i = j
        /\ i < j /\ a[j].what = "start" => a[j].outlives
        /\ i < j /\ a[i].what = "end" /\ a[j].what = "request" => a[j].outlives

\* A run that was started is ended: its block is still open, its coroutine still
\* waits to be awaited, or its end was posted, unless the entry itself was
\* cancelled.  A posted end is lost only to a post that got no answer.
NoRunForgotten ==
    \A r \in minted :
        /\ \/ \E c \in alive : \E i \in 1..Len(entries[c]) : entries[c][i].run = r /\ entries[c][i].home = c
           \/ r \in handed \cup tried \cup cancelled
        /\ \/ r \notin tried \/ faults > 0
           \/ \E p \in posts : p.run = r /\ p.action = "end"
           \/ \E i \in 1..Len(arrived[r]) : arrived[r][i].what = "end"

\* Each transport is wrapped at most once, though `instrument` is called by many
\* and again from inside of itself, and the body of a block runs before the
\* wrapping ended only in a run that an import hook's code was in.
WrappedOnceFirst ==
    /\ \A i \in 1..Len(Transports) : patches[i] <= 1
    /\ \A c \in alive : at[c] = "body" /\ blocks[c] # <<>> => installed \/ BlockRun(c) \in hooked

\* An import hook runs in another task, which holds the lock.
AnotherHook(c) == \E p \in patcher \ {c} : ~Patching(p)

\* Irimi never stops the agent: a task that waits for a post goes on, whatever the
\* endpoint does, and one that waits for the patches waits for nothing but an
\* import hook in another task, never for itself.
AgentGoesOn ==
    \A c \in Contexts :
        at[c] \in {"starting", "labelling", "ending"} ~>
            at[c] = "body" \/ (at[c] = "labelling" /\ AnotherHook(c))

\* A request the agent makes in a run's block says so: it is filed under the run,
\* by a transport that was wrapped, once, before any body ran but an import hook's.
RequestsLabelled == FiledUnderItsBlock /\ WrappedOnceFirst

=============================================================================
