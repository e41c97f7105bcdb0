----------------------------- MODULE TraceStore -----------------------------
(***************************************************************************)
(* The trace store's queue and its writer thread (DirectoryStore).         *)
(*                                                                         *)
(* Callers on any thread put starts, events and ends of runs on a bounded  *)
(* queue and never wait: what does not fit is dropped and counted on its   *)
(* run.  The writer thread takes items in order and writes run.json and    *)
(* events.jsonl; a run.json says how many events of the run were dropped.  *)
(* After a run's end is handled its state is forgotten and the `ended`     *)
(* callback runs.  close() puts a sentinel and joins the writer; when the  *)
(* writer is late it drains the queue itself and writes the counts.        *)
(* The process may die at any point and another open the same root.        *)
(*                                                                         *)
(* A step is what one thread does between two points where another thread, *)
(* a failing disk or a crash can come in: a section under the store's      *)
(* lock, a file write.  The sentinel is always last in the queue, so it is *)
(* a flag beside it.                                                       *)
(***************************************************************************)
EXTENDS Naturals, Sequences, FiniteSets

CONSTANTS
    Ids,             \* the run ids callers name
    Items,           \* what callers put, a set of ItemSet
    Classes,         \* the ids' classes, a set of [Ids -> ClassSet]
    QueueSize,       \* QUEUE_SIZE
    MaxQueuedBytes,  \* MAX_QUEUED_BYTES
    MaxPuts,         \* bound: the items put in one life of the process
    MaxLives,        \* bound: the processes that open the root, one after another
    Unattributed,    \* the count, and the directory, of what belongs to no run
    NoItem

\* "alien" is a start that names another replay than this store's.
ItemKinds == {"start", "alien", "event", "end"}

\* sound: FALSE when the item cannot be queued (it has no JSON form).
ItemSet == [kind : ItemKinds, id : Ids, size : 0..MaxQueuedBytes, sound : BOOLEAN]

\* own: a directory this store may write; invalid: not the name of one;
\* unclaimed: another spelling's directory, or not a replay's own;
\* unwritable: its run.json is damaged or of another schema.
ClassSet == {"own", "invalid", "unclaimed", "unwritable"}

ASSUME StoreAssumption ==
    /\ Items \subseteq ItemSet
    /\ \A i \in Items : i.kind = "end" => i.size = 0
    /\ Classes \subseteq [Ids -> ClassSet]
    /\ Classes # {}
    /\ QueueSize \in Nat \ {0}
    /\ MaxQueuedBytes \in Nat
    /\ MaxPuts \in Nat
    /\ MaxLives \in Nat
    /\ Unattributed \notin Ids
    /\ NoItem \notin Items

VARIABLES
    class,      \* what each id is to this root
    \* shared, under the store's lock
    queue, queuedBytes, sentinel, closed, abandoned, dropped, runDrops,
    \* the writer thread
    wpc, hand, rec,
    openRuns,   \* the ids in _runs
    mem,        \* what _runs says of each: its record and the drops it counted
    unsynced,   \* the event files not yet fsynced
    cpc,        \* the closing thread
    counts,     \* what either thread has left to count, and the run.json it is writing
    \* the disk
    disk,       \* each run.json
    lines,      \* how many lines each events.jsonl holds
    \* history
    lives,         \* processes so far
    puts,          \* items put, in this life as all below
    handled,       \* items written, none of their drops
    reported,      \* the runs the `ended` callback was called for
    lifeDrops,     \* drops by key
    base,          \* the drops each run.json showed when this life began
    dropsAtClose,  \* lifeDrops when the writer took the sentinel
    unshown        \* the runs whose count could not be written at the end

lockVars   == <<queue, queuedBytes, sentinel, closed, abandoned>>
countVars  == <<dropped, runDrops, lifeDrops>>
writerVars == <<wpc, hand, rec>>
runVars    == <<openRuns, mem, unsynced>>
closeVars  == <<cpc, counts>>
histVars   == <<lives, puts, base>>
endVars    == <<dropsAtClose, unshown>>
vars == <<class, queue, queuedBytes, sentinel, closed, abandoned, dropped, runDrops,
          wpc, hand, rec, openRuns, mem, unsynced, cpc, counts, disk, lines,
          lives, puts, handled, reported, lifeDrops, base, dropsAtClose, unshown>>

\* A run.json: whether it exists, whether it has an end, its dropped_events.
NoRecord == [made |-> FALSE, ended |-> FALSE, drops |-> 0]

\* A run's entry in _runs: its record, the drops of earlier processes
\* (dropped_before) and the count its run.json last said (dropped_written).
NoEntry == [made |-> FALSE, ended |-> FALSE, before |-> 0, shown |-> 0]

\* A run.json about to be written.
NoWrite == [id |-> Unattributed, ended |-> FALSE, drops |-> 0]

\* The threads that may write the runs' drop counts, and one with nothing to count.
Threads == {"writer", "closer"}
NoCount == [todo |-> {}, rec |-> NoWrite]

Keys == Ids \cup {Unattributed}
KeyOf(id) == IF class[id] = "invalid" THEN Unattributed ELSE id

\* What a process starts with: an empty store over the root as it is.
Fresh ==
    /\ queue = <<>> /\ queuedBytes = 0 /\ sentinel = FALSE
    /\ closed = FALSE /\ abandoned = FALSE
    /\ dropped = 0
    /\ runDrops = [k \in Keys |-> 0]
    /\ wpc = "idle" /\ hand = NoItem /\ rec = NoWrite
    /\ openRuns = {} /\ mem = [id \in Ids |-> NoEntry] /\ unsynced = {}
    /\ cpc = "open" /\ counts = [t \in Threads |-> NoCount]
    /\ puts = 0 /\ handled = 0 /\ reported = {}
    /\ lifeDrops = [k \in Keys |-> 0]
    /\ dropsAtClose = [id \in Ids |-> 0] /\ unshown = {}

Init ==
    /\ Fresh
    /\ class \in Classes
    /\ disk = [id \in Ids |-> NoRecord]
    /\ lines = [k \in Keys |-> 0]
    /\ lives = 1
    /\ base = [id \in Ids |-> 0]

-----------------------------------------------------------------------------
(* Callers: _put and _drop.                                                 *)

CountDrop(k) ==
    /\ dropped' = dropped + 1
    /\ runDrops' = [runDrops EXCEPT ![k] = @ + 1]
    /\ lifeDrops' = [lifeDrops EXCEPT ![k] = @ + 1]

\* The byte budget; one item larger than it all still fits an empty one.
Fits(i) == queuedBytes + i.size <= MaxQueuedBytes \/ queuedBytes = 0

Put(i) ==
    /\ puts < MaxPuts
    /\ puts' = puts + 1
    /\ \/ /\ i.sound /\ ~closed /\ Fits(i) /\ Len(queue) < QueueSize
          /\ queue' = Append(queue, i)
          /\ queuedBytes' = queuedBytes + i.size
          /\ UNCHANGED countVars
       \/ /\ ~i.sound \/ closed \/ ~Fits(i) \/ Len(queue) >= QueueSize
          /\ CountDrop(KeyOf(i.id))
          /\ UNCHANGED <<queue, queuedBytes>>
    /\ UNCHANGED <<class, sentinel, closed, abandoned, writerVars, runVars, closeVars,
                   disk, lines, lives, base, handled, reported, endVars>>

-----------------------------------------------------------------------------
(* The writer thread.                                                       *)

Take ==
    /\ wpc = "idle"
    /\ queue # <<>>
    /\ hand' = Head(queue)
    /\ queue' = Tail(queue)
    /\ wpc' = "taken"
    /\ UNCHANGED <<class, queuedBytes, sentinel, closed, abandoned, countVars, rec,
                   runVars, closeVars, disk, lines, histVars, handled, reported, endVars>>

\* _taken releases the item's bytes; an abandoned store writes nothing more.
Release ==
    /\ wpc = "taken"
    /\ queuedBytes' = queuedBytes - hand.size
    /\ wpc' = IF abandoned THEN "drop" ELSE "handle"
    /\ UNCHANGED <<class, queue, sentinel, closed, abandoned, countVars, hand, rec,
                   runVars, closeVars, disk, lines, histVars, handled, reported, endVars>>

\* Mutant: a run resumed from disk counts its drops from zero.
EntryFromZero(id) ==
    IF id \in openRuns THEN mem[id]
    ELSE [made |-> disk[id].made, ended |-> disk[id].ended, before |-> 0, shown |-> 0]

\* The entry _runs has for id once it was opened: resumed from disk if new.
Entry(id) ==
    IF id \in openRuns THEN mem[id]
    ELSE [made |-> disk[id].made, ended |-> disk[id].ended,
          before |-> disk[id].drops, shown |-> disk[id].drops]

Open(id) ==
    /\ openRuns' = openRuns \cup {id}
    /\ mem' = [mem EXCEPT ![id] = Entry(id)]

\* The run.json to write: _dropped_in is read under the lock, before the write.
RecordOf(id, ended) ==
    [id |-> id, ended |-> ended, drops |-> Entry(id).before + runDrops[id]]

WriterStays ==
    UNCHANGED <<class, lockVars, closeVars, lines, histVars, endVars>>

\* Mutant: a late start is written like any other.
HandleAnyStart ==
    /\ wpc = "handle"
    /\ hand.kind = "start"
    /\ class[hand.id] = "own"
    /\ Open(hand.id)
    /\ rec' = RecordOf(hand.id, FALSE)
    /\ wpc' = "record"
    /\ UNCHANGED <<hand, countVars, unsynced, disk, handled, reported>>
    /\ WriterStays

\* A start is written as the run's record, an ended run's record kept.
HandleStart ==
    /\ wpc = "handle"
    /\ hand.kind = "start"
    /\ class[hand.id] = "own"
    /\ ~Entry(hand.id).ended
    /\ Open(hand.id)
    /\ rec' = RecordOf(hand.id, FALSE)
    /\ wpc' = "record"
    /\ UNCHANGED <<hand, countVars, unsynced, disk, handled, reported>>
    /\ WriterStays

\* Mutant of Forget: the event file is not synced.
ForgetUnsynced(id, entry) ==
    /\ openRuns' = openRuns \ {id}
    /\ mem' = [mem EXCEPT ![id] = NoEntry]
    /\ UNCHANGED unsynced
    /\ runDrops' = [runDrops EXCEPT ![id] = @ - (entry.shown - entry.before)]

\* _forget: what the run.json shows is no longer counted in memory.
Forget(id, entry) ==
    /\ openRuns' = openRuns \ {id}
    /\ mem' = [mem EXCEPT ![id] = NoEntry]
    /\ unsynced' = unsynced \ {id}
    /\ runDrops' = [runDrops EXCEPT ![id] = @ - (entry.shown - entry.before)]

\* A start after the run's end is a drop, counted on the store alone.
DropLateStart ==
    /\ wpc = "handle"
    /\ hand.kind = "start"
    /\ class[hand.id] = "own"
    /\ Entry(hand.id).ended
    /\ LET entry == Entry(hand.id)
       IN  /\ openRuns' = openRuns \ {hand.id}
           /\ mem' = [mem EXCEPT ![hand.id] = NoEntry]
           /\ unsynced' = unsynced \ {hand.id}
           /\ runDrops' = [runDrops EXCEPT ![hand.id] = @ - (entry.shown - entry.before),
                                           ![Unattributed] = @ + 1]
    /\ dropped' = dropped + 1
    /\ lifeDrops' = [lifeDrops EXCEPT ![Unattributed] = @ + 1]
    /\ wpc' = "idle"
    /\ hand' = NoItem
    /\ UNCHANGED <<rec, disk, handled, reported>>
    /\ WriterStays

DropAlienStart ==
    /\ wpc = "handle"
    /\ hand.kind = "alien"
    /\ CountDrop(Unattributed)
    /\ wpc' = "idle"
    /\ hand' = NoItem
    /\ UNCHANGED <<rec, runVars, disk, handled, reported>>
    /\ WriterStays

HandleEnd ==
    /\ wpc = "handle"
    /\ hand.kind = "end"
    /\ class[hand.id] = "own"
    /\ Open(hand.id)
    /\ rec' = RecordOf(hand.id, TRUE)
    /\ wpc' = "record"
    /\ UNCHANGED <<hand, countVars, unsynced, disk, handled, reported>>
    /\ WriterStays

\* An event of a run known only by it first writes a header record.
HandleEvent ==
    /\ wpc = "handle"
    /\ hand.kind = "event"
    /\ \/ /\ class[hand.id] = "own"
          /\ Open(hand.id)
          /\ IF Entry(hand.id).made
             THEN wpc' = "append" /\ UNCHANGED rec
             ELSE wpc' = "record" /\ rec' = RecordOf(hand.id, FALSE)
       \/ /\ class[hand.id] \in {"invalid", "unclaimed"}
          /\ wpc' = "append"
          /\ UNCHANGED <<openRuns, mem, rec>>
    /\ UNCHANGED <<hand, countVars, unsynced, disk, handled, reported>>
    /\ WriterStays

\* Mutant: the `ended` callback is called for a written end only.
HandleRaisesQuietly ==
    /\ wpc = "handle"
    /\ \/ hand.kind \in {"start", "end"} /\ class[hand.id] # "own"
       \/ hand.kind = "event" /\ class[hand.id] = "unwritable"
       \/ hand.kind # "alien" /\ hand.id \notin openRuns
    /\ wpc' = "drop"
    /\ UNCHANGED <<hand, rec, countVars, runVars, disk, handled, reported>>
    /\ WriterStays

\* An id with no directory of its own has no record, an unwritable run takes
\* nothing, and a run's directory may fail to open: the writer raises.
HandleRaises ==
    /\ wpc = "handle"
    /\ \/ hand.kind \in {"start", "end"} /\ class[hand.id] # "own"
       \/ hand.kind = "event" /\ class[hand.id] = "unwritable"
       \/ hand.kind # "alien" /\ hand.id \notin openRuns
    /\ wpc' = IF hand.kind = "end" THEN "report_failed" ELSE "drop"
    /\ UNCHANGED <<hand, rec, countVars, runVars, disk, handled, reported>>
    /\ WriterStays

\* run.json is renamed into place, and the entry follows it.
RunJson(r) ==
    /\ disk' = [disk EXCEPT ![r.id] = [made |-> TRUE, ended |-> r.ended, drops |-> r.drops]]
    /\ mem' = [mem EXCEPT ![r.id] =
                  [@ EXCEPT !.made = TRUE, !.ended = r.ended, !.shown = r.drops]]

WriteRecord ==
    /\ wpc = "record"
    /\ RunJson(rec)
    /\ rec' = NoWrite
    /\ \/ /\ hand.kind = "start"
          /\ wpc' = "idle" /\ hand' = NoItem /\ handled' = handled + 1
       \/ /\ hand.kind # "start"
          /\ wpc' = IF hand.kind = "end" THEN "forget" ELSE "append"
          /\ UNCHANGED <<hand, handled>>
    /\ UNCHANGED <<countVars, openRuns, unsynced, reported>>
    /\ WriterStays

WriteRecordFails ==
    /\ wpc = "record"
    /\ rec' = NoWrite
    /\ wpc' = IF hand.kind = "end" THEN "report_failed" ELSE "drop"
    /\ UNCHANGED <<hand, countVars, runVars, disk, handled, reported>>
    /\ WriterStays

Where(id) == IF class[id] = "own" THEN id ELSE Unattributed

AppendLine ==
    /\ wpc = "append"
    /\ lines' = [lines EXCEPT ![Where(hand.id)] = @ + 1]
    /\ unsynced' = unsynced \cup {Where(hand.id)}
    /\ handled' = handled + 1
    /\ wpc' = "idle"
    /\ hand' = NoItem
    /\ UNCHANGED <<class, lockVars, countVars, rec, openRuns, mem, closeVars, disk, histVars, reported, endVars>>

AppendFails ==
    /\ wpc = "append"
    /\ wpc' = "drop"
    /\ UNCHANGED <<hand, rec, countVars, runVars, disk, handled, reported>>
    /\ WriterStays

ForgetEnded ==
    /\ wpc = "forget"
    /\ Forget(hand.id, mem[hand.id])
    /\ wpc' = "report"
    /\ UNCHANGED <<hand, rec, dropped, lifeDrops, disk, handled, reported>>
    /\ WriterStays

\* The `ended` callback, after the end is on disk and also when it is not.
Report ==
    /\ wpc \in {"report", "report_failed"}
    /\ reported' = reported \cup {hand.id}
    /\ \/ /\ wpc = "report"
          /\ wpc' = "idle" /\ hand' = NoItem /\ handled' = handled + 1
       \/ /\ wpc = "report_failed"
          /\ wpc' = "drop" /\ UNCHANGED <<hand, handled>>
    /\ UNCHANGED <<rec, countVars, runVars, disk>>
    /\ WriterStays

DropHand ==
    /\ wpc = "drop"
    /\ CountDrop(KeyOf(hand.id))
    /\ wpc' = "idle"
    /\ hand' = NoItem
    /\ UNCHANGED <<rec, runVars, disk, handled, reported>>
    /\ WriterStays

\* After SYNC_EVERY writes, or a second with nothing to do.
Sync ==
    /\ wpc = "idle"
    /\ unsynced # {}
    /\ unsynced' = {}
    /\ UNCHANGED <<hand, rec, wpc, countVars, openRuns, mem, disk, handled, reported>>
    /\ WriterStays

-----------------------------------------------------------------------------
(* Closing.                                                                  *)

\* Mutant: only the open runs' drops are written.
DroppedInOpen == {id \in openRuns : runDrops[id] > 0}

\* The runs whose drops are to be written.
Dropped == {id \in Ids : runDrops[id] > 0}

\* The writer takes the sentinel and starts to write the counts.
TakeSentinel ==
    /\ wpc = "idle"
    /\ queue = <<>>
    /\ sentinel
    /\ sentinel' = FALSE
    /\ wpc' = "counts"
    /\ counts' = [counts EXCEPT !["writer"].todo = Dropped]
    /\ dropsAtClose' = [id \in Ids |-> lifeDrops[id]]
    /\ UNCHANGED <<class, queue, queuedBytes, closed, abandoned, countVars, hand, rec, runVars,
                   cpc, disk, lines, histVars, handled, reported, unshown>>

\* Thread t writes the counts: the writer at its end, close() when it gave up
\* waiting, while the writer may still be writing too.
Counting(t) == IF t = "writer" THEN wpc = "counts" ELSE cpc = "counts"

CountStays ==
    UNCHANGED <<class, lockVars, countVars, writerVars, unsynced, cpc, lines, histVars,
                handled, reported, dropsAtClose>>

\* One run's count, where its run.json does not show it yet.
CountRun(t, id) ==
    /\ Counting(t)
    /\ counts[t].rec = NoWrite
    /\ id \in counts[t].todo
    /\ \/ /\ class[id] = "own"
          /\ Open(id)
          /\ counts' = [counts EXCEPT ![t] =
                 [todo |-> @.todo \ {id},
                  rec  |-> IF Entry(id).before + runDrops[id] # Entry(id).shown
                           THEN RecordOf(id, Entry(id).ended) ELSE NoWrite]]
          /\ UNCHANGED unshown
       \/ \* its directory cannot be opened
          /\ class[id] # "own" \/ id \notin openRuns
          /\ counts' = [counts EXCEPT ![t].todo = @ \ {id}]
          /\ unshown' = unshown \cup {id}
          /\ UNCHANGED <<openRuns, mem>>
    /\ UNCHANGED disk
    /\ CountStays

WriteCount(t) ==
    /\ counts[t].rec # NoWrite
    /\ counts' = [counts EXCEPT ![t].rec = NoWrite]
    /\ \/ /\ RunJson(counts[t].rec)
          /\ UNCHANGED unshown
       \/ \* the write fails
          /\ unshown' = unshown \cup {counts[t].rec.id}
          /\ UNCHANGED <<disk, mem>>
    /\ UNCHANGED openRuns
    /\ CountStays

Counted(t) == Counting(t) /\ counts[t] = NoCount

WriterStops ==
    UNCHANGED <<class, lockVars, countVars, hand, rec, openRuns, mem, closeVars, disk, lines,
                histVars, handled, reported, endVars>>

\* Everything is counted and synced: the writer stops.
Finish ==
    /\ Counted("writer")
    /\ unsynced' = {}
    /\ wpc' = "stopped"
    /\ WriterStops

\* close() drained the queue, sentinel included.
StopAbandoned ==
    /\ wpc = "idle"
    /\ queue = <<>>
    /\ ~sentinel
    /\ abandoned
    /\ wpc' = "stopped"
    /\ UNCHANGED unsynced
    /\ WriterStops

CloserStays ==
    UNCHANGED <<class, writerVars, runVars, disk, lines, histVars, handled, reported, endVars>>

Close ==
    /\ cpc = "open"
    /\ closed' = TRUE
    /\ cpc' = "closing"
    /\ UNCHANGED <<queue, queuedBytes, sentinel, abandoned, countVars, counts>>
    /\ CloserStays

\* The sentinel is put, or the queue stays full until the deadline.
PutSentinel ==
    /\ cpc = "closing"
    /\ cpc' = "joining"
    /\ sentinel' = (Len(queue) < QueueSize)
    /\ UNCHANGED <<queue, queuedBytes, closed, abandoned, countVars, counts>>
    /\ CloserStays

Joined ==
    /\ cpc = "joining"
    /\ wpc = "stopped"
    /\ cpc' = "closed"
    /\ UNCHANGED <<lockVars, countVars, counts>>
    /\ CloserStays

\* CLOSE_TIMEOUT_S passes: the queue's items are dropped on this thread.
Abandon ==
    /\ cpc = "joining"
    /\ wpc # "stopped"
    /\ abandoned' = TRUE
    /\ cpc' = "draining"
    /\ UNCHANGED <<queue, queuedBytes, sentinel, closed, countVars, counts>>
    /\ CloserStays

\* Mutant: what close() drains is not counted.
DrainSilently ==
    /\ cpc = "draining"
    /\ queue # <<>>
    /\ queue' = Tail(queue)
    /\ queuedBytes' = queuedBytes - Head(queue).size
    /\ UNCHANGED <<sentinel, closed, abandoned, countVars, cpc, counts>>
    /\ CloserStays

Drain ==
    /\ cpc = "draining"
    /\ queue # <<>>
    /\ queue' = Tail(queue)
    /\ queuedBytes' = queuedBytes - Head(queue).size
    /\ CountDrop(KeyOf(Head(queue).id))
    /\ UNCHANGED <<sentinel, closed, abandoned, cpc, counts>>
    /\ CloserStays

Drained ==
    /\ cpc = "draining"
    /\ queue = <<>>
    /\ sentinel' = FALSE
    /\ cpc' = "counts"
    /\ counts' = [counts EXCEPT !["closer"].todo = Dropped]
    /\ UNCHANGED <<queue, queuedBytes, closed, abandoned, countVars>>
    /\ CloserStays

GiveUp ==
    /\ Counted("closer")
    /\ cpc' = "gave_up"
    /\ UNCHANGED <<lockVars, countVars, counts>>
    /\ CloserStays

\* The process exits or is killed, and another opens the root.
Restart ==
    /\ lives < MaxLives
    /\ lives' = lives + 1
    /\ base' = [id \in Ids |-> disk[id].drops]
    /\ UNCHANGED <<class, disk, lines>>
    /\ queue' = <<>> /\ queuedBytes' = 0 /\ sentinel' = FALSE
    /\ closed' = FALSE /\ abandoned' = FALSE
    /\ dropped' = 0
    /\ runDrops' = [k \in Keys |-> 0]
    /\ wpc' = "idle" /\ hand' = NoItem /\ rec' = NoWrite
    /\ openRuns' = {} /\ mem' = [id \in Ids |-> NoEntry] /\ unsynced' = {}
    /\ cpc' = "open" /\ counts' = [t \in Threads |-> NoCount]
    /\ puts' = 0 /\ handled' = 0 /\ reported' = {}
    /\ lifeDrops' = [k \in Keys |-> 0]
    /\ dropsAtClose' = [id \in Ids |-> 0] /\ unshown' = {}

-----------------------------------------------------------------------------

Writer ==
    \/ Take \/ Release \/ HandleStart \/ DropLateStart \/ DropAlienStart \/ HandleEnd
    \/ HandleEvent \/ HandleRaises \/ WriteRecord \/ WriteRecordFails \/ AppendLine \/ AppendFails
    \/ ForgetEnded \/ Report \/ DropHand \/ Sync
    \/ TakeSentinel \/ (\E id \in Ids : CountRun("writer", id)) \/ WriteCount("writer")
    \/ Finish \/ StopAbandoned

Closing ==
    \/ PutSentinel \/ Joined \/ Abandon \/ Drain \/ Drained
    \/ (\E id \in Ids : CountRun("closer", id)) \/ WriteCount("closer") \/ GiveUp

Next == (\E i \in Items : Put(i)) \/ Writer \/ Close \/ Closing \/ Restart

Spec == Init /\ [][Next]_vars

\* The writer's file calls return, with a failure or without one, and close()
\* waits no longer than its deadline.
FairSpec == Spec /\ WF_vars(Writer) /\ WF_vars(Closing)

-----------------------------------------------------------------------------
(* What the store promises.                                                  *)

Places == {"idle", "taken", "handle", "record", "append", "forget", "report", "report_failed",
           "drop", "counts", "stopped"}
Writes == [id : Keys, ended : BOOLEAN, drops : Nat]

TypeOK ==
    /\ class \in Classes
    /\ queue \in Seq(Items) /\ queuedBytes \in Nat
    /\ sentinel \in BOOLEAN /\ closed \in BOOLEAN /\ abandoned \in BOOLEAN
    /\ dropped \in Nat /\ puts \in Nat /\ handled \in Nat /\ lives \in Nat
    /\ runDrops \in [Keys -> Nat] /\ lifeDrops \in [Keys -> Nat]
    /\ wpc \in Places /\ hand \in Items \cup {NoItem} /\ rec \in Writes
    /\ openRuns \subseteq Ids /\ unsynced \subseteq Keys
    /\ mem \in [Ids -> [made : BOOLEAN, ended : BOOLEAN, before : Nat, shown : Nat]]
    /\ cpc \in {"open", "closing", "joining", "closed", "draining", "counts", "gave_up"}
    /\ counts \in [Threads -> [todo : SUBSET Ids, rec : Writes]]
    /\ disk \in [Ids -> [made : BOOLEAN, ended : BOOLEAN, drops : Nat]]
    /\ lines \in [Keys -> Nat]
    /\ reported \subseteq Ids /\ unshown \subseteq Ids
    /\ base \in [Ids -> Nat] /\ dropsAtClose \in [Ids -> Nat]

\* Every item put is waiting, being handled, handled or counted as dropped,
\* once, whoever of the caller, the writer and close() dropped it (stats()).
EveryItemAccounted ==
    Len(queue) + (IF hand = NoItem THEN 0 ELSE 1) + handled + dropped = puts

\* Forgetting an ended run and resuming it from its run.json neither loses a
\* drop nor counts one twice (_forget, _open, _write_record).
DropsConserved ==
    ~abandoned =>
        \A id \in Ids :
            class[id] = "own" => Entry(id).before + runDrops[id] = base[id] + lifeDrops[id]

\* Once the writer has stopped of itself, each run.json shows every drop of its
\* run counted until the sentinel, and none that did not happen (_finish).
CountsOnDiskAtClose ==
    wpc = "stopped" /\ ~abandoned =>
        \A id \in Ids \ unshown :
            class[id] = "own" =>
                /\ disk[id].drops >= base[id] + dropsAtClose[id]
                /\ disk[id].drops <= base[id] + lifeDrops[id]

\* What a run.json says of its run's end is never taken back, by a late start,
\* a late event, a count or a later process (docs/trace-format.md, "An ended
\* run is not started again").
EndIsKept == [][~abandoned => \A id \in Ids : disk[id].ended => disk'[id].ended]_vars

\* No line is ever appended to a run without a run.json: an event of a run known
\* only by it waits for its header, in this process and after a restart (_append).
EventsHaveRecord == \A id \in Ids : class[id] = "own" /\ lines[id] > 0 => disk[id].made

\* When the `ended` callback runs after a written end, the run's record has its
\* end, its events are synced and no state of it is left in memory.
ReportFindsRunOnDisk ==
    wpc = "report" /\ ~abandoned =>
        /\ disk[hand.id].ended
        /\ hand.id \notin unsynced
        /\ hand.id \notin openRuns

\* An end that was queued reaches the `ended` callback, written or not, unless
\* close() ran out of time: so a serve drops the run's write log and keys.
EndsReported ==
    \A id \in Ids :
        (\E n \in 1..Len(queue) : queue[n].kind = "end" /\ queue[n].id = id)
            ~> (id \in reported \/ abandoned)

\* close() returns and the writer stops, in time or abandoned.
CloseEnds == (cpc = "closing") ~> (wpc = "stopped" /\ cpc \in {"closed", "gave_up"})

\* A run that is resumed, in this process or in the next, goes on where it was.
RunsResumeWhole == TypeOK /\ DropsConserved /\ EventsHaveRecord

\* The end of a run, and of the store, gets to everyone who waits for it.
EndsArrive == EndsReported /\ CloseEnds

=============================================================================
