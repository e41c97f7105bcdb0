------------------------------ MODULE StoreLocks ------------------------------
(***************************************************************************)
(* The processes that share a trace store's root: serves, shadows (and     *)
(* replays), and `runs rm` or `runs prune`, which delete runs and the      *)
(* bodies only they use.  Two advisory locks keep them apart: serve.lock,  *)
(* which one process holds, and the root's writer lock, shared by every    *)
(* writing store and exclusive to a deletion.  A process may be killed at  *)
(* any point; the kernel then releases what it held.                       *)
(*                                                                         *)
(* A stored event is a line of its run that names a body, a file shared by *)
(* content.  A step is one lock call or one file written or removed.       *)
(***************************************************************************)
EXTENDS Naturals, FiniteSets

CONSTANTS
    Sharers,
    Runs,          \* the directories: runs, and unattributed/
    Unattributed,  \* the one any process may write
    Blobs,         \* bodies, by content
    MaxStarts,     \* bound: the processes started
    MaxItems,      \* bound: the events stored
    NoProc

ASSUME LocksAssumption ==
    /\ Unattributed \in Runs
    /\ NoProc \notin Sharers
    /\ MaxStarts \in Nat
    /\ MaxItems \in Nat

VARIABLES
    stage, role,
    serveLock,   \* who holds serve.lock
    shared,      \* who holds the writer lock shared
    exclusive,   \* who holds it exclusively
    wpc, item,   \* the store's writer thread, and the event it writes
    opened,      \* the runs its _runs holds
    dirs,        \* the directories there are
    refs,        \* the bodies each run's lines name
    blobs,       \* the bodies there are
    pick, gone,  \* what a deletion was asked for, and the bodies it found only they use
    starts, items

locks == <<serveLock, shared, exclusive>>
writer == <<wpc, item, opened>>
disk == <<dirs, refs, blobs>>
removal == <<pick, gone>>
bounds == <<starts, items>>
lockVars == <<stage, role, serveLock, shared, exclusive, wpc, item, opened,
          dirs, refs, blobs, pick, gone, starts, items>>

NoItem == [run |-> Unattributed, blob |-> "none"]

LocksInit ==
    /\ stage = [p \in Sharers |-> "off"]
    /\ role = [p \in Sharers |-> "none"]
    /\ serveLock = NoProc /\ shared = {} /\ exclusive = NoProc
    /\ wpc = [p \in Sharers |-> "idle"]
    /\ item = [p \in Sharers |-> NoItem]
    /\ opened = [p \in Sharers |-> {}]
    /\ dirs = {} /\ refs = [r \in Runs |-> {}] /\ blobs = {}
    /\ pick = [p \in Sharers |-> {}] /\ gone = [p \in Sharers |-> {}]
    /\ starts = 0 /\ items = 0

Enter(p, place) == stage' = [stage EXCEPT ![p] = place]

-----------------------------------------------------------------------------
(* Opening a store: DirectoryStore.__init__, compose.prepare_run.           *)

Start(p) ==
    /\ stage[p] = "off"
    /\ starts < MaxStarts
    /\ starts' = starts + 1
    /\ \E as \in {"serve", "shadow"} : role' = [role EXCEPT ![p] = as]
    /\ Enter(p, "waiting")
    /\ UNCHANGED <<locks, writer, disk, removal, items>>

\* WriterLock.share waits while runs are deleted.
Share(p) ==
    /\ stage[p] = "waiting"
    /\ exclusive = NoProc
    /\ shared' = shared \cup {p}
    /\ Enter(p, IF role[p] = "serve" THEN "opening" ELSE "open")
    /\ UNCHANGED <<role, serveLock, exclusive, writer, disk, removal, bounds>>

\* Mutant: a held serve.lock is not looked at.
HoldServeAnyway(p) ==
    /\ stage[p] = "opening"
    /\ serveLock' = p
    /\ Enter(p, "open")
    /\ UNCHANGED <<role, shared, exclusive, writer, disk, removal, bounds>>

\* ServeLock.hold does not wait: a held serve.lock refuses this serve, which
\* closes the store it has opened and exits.
HoldServe(p) ==
    /\ stage[p] = "opening"
    /\ \/ /\ serveLock = NoProc
          /\ serveLock' = p
          /\ Enter(p, "open")
          /\ UNCHANGED shared
       \/ /\ serveLock # NoProc
          /\ shared' = shared \ {p}
          /\ Enter(p, "refused")
          /\ UNCHANGED serveLock
    /\ UNCHANGED <<role, exclusive, writer, disk, removal, bounds>>

-----------------------------------------------------------------------------
(* The writer thread: _open, _put_body, append_line.                        *)

\* A shadow's run is new; a serve's agents name any; each run has one writer.
MayWrite(p, r) ==
    \/ r = Unattributed
    \/ r \in opened[p]
    \/ r \notin dirs /\ \A q \in Sharers : r \notin opened[q]
    \/ role[p] = "serve" /\ \A q \in Sharers : r \notin opened[q]

OpenRun(p, r, b) ==
    /\ stage[p] = "open"
    /\ wpc[p] = "idle"
    /\ items < MaxItems
    /\ MayWrite(p, r)
    /\ items' = items + 1
    /\ opened' = [opened EXCEPT ![p] = @ \cup {r}]
    /\ dirs' = dirs \cup {r}
    /\ item' = [item EXCEPT ![p] = [run |-> r, blob |-> b]]
    /\ wpc' = [wpc EXCEPT ![p] = "body"]
    /\ UNCHANGED <<stage, role, locks, refs, blobs, removal, starts>>

\* A body is written once: one that is there is not written again.
PutBody(p) ==
    /\ wpc[p] = "body"
    /\ blobs' = blobs \cup {item[p].blob}
    /\ wpc' = [wpc EXCEPT ![p] = "line"]
    /\ UNCHANGED <<stage, role, locks, item, opened, dirs, refs, removal, bounds>>

AppendLine(p) ==
    /\ wpc[p] = "line"
    /\ refs' = [refs EXCEPT ![item[p].run] = @ \cup {item[p].blob}]
    /\ item' = [item EXCEPT ![p] = NoItem]
    /\ wpc' = [wpc EXCEPT ![p] = "idle"]
    /\ UNCHANGED <<stage, role, locks, opened, dirs, blobs, removal, bounds>>

\* An ended run is forgotten.
ForgetRun(p, r) ==
    /\ stage[p] = "open"
    /\ wpc[p] = "idle"
    /\ r \in opened[p]
    /\ opened' = [opened EXCEPT ![p] = @ \ {r}]
    /\ UNCHANGED <<stage, role, locks, wpc, item, disk, removal, bounds>>

-----------------------------------------------------------------------------
(* Closing: DirectoryStore.close, Run.__exit__.                             *)

\* close() joins the writer, or gives up on it.
Close(p) ==
    /\ stage[p] = "open"
    /\ Enter(p, IF wpc[p] = "idle" THEN "joined" ELSE "late")
    /\ UNCHANGED <<role, locks, writer, disk, removal, bounds>>

\* Mutant: the lock is let go of under a writer that is still running.
ReleaseAnyway(p) ==
    /\ stage[p] \in {"joined", "late"}
    /\ shared' = shared \ {p}
    /\ opened' = IF wpc[p] = "idle" THEN [opened EXCEPT ![p] = {}] ELSE opened
    /\ Enter(p, "closed")
    /\ UNCHANGED <<role, serveLock, exclusive, wpc, item, disk, removal, bounds>>

\* A writer still running keeps the lock until the process exits.
ReleaseWriter(p) ==
    /\ stage[p] \in {"joined", "late"}
    /\ IF wpc[p] = "idle"
       THEN shared' = shared \ {p} /\ opened' = [opened EXCEPT ![p] = {}]
       ELSE UNCHANGED <<shared, opened>>
    /\ Enter(p, "closed")
    /\ UNCHANGED <<role, serveLock, exclusive, wpc, item, disk, removal, bounds>>

ReleaseServe(p) ==
    /\ stage[p] = "closed"
    /\ serveLock' = IF serveLock = p THEN NoProc ELSE serveLock
    /\ Enter(p, "leaving")
    /\ UNCHANGED <<role, shared, exclusive, writer, disk, removal, bounds>>

\* The process exits or is killed; its locks and threads go with it.
Exit(p) ==
    /\ stage[p] # "off"
    /\ Enter(p, "off")
    /\ role' = [role EXCEPT ![p] = "none"]
    /\ serveLock' = IF serveLock = p THEN NoProc ELSE serveLock
    /\ shared' = shared \ {p}
    /\ exclusive' = IF exclusive = p THEN NoProc ELSE exclusive
    /\ wpc' = [wpc EXCEPT ![p] = "idle"]
    /\ item' = [item EXCEPT ![p] = NoItem]
    /\ opened' = [opened EXCEPT ![p] = {}]
    /\ pick' = [pick EXCEPT ![p] = {}]
    /\ gone' = [gone EXCEPT ![p] = {}]
    /\ UNCHANGED <<disk, bounds>>

-----------------------------------------------------------------------------
(* Deleting runs: retention.remove.                                         *)

\* The runs are chosen before any lock is taken.
Pick(p, some) ==
    /\ stage[p] = "off"
    /\ starts < MaxStarts
    /\ starts' = starts + 1
    /\ some # {}
    /\ some \subseteq dirs
    /\ role' = [role EXCEPT ![p] = "rm"]
    /\ pick' = [pick EXCEPT ![p] = some]
    /\ Enter(p, "rm")
    /\ UNCHANGED <<locks, writer, disk, gone, items>>

\* serve.lock first, without waiting.
HoldServeToRemove(p) ==
    /\ stage[p] = "rm"
    /\ \/ serveLock = NoProc /\ serveLock' = p /\ Enter(p, "rm_serve")
       \/ serveLock # NoProc /\ UNCHANGED serveLock /\ Enter(p, "refused")
    /\ UNCHANGED <<role, shared, exclusive, writer, disk, removal, bounds>>

\* Then the writer lock, without waiting either.
Exclude(p) ==
    /\ stage[p] = "rm_serve"
    /\ \/ /\ shared = {} /\ exclusive = NoProc
          /\ exclusive' = p
          /\ Enter(p, "planning")
       \/ /\ shared # {} \/ exclusive # NoProc
          /\ UNCHANGED exclusive
          /\ Enter(p, "closed")
    /\ UNCHANGED <<role, serveLock, shared, writer, disk, removal, bounds>>

Named(some) == UNION {refs[r] : r \in some}

\* _plan: the bodies no line of another run names.
PlanRemoval(p) ==
    /\ stage[p] = "planning"
    /\ gone' = [gone EXCEPT ![p] = (Named(pick[p]) \ Named(dirs \ pick[p])) \cap blobs]
    /\ Enter(p, "removing")
    /\ UNCHANGED <<role, locks, writer, disk, pick, bounds>>

\* retention.plan: `prune --dry-run` only says what it would delete.
PlanOnly(p) ==
    /\ stage[p] = "planning"
    /\ Enter(p, "removed")
    /\ UNCHANGED <<role, locks, writer, disk, removal, bounds>>

\* One run's directory; one that another deletion took meanwhile raises.
RemoveRun(p, r) ==
    /\ stage[p] = "removing"
    /\ r \in pick[p]
    /\ \/ /\ r \in dirs
          /\ dirs' = dirs \ {r}
          /\ refs' = [refs EXCEPT ![r] = {}]
          /\ pick' = [pick EXCEPT ![p] = @ \ {r}]
          /\ UNCHANGED stage
       \/ /\ r \notin dirs
          /\ Enter(p, "removed")
          /\ UNCHANGED <<dirs, refs, pick>>
    /\ UNCHANGED <<role, locks, writer, blobs, gone, bounds>>

\* Then the bodies, so that no line is ever left without its own.
RemoveBlob(p, b) ==
    /\ stage[p] = "removing"
    /\ pick[p] = {}
    /\ b \in gone[p]
    /\ blobs' = blobs \ {b}
    /\ gone' = [gone EXCEPT ![p] = @ \ {b}]
    /\ UNCHANGED <<stage, role, locks, writer, dirs, refs, pick, bounds>>

Removed(p) ==
    /\ stage[p] = "removing"
    /\ pick[p] = {} /\ gone[p] = {}
    /\ Enter(p, "removed")
    /\ UNCHANGED <<role, locks, writer, disk, removal, bounds>>

\* Mutant: a deletion that is done keeps the writer lock.
KeepExcluded(p) ==
    /\ stage[p] = "removed"
    /\ Enter(p, "leaving")
    /\ UNCHANGED <<role, locks, writer, disk, removal, bounds>>

\* The writer lock is let go of before serve.lock.
EndExclude(p) ==
    /\ stage[p] = "removed"
    /\ exclusive' = NoProc
    /\ Enter(p, "closed")
    /\ UNCHANGED <<role, serveLock, shared, writer, disk, removal, bounds>>

-----------------------------------------------------------------------------

\* What a process does of itself once it is started.
Proceed(p) ==
    \/ Share(p) \/ HoldServe(p)
    \/ PutBody(p) \/ AppendLine(p)
    \/ ReleaseWriter(p) \/ ReleaseServe(p)
    \/ HoldServeToRemove(p) \/ Exclude(p) \/ PlanRemoval(p) \/ PlanOnly(p)
    \/ (\E r \in Runs : RemoveRun(p, r)) \/ (\E b \in Blobs : RemoveBlob(p, b))
    \/ Removed(p) \/ EndExclude(p)

LocksNext ==
    \E p \in Sharers :
        \/ Start(p)
        \/ \E r \in Runs, b \in Blobs : OpenRun(p, r, b)
        \/ \E r \in Runs : ForgetRun(p, r)
        \/ Close(p)
        \/ Exit(p)
        \/ \E some \in SUBSET Runs : Pick(p, some)
        \/ Proceed(p)

LocksSpec == LocksInit /\ [][LocksNext]_lockVars

-----------------------------------------------------------------------------
(* What the locks promise.                                                  *)

LockPlaces == {"off", "waiting", "opening", "open", "refused", "joined", "late", "closed", "leaving",
           "rm", "rm_serve", "planning", "removing", "removed"}

LocksTypeOK ==
    /\ stage \in [Sharers -> LockPlaces]
    /\ role \in [Sharers -> {"none", "serve", "shadow", "rm"}]
    /\ serveLock \in Sharers \cup {NoProc}
    /\ shared \subseteq Sharers
    /\ exclusive \in Sharers \cup {NoProc}
    /\ wpc \in [Sharers -> {"idle", "body", "line"}]
    /\ item \in [Sharers -> [run : Runs, blob : Blobs \cup {"none"}]]
    /\ opened \in [Sharers -> SUBSET Runs]
    /\ dirs \subseteq Runs
    /\ refs \in [Runs -> SUBSET Blobs]
    /\ blobs \subseteq Blobs
    /\ pick \in [Sharers -> SUBSET Runs]
    /\ gone \in [Sharers -> SUBSET Blobs]
    /\ starts \in Nat /\ items \in Nat

\* Every stored line can be read back: its body is there, though bodies are
\* shared by runs, written before their lines and deleted after them, and any
\* process may be killed in between (_put_body, retention.remove).
LinesHaveBodies == \A r \in dirs : refs[r] \subseteq blobs

\* No run is deleted while a store has it open, not even one whose close() gave
\* up on a writer that is still running (lock.WriterLock).
RunsInUseStay ==
    [][\A r \in dirs \ dirs' : \A p \in Sharers : r \notin opened[p]]_lockVars

\* Two serves never write one root at the same time, but for the last event of
\* one whose close() gave up on its writer (lock.ServeLock).
OneServeWrites ==
    \A p, q \in Sharers :
        /\ p # q
        /\ role[p] = "serve" /\ role[q] = "serve"
        /\ stage[p] = "open"
        => stage[q] # "open" /\ (wpc[q] # "idle" => stage[q] \in {"late", "closed", "leaving"})

\* What the two locks are for: one serve writes, and what it writes stays whole.
LocksProtect == OneServeWrites /\ LinesHaveBodies

\* A store that waits for a deletion gets its lock once the deletion is over,
\* and the locks' opposite orders never stop two processes for good.
WaitersGetIn == \A p \in Sharers : stage[p] = "waiting" ~> stage[p] # "waiting"

=============================================================================
