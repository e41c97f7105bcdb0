----------------------------- MODULE StoreFiles -----------------------------
(***************************************************************************)
(* What the processes of one root do to its files: they append to a run's  *)
(* events.jsonl, and keep off each other by two locks.  The locks know     *)
(* nothing of a file's bytes, nor an append of the locks beyond who may    *)
(* have the file open; one of them is looked at at a time.                 *)
(***************************************************************************)
EXTENDS EventsFile, StoreLocks

VARIABLE part   \* what is looked at: one file, or the locks

filesVars == <<part, vars, lockVars>>

FilesInit == part \in {"file", "locks"} /\ Init /\ LocksInit

FilesNext ==
    \/ part = "file" /\ Next /\ UNCHANGED <<part, lockVars>>
    \/ part = "locks" /\ LocksNext /\ UNCHANGED <<part, vars>>

\* A running process goes on; nothing makes a store close or a process exit.
FairSpec ==
    /\ FilesInit /\ [][FilesNext]_filesVars
    /\ \A p \in Sharers : WF_filesVars(part = "locks" /\ Proceed(p) /\ UNCHANGED <<part, vars>>)

=============================================================================
