------------------------------ MODULE EventsFile ------------------------------
(***************************************************************************)
(* One events.jsonl: how lines are appended to it, cut off it and read     *)
(* back, over failing disks, crashes and restarts (files.append_line,      *)
(* layout.resume_seq, reader._lines).                                      *)
(*                                                                         *)
(* A line is Parts pieces, of which one os.write may take some, and its    *)
(* newline is in the last.  A step is one system call, so whatever another *)
(* process does comes between two of them.  A run's file has one writer at *)
(* a time; unattributed/ is the one file several processes append to.      *)
(***************************************************************************)
EXTENDS Naturals, Sequences, FiniteSets

CONSTANTS
    Procs,      \* the processes that write the file
    Parts,      \* the pieces of a line
    Shared,     \* whether several may have it open at once (unattributed/)
    MaxLines,   \* bound: the lines the writers try to append
    MaxOpens    \* bound: how often the file is opened

ASSUME FileAssumption ==
    /\ Parts \in Nat \ {0}
    /\ Shared \in BOOLEAN
    /\ MaxLines \in Nat
    /\ MaxOpens \in Nat

VARIABLES
    file,     \* the pieces on disk
    pc,       \* where each process is
    nextSeq,  \* _OpenRun.next_seq
    size,     \* resume_seq: the file's size as it was asked for
    whole,    \* resume_seq: `complete`, the end of the last whole line read
    line,     \* append_line: the line being written
    done,     \*   and how many of its pieces the disk took
    start,    \*   where they begin
    end,      \*   and where the last write ended
    tried,    \* the lines tried so far
    opens,
    kept      \* history: the lines whose append returned

vars == <<file, pc, nextSeq, size, whole, line, done, start, end, tried, opens, kept>>
resumeVars == <<size, whole>>
appendVars == <<line, done, start, end>>

NoLine == [n |-> 0, seq |-> 0]

\* What ftruncate fills a file with that it makes longer.
Hole == [line |-> NoLine, part |-> 0]

Piece(l, i) == [line |-> l, part |-> i]
Pieces(l, from, to) == [i \in 1..(to - from + 1) |-> Piece(l, from + i - 1)]

Init ==
    /\ file = <<>>
    /\ pc = [p \in Procs |-> "off"]
    /\ nextSeq = [p \in Procs |-> 1]
    /\ size = [p \in Procs |-> 0]
    /\ whole = [p \in Procs |-> 0]
    /\ line = [p \in Procs |-> NoLine]
    /\ done = [p \in Procs |-> 0]
    /\ start = [p \in Procs |-> 0]
    /\ end = [p \in Procs |-> 0]
    /\ tried = 0
    /\ opens = 0
    /\ kept = {}

-----------------------------------------------------------------------------
(* Reading the file back.                                                   *)

\* Where a newline is: after a line's last piece.
Newlines(f) == {i \in DOMAIN f : f[i].part = Parts}

\* The end of the last line that has a newline (data.rfind).
Complete(f) == IF Newlines(f) = {} THEN 0 ELSE CHOOSE i \in Newlines(f) : \A j \in Newlines(f) : j <= i

\* A newline at i ends a line that parses: one line's pieces, all and in order,
\* from the newline before it.
Parses(f, i) ==
    /\ i >= Parts
    /\ SubSeq(f, i - Parts + 1, i) = Pieces(f[i].line, 1, Parts)
    /\ i = Parts \/ f[i - Parts].part = Parts

Parsed(f) == {i \in Newlines(f) : Parses(f, i)}

\* _last_seq: of the last whole line that parses.
LastSeq(f) == IF Parsed(f) = {} THEN 0 ELSE f[CHOOSE i \in Parsed(f) : \A j \in Parsed(f) : j <= i].line.seq

\* ftruncate and truncate: a shorter file, or one filled up.
Truncated(f, n) == [i \in 1..n |-> IF i <= Len(f) THEN f[i] ELSE Hole]

-----------------------------------------------------------------------------
(* resume_seq.                                                              *)

Go(p, place) == pc' = [pc EXCEPT ![p] = place]

\* The writer opens the run: one process writes a given run.
Open(p) ==
    /\ pc[p] = "off"
    /\ Shared \/ \A q \in Procs : pc[q] = "off"
    /\ opens < MaxOpens
    /\ opens' = opens + 1
    /\ size' = [size EXCEPT ![p] = Len(file)]
    /\ Go(p, "sized")
    /\ UNCHANGED <<file, nextSeq, whole, appendVars, tried, kept>>

\* The next seq is the one after the last line that parses.
ReadTail(p) ==
    /\ pc[p] = "sized"
    /\ nextSeq' = [nextSeq EXCEPT ![p] = LastSeq(file) + 1]
    /\ whole' = [whole EXCEPT ![p] = Complete(file)]
    /\ Go(p, "read")
    /\ UNCHANGED <<file, size, appendVars, tried, opens, kept>>

\* A final line that a crash cut off is truncated.
CutTorn(p) ==
    /\ pc[p] = "read"
    /\ file' = IF whole[p] < size[p] THEN Truncated(file, whole[p]) ELSE file
    /\ Go(p, "idle")
    /\ UNCHANGED <<nextSeq, resumeVars, appendVars, tried, opens, kept>>

-----------------------------------------------------------------------------
(* append_line.                                                             *)

StartLine(p) ==
    /\ pc[p] = "idle"
    /\ tried < MaxLines
    /\ tried' = tried + 1
    /\ line' = [line EXCEPT ![p] = [n |-> tried + 1, seq |-> nextSeq[p]]]
    /\ done' = [done EXCEPT ![p] = 0]
    /\ Go(p, "writing")
    /\ UNCHANGED <<file, nextSeq, resumeVars, start, end, opens, kept>>

\* One os.write, of all that is left or of less.
Write(p) ==
    /\ pc[p] = "writing"
    /\ done[p] < Parts
    /\ \E n \in 1..(Parts - done[p]) :
          /\ file' = file \o Pieces(line[p], done[p] + 1, done[p] + n)
          /\ end' = [end EXCEPT ![p] = Len(file) + n]
          /\ start' = IF done[p] = 0 THEN [start EXCEPT ![p] = Len(file)] ELSE start
          /\ done' = [done EXCEPT ![p] = @ + n]
    /\ UNCHANGED <<pc, nextSeq, resumeVars, line, tried, opens, kept>>

\* The line is whole: the next one has the next seq.
Written(p) ==
    /\ pc[p] = "writing"
    /\ done[p] = Parts
    /\ kept' = kept \cup {line[p]}
    /\ nextSeq' = [nextSeq EXCEPT ![p] = @ + 1]
    /\ Go(p, "idle")
    /\ UNCHANGED <<file, resumeVars, appendVars, tried, opens>>

\* Mutant: what the disk took of a refused line stays.
LeaveHalf(p) ==
    /\ pc[p] = "writing"
    /\ done[p] < Parts
    /\ Go(p, "idle")
    /\ UNCHANGED <<file, nextSeq, resumeVars, appendVars, tried, opens, kept>>

\* Mutant: a refused line uses its seq up.
RefusedCounts(p) ==
    /\ pc[p] = "writing"
    /\ done[p] < Parts
    /\ nextSeq' = [nextSeq EXCEPT ![p] = @ + 1]
    /\ Go(p, IF done[p] > 0 /\ end[p] - start[p] = done[p] /\ Len(file) = end[p]
             THEN "cutting" ELSE "idle")
    /\ UNCHANGED <<file, resumeVars, appendVars, tried, opens, kept>>

\* The disk refuses the rest.  What it took is cut off if it is in one piece
\* and still ends the file (fstat), else it stays; the event is a drop.
Refused(p) ==
    /\ pc[p] = "writing"
    /\ done[p] < Parts
    /\ Go(p, IF done[p] > 0 /\ end[p] - start[p] = done[p] /\ Len(file) = end[p]
             THEN "cutting" ELSE "idle")
    /\ UNCHANGED <<file, nextSeq, resumeVars, appendVars, tried, opens, kept>>

Cut(p) ==
    /\ pc[p] = "cutting"
    /\ file' = Truncated(file, start[p])
    /\ Go(p, "idle")
    /\ UNCHANGED <<nextSeq, resumeVars, appendVars, tried, opens, kept>>

\* The process closes its store, or dies between any two calls.
Stop(p) ==
    /\ pc[p] # "off"
    /\ Go(p, "off")
    /\ UNCHANGED <<file, nextSeq, resumeVars, appendVars, tried, opens, kept>>

-----------------------------------------------------------------------------

Step(p) ==
    \/ Open(p) \/ ReadTail(p) \/ CutTorn(p)
    \/ StartLine(p) \/ Write(p) \/ Written(p) \/ Refused(p) \/ Cut(p)
    \/ Stop(p)

Next == \E p \in Procs : Step(p)

Spec == Init /\ [][Next]_vars

-----------------------------------------------------------------------------
(* What a run's file promises.                                              *)

Places == {"off", "sized", "read", "idle", "writing", "cutting"}
Lines == [n : 0..MaxLines, seq : Nat]

TypeOK ==
    /\ file \in Seq([line : Lines, part : 0..Parts])
    /\ pc \in [Procs -> Places]
    /\ nextSeq \in [Procs -> Nat \ {0}]
    /\ size \in [Procs -> Nat] /\ whole \in [Procs -> Nat]
    /\ line \in [Procs -> Lines] /\ done \in [Procs -> 0..Parts]
    /\ start \in [Procs -> Nat] /\ end \in [Procs -> Nat]
    /\ tried \in 0..MaxLines /\ opens \in 0..MaxOpens
    /\ kept \subseteq Lines

\* A reader never meets damage: whatever was refused, cut off or left by a
\* crash, every line that has a newline parses (reader._lines raises for a line
\* that does not, unless it is a half line at the end).
OnlyLastTorn == Parsed(file) = Newlines(file)

\* The lines a reader gets.
Read == {file[i].line : i \in Parsed(file)}

\* A line whose append returned is in the file for good: no resume, no cut of a
\* refused line and no later line takes a byte of it.
KeptLinesRead == kept \subseteq Read

\* No line that was written is lost, or hidden by what was not, in a file and
\* writers of the right types.
LinesSurvive == TypeOK /\ OnlyLastTorn /\ KeptLinesRead

\* The lines that can be read are numbered 1, 2, ... in file order, over every
\* refusal, crash and restart (docs/trace-format.md; _append, resume_seq).
SeqsDense ==
    \A i \in Parsed(file) :
        file[i].line.seq = Cardinality({j \in Parsed(file) : j <= i})

-----------------------------------------------------------------------------
(* What a document says that is false of a shared file.                      *)

\* docs/architecture.md, of a refused line, "truncated away again, without
\* touching a line another process appended after it": false when that line
\* comes between the fstat and the ftruncate.
CutsOnlyItsOwn ==
    [][\A p \in Procs :
          pc[p] = "cutting" /\ pc'[p] = "idle" /\ Len(file) > end[p] => Len(file') = Len(file)]_vars

=============================================================================
