-------------------------- MODULE TraceStore_proofs --------------------------
(***************************************************************************)
(* Proofs about TraceStore for every set of runs and items, every size of  *)
(* the queue and of its byte budget, and any number of puts and processes. *)
(***************************************************************************)
EXTENDS TraceStore, SequenceTheorems, TLAPS

(* The inductive invariant, part by part. *)

\* The byte count is that of the queue's items and of the one just taken.
\* `sums` says how many bytes wait from each place on.
Sums(sums, q) ==
    /\ sums \in [1..(Len(q) + 1) -> Nat]
    /\ sums[Len(q) + 1] = 0
    /\ \A n \in 1..Len(q) : sums[n] = q[n].size + sums[n + 1]
Taken == IF wpc = "taken" THEN hand.size ELSE 0
BytesInv == \E sums : Sums(sums, queue) /\ queuedBytes = sums[1] + Taken

\* What the writer has in hand at each place.
Handling == {"taken", "handle", "record", "append", "forget", "report", "report_failed", "drop"}
HandInv ==
    /\ IF wpc \in Handling THEN hand \in Items ELSE hand = NoItem
    /\ wpc = "record" =>
          /\ hand.kind \in {"start", "event", "end"}
          /\ rec.id = hand.id
          /\ rec.ended = (hand.kind = "end")
    /\ wpc # "record" => rec = NoWrite
    /\ wpc \in {"record", "forget"} => hand.id \in openRuns
    /\ wpc = "append" =>
          /\ hand.kind = "event"
          /\ class[hand.id] = "own" => disk[hand.id].made
    /\ wpc \in {"forget", "report", "report_failed"} => hand.kind = "end"

\* A run's entry says what its run.json says.
MemInv ==
    /\ \A id \in openRuns :
          /\ class[id] = "own"
          /\ mem[id].made = disk[id].made
          /\ mem[id].ended = disk[id].ended
          /\ mem[id].shown = disk[id].drops
          /\ mem[id].shown <= mem[id].before + runDrops[id]
    /\ \A id \in Ids : disk[id].ended => disk[id].made

\* A count about to be written shows no drop that is not counted.  The writer's
\* runs are open; a run that close() counts may have been forgotten meanwhile.
Bounded(r) == r # NoWrite => r.id \in Ids /\ r.drops <= Entry(r.id).before + runDrops[r.id]
FlightInv ==
    /\ Bounded(rec)
    /\ \A t \in Threads : Bounded(counts[t].rec) /\ (counts[t] # NoCount => Counting(t))
    /\ counts["writer"].rec # NoWrite => counts["writer"].rec.id \in openRuns

\* Only a close() that ran out of time drains and counts.
ClosingInv == abandoned <=> cpc \in {"draining", "counts", "gave_up"}

\* What is on its way to a run.json keeps the end that is there, and neither it
\* nor a run.json shows less than the drops the run was resumed with.
KeepsEnd(r) ==
    r # NoWrite => (disk[r.id].ended => r.ended) /\ Entry(r.id).before <= r.drops
EndInv ==
    ~abandoned =>
        /\ KeepsEnd(rec) /\ KeepsEnd(counts["writer"].rec)
        /\ wpc \in {"forget", "report"} => disk[hand.id].ended
        /\ wpc = "report" => hand.id \notin unsynced /\ hand.id \notin openRuns
        /\ \A id \in openRuns : mem[id].before <= mem[id].shown

\* At the end a run's count is on disk, on its way there, still to do or failed.
AtCloseInv ==
    /\ \A id \in Ids : dropsAtClose[id] <= lifeDrops[id]
    /\ wpc \in {"counts", "stopped"} /\ ~abandoned =>
          \A id \in Ids : class[id] = "own" =>
              /\ counts["writer"].rec.id = id =>
                    counts["writer"].rec.drops >= base[id] + dropsAtClose[id]
              /\ \/ disk[id].drops >= base[id] + dropsAtClose[id]
                 \/ id \in counts["writer"].todo
                 \/ counts["writer"].rec.id = id
                 \/ id \in unshown

StoreInv ==
    /\ TypeOK /\ BytesInv /\ HandInv /\ MemInv /\ FlightInv /\ ClosingInv
    /\ DropsConserved /\ EventsHaveRecord /\ EndInv /\ AtCloseInv /\ EveryItemAccounted

-----------------------------------------------------------------------------
(* Lemmas. *)

\* What callers put.
LEMMA ItemFacts ==
    ASSUME NEW i \in Items
    PROVE  i.kind \in ItemKinds /\ i.id \in Ids /\ i.size \in Nat /\ i # NoItem
<1>1. i \in ItemSet
  BY StoreAssumption
<1> QED BY <1>1, StoreAssumption DEF ItemSet

\* An item that is put adds its bytes to every place before its own.
LEMMA SumsAppend ==
    ASSUME NEW q \in Seq(Items), NEW i \in Items, NEW sums, Sums(sums, q)
    PROVE  \E more : Sums(more, Append(q, i)) /\ more[1] = sums[1] + i.size
<1> DEFINE more == [n \in 1..(Len(q) + 2) |-> IF n = Len(q) + 2 THEN 0 ELSE sums[n] + i.size]
<1>1. i.size \in Nat /\ Len(q) \in Nat
  BY ItemFacts
<1>2. Len(Append(q, i)) = Len(q) + 1
  BY AppendProperties
<1>3. \A n \in 1..(Len(q) + 1) : sums[n] \in Nat
  BY DEF Sums
<1>4. more \in [1..(Len(Append(q, i)) + 1) -> Nat] /\ more[Len(Append(q, i)) + 1] = 0
  BY <1>1, <1>2, <1>3
<1>5. ASSUME NEW n \in 1..Len(Append(q, i))
      PROVE  more[n] = Append(q, i)[n].size + more[n + 1]
  <2>1. CASE n = Len(q) + 1
    <3>1. Append(q, i)[n] = i
      BY <2>1, AppendProperties
    <3>2. more[n] = sums[n] + i.size /\ more[n + 1] = 0 /\ sums[n] = 0
      BY <1>1, <2>1 DEF Sums
    <3> QED BY <1>1, <3>1, <3>2
  <2>2. CASE n \in 1..Len(q)
    <3>1. Append(q, i)[n] = q[n] /\ q[n].size \in Nat
      BY <2>2, AppendProperties, ElementOfSeq, ItemFacts
    <3>2. more[n] = sums[n] + i.size /\ more[n + 1] = sums[n + 1] + i.size
      BY <1>1, <2>2
    <3>3. sums[n] = q[n].size + sums[n + 1] /\ sums[n + 1] \in Nat
      BY <1>1, <1>3, <2>2 DEF Sums
    <3> QED BY <1>1, <3>1, <3>2, <3>3
  <2> QED BY <1>1, <1>2, <2>1, <2>2
<1>6. more[1] = sums[1] + i.size
  BY <1>1
<1> HIDE DEF more
<1> QED BY <1>4, <1>5, <1>6 DEF Sums

\* An item that is taken off takes its bytes with it.
LEMMA SumsTail ==
    ASSUME NEW q \in Seq(Items), q # <<>>, NEW sums, Sums(sums, q)
    PROVE  \E less : Sums(less, Tail(q)) /\ sums[1] = Head(q).size + less[1]
<1> DEFINE less == [n \in 1..Len(q) |-> sums[n + 1]]
<1>1. /\ Len(q) \in Nat /\ Len(q) > 0 /\ Tail(q) \in Seq(Items) /\ Len(Tail(q)) = Len(q) - 1
      /\ \A n \in 1..Len(Tail(q)) : Tail(q)[n] = q[n + 1]
      /\ Head(q) = q[1]
  BY HeadTailProperties, EmptySeq
<1>2. less \in [1..(Len(Tail(q)) + 1) -> Nat] /\ less[Len(Tail(q)) + 1] = 0
  BY <1>1 DEF Sums
<1>3. ASSUME NEW n \in 1..Len(Tail(q)) PROVE less[n] = Tail(q)[n].size + less[n + 1]
  <2>1. n + 1 \in 1..Len(q) /\ n \in 1..Len(q)
    BY <1>1
  <2>2. sums[n + 1] = q[n + 1].size + sums[(n + 1) + 1]
    BY <2>1 DEF Sums
  <2> QED BY <1>1, <2>1, <2>2
<1>4. sums[1] = Head(q).size + less[1]
  BY <1>1 DEF Sums
<1> HIDE DEF less
<1> QED BY <1>2, <1>3, <1>4 DEF Sums

\* The bytes that wait are not negative.
LEMMA SumsNat ==
    ASSUME NEW q \in Seq(Items), NEW sums, Sums(sums, q)
    PROVE  sums[1] \in Nat
<1> QED BY DEF Sums

\* A run's entry, opened or not, has its run.json's marks, and counts in memory
\* whatever that shows since the entry was opened.
LEMMA EntryFacts ==
    ASSUME TypeOK, MemInv, NEW id \in Ids
    PROVE  /\ Entry(id) \in [made : BOOLEAN, ended : BOOLEAN, before : Nat, shown : Nat]
           /\ Entry(id).made = disk[id].made /\ Entry(id).ended = disk[id].ended
           /\ Entry(id).shown = disk[id].drops
           /\ Entry(id).shown <= Entry(id).before + runDrops[id]
           /\ id \notin openRuns => Entry(id).before = disk[id].drops
           /\ runDrops[id] \in Nat
<1>1. runDrops[id] \in Nat /\ disk[id] \in [made : BOOLEAN, ended : BOOLEAN, drops : Nat]
  BY DEF TypeOK, Keys
<1>2. CASE id \in openRuns
  BY <1>1, <1>2 DEF Entry, MemInv, TypeOK
<1>3. CASE id \notin openRuns
  BY <1>1, <1>3 DEF Entry
<1> QED BY <1>2, <1>3

\* A write in flight is one.
LEMMA NoWriteFacts ==
    /\ NoWrite \in Writes
    /\ \A r : r.id \in Ids => r # NoWrite
<1> QED BY StoreAssumption DEF NoWrite, Writes, Keys

-----------------------------------------------------------------------------
(* The invariant holds at first. *)

\* An empty store over an empty root.
LEMMA StoreInit == Init => StoreInv
<1> SUFFICES ASSUME Init PROVE StoreInv
  OBVIOUS
<1> USE DEF Init, Fresh, NoRecord, NoEntry
<1>1. TypeOK
  <2>1. /\ queue \in Seq(Items) /\ queuedBytes \in Nat /\ class \in Classes
        /\ dropped \in Nat /\ puts \in Nat /\ handled \in Nat /\ lives \in Nat
    OBVIOUS
  <2>2. /\ runDrops \in [Keys -> Nat] /\ lifeDrops \in [Keys -> Nat] /\ lines \in [Keys -> Nat]
        /\ base \in [Ids -> Nat] /\ dropsAtClose \in [Ids -> Nat]
    OBVIOUS
  <2>3. /\ mem \in [Ids -> [made : BOOLEAN, ended : BOOLEAN, before : Nat, shown : Nat]]
        /\ disk \in [Ids -> [made : BOOLEAN, ended : BOOLEAN, drops : Nat]]
    OBVIOUS
  <2>4. counts \in [Threads -> [todo : SUBSET Ids, rec : Writes]] /\ rec \in Writes
    BY NoWriteFacts DEF NoCount
  <2>5. sentinel \in BOOLEAN /\ closed \in BOOLEAN /\ abandoned \in BOOLEAN
    OBVIOUS
  <2> QED BY <2>1, <2>2, <2>3, <2>4, <2>5 DEF TypeOK, Places
<1>2. BytesInv
  <2> DEFINE none == [n \in 1..1 |-> 0]
  <2>1. Sums(none, <<>>) /\ none[1] = 0
    BY DEF Sums
  <2> QED BY <2>1 DEF BytesInv, Taken
<1>3. HandInv /\ ClosingInv /\ EveryItemAccounted
  BY DEF HandInv, Handling, ClosingInv, EveryItemAccounted
<1>4. MemInv /\ EventsHaveRecord
  BY DEF MemInv, EventsHaveRecord, Keys
<1>5. FlightInv /\ EndInv
  <2>1. counts["writer"] = NoCount /\ \A t \in Threads : counts[t] = NoCount
    BY DEF Threads
  <2> QED BY <2>1 DEF FlightInv, Bounded, NoCount, EndInv, KeepsEnd
<1>6. DropsConserved /\ AtCloseInv
  BY DEF DropsConserved, Entry, Keys, AtCloseInv
<1> QED BY <1>1, <1>2, <1>3, <1>4, <1>5, <1>6 DEF StoreInv

-----------------------------------------------------------------------------
(* Every step keeps the bytes and the types. *)

\* Bytes come with an item that is put and go with one that is taken or drained.
LEMMA BytesStep ==
    ASSUME StoreInv, [Next]_vars
    PROVE  BytesInv'
<1> USE DEF lockVars, countVars, writerVars, runVars, closeVars, histVars, endVars
<1>0. /\ queue \in Seq(Items) /\ hand \in Items \cup {NoItem} /\ (wpc = "taken" => hand \in Items)
      /\ \A i \in Items : i.size \in Nat
  BY ItemFacts DEF StoreInv, TypeOK, HandInv, Handling
<1>1. PICK sums : Sums(sums, queue) /\ queuedBytes = sums[1] + Taken
  BY DEF StoreInv, BytesInv
<1>2. sums[1] \in Nat
  BY <1>0, <1>1, SumsNat
<1>3. ASSUME NEW i \in Items, Put(i) PROVE BytesInv'
  <2>1. CASE UNCHANGED <<queue, queuedBytes>>
    BY <1>1, <1>3, <2>1 DEF Put, BytesInv, Taken
  <2>2. CASE queue' = Append(queue, i) /\ queuedBytes' = queuedBytes + i.size
    <3>1. PICK more : Sums(more, Append(queue, i)) /\ more[1] = sums[1] + i.size
      BY <1>0, <1>1, SumsAppend
    <3>2. queuedBytes' = more[1] + Taken
      BY <1>0, <1>1, <1>2, <2>2, <3>1 DEF Taken
    <3> QED BY <1>3, <2>2, <3>1, <3>2 DEF Put, BytesInv, Taken
  <2> QED BY <1>3, <2>1, <2>2 DEF Put
<1>4. CASE Take
  <2>1. PICK less : Sums(less, Tail(queue)) /\ sums[1] = Head(queue).size + less[1]
    BY <1>0, <1>1, <1>4, SumsTail DEF Take
  <2>2. less[1] \in Nat /\ Head(queue).size \in Nat
    BY <1>0, <1>4, <2>1, SumsNat, HeadTailProperties DEF Take
  <2>3. queuedBytes' = less[1] + Taken'
    BY <1>1, <1>2, <1>4, <2>1, <2>2 DEF Take, Taken
  <2> QED BY <1>4, <2>1, <2>3 DEF Take, BytesInv
<1>5. CASE Release
  <2>1. queuedBytes' = sums[1] /\ Taken' = 0
    BY <1>0, <1>1, <1>2, <1>5 DEF Release, Taken
  <2>2. queuedBytes' = sums[1] + Taken'
    BY <1>2, <2>1
  <2> QED BY <1>1, <1>5, <2>2 DEF Release, BytesInv
<1>6. CASE Drain
  <2>1. PICK less : Sums(less, Tail(queue)) /\ sums[1] = Head(queue).size + less[1]
    BY <1>0, <1>1, <1>6, SumsTail DEF Drain
  <2>2. less[1] \in Nat /\ Head(queue).size \in Nat /\ Taken \in Nat
    BY <1>0, <1>6, <2>1, SumsNat, HeadTailProperties DEF Drain, Taken
  <2>3. queuedBytes' = less[1] + Taken /\ Taken' = Taken
    BY <1>1, <1>2, <1>6, <2>1, <2>2 DEF Drain, CloserStays, Taken
  <2> QED BY <1>6, <2>1, <2>3 DEF Drain, BytesInv
<1>7. CASE Restart
  <2> DEFINE none == [n \in 1..1 |-> 0]
  <2>1. Sums(none, <<>>) /\ none[1] = 0
    BY DEF Sums
  <2> QED BY <1>7, <2>1 DEF Restart, BytesInv, Taken
<1>8. ASSUME UNCHANGED <<queue, queuedBytes>>,
             (wpc # "taken" /\ wpc' # "taken") \/ UNCHANGED <<wpc, hand>>
      PROVE  BytesInv'
  BY <1>1, <1>8 DEF BytesInv, Taken
<1>9. CASE Writer /\ ~Take /\ ~Release
  BY <1>8, <1>9
  DEF Writer, WriterStays, WriterStops, CountStays, HandleStart, DropLateStart, DropAlienStart,
      HandleEnd, HandleEvent, HandleRaises, WriteRecord, WriteRecordFails, AppendLine, AppendFails,
      ForgetEnded, Report, DropHand, Sync, TakeSentinel, CountRun, WriteCount, Finish,
      StopAbandoned, Counted, Counting
<1>10. CASE Close \/ (Closing /\ ~Drain)
  BY <1>8, <1>10
  DEF Closing, CloserStays, CountStays, Close, PutSentinel, Joined, Abandon, Drained, CountRun,
      WriteCount, GiveUp
<1>11. CASE UNCHANGED vars
  BY <1>8, <1>11 DEF vars
<1> QED
  BY <1>3, <1>4, <1>5, <1>6, <1>7, <1>9, <1>10, <1>11 DEF Next, Closing

-----------------------------------------------------------------------------
(* Every step keeps what the writer has in hand. *)

\* Bounds of what the steps below read.
LEMMA HandFacts ==
    ASSUME StoreInv
    PROVE  /\ hand # NoItem => hand \in Items /\ hand.id \in Ids /\ hand.kind \in ItemKinds
           /\ wpc \in Handling => hand \in Items /\ hand.id \in Ids /\ hand.kind \in ItemKinds
           /\ \A id \in Ids : KeyOf(id) \in Keys /\ Where(id) \in Keys /\ id # Unattributed
           /\ Unattributed \in Keys /\ Ids \subseteq Keys
           /\ \A i \in Items : i # NoItem
<1>1. hand \in Items \cup {NoItem} /\ (wpc \in Handling => hand \in Items)
  BY DEF StoreInv, TypeOK, HandInv
<1> QED BY <1>1, ItemFacts, StoreAssumption DEF KeyOf, Where, Keys

\* Each place of the writer has its item, and its run's record is what it writes.
LEMMA HandStep ==
    ASSUME StoreInv, [Next]_vars
    PROVE  HandInv'
<1> USE DEF lockVars, countVars, writerVars, runVars, closeVars, histVars, endVars
<1>0. HandInv /\ TypeOK /\ MemInv
  BY DEF StoreInv
<1>1. /\ queue # <<>> => Head(queue) \in Items
      /\ hand # NoItem => hand.kind \in ItemKinds /\ hand.id \in Ids
      /\ wpc \in Handling => hand.kind \in ItemKinds /\ hand.id \in Ids /\ hand \in Items
  BY HandFacts, HeadTailProperties DEF StoreInv, TypeOK
<1>2. \A id \in Ids : Entry(id).made = disk[id].made
  BY <1>0, EntryFacts
<1>3. CASE Take
  BY <1>0, <1>1, <1>3 DEF Take, HandInv, Handling
<1>4. CASE Release
  BY <1>0, <1>1, <1>4 DEF Release, HandInv, Handling
<1>5. CASE HandleStart \/ HandleEnd
  <2>1. /\ rec'.id = hand.id /\ openRuns' = openRuns \cup {hand.id}
        /\ IF hand.kind = "end" THEN rec'.ended = TRUE ELSE rec'.ended = FALSE
    BY <1>5 DEF HandleStart, HandleEnd, RecordOf, Open
  <2>2. /\ wpc = "handle" /\ wpc' = "record" /\ hand' = hand
        /\ hand.kind \in {"start", "end"} /\ hand \in Items
    BY <1>1, <1>5 DEF HandleStart, HandleEnd, Handling
  <2> QED BY <2>1, <2>2 DEF HandInv, Handling
<1>6. CASE HandleEvent
  <2>1. wpc = "handle" /\ hand.kind = "event" /\ hand' = hand /\ hand \in Items /\ hand.id \in Ids
        /\ disk' = disk /\ class' = class
    BY <1>1, <1>6 DEF HandleEvent, WriterStays, Handling
  <2>2. rec = NoWrite
    BY <1>0, <2>1 DEF HandInv
  <2>3. CASE /\ class[hand.id] = "own" /\ Open(hand.id) /\ ~Entry(hand.id).made
             /\ wpc' = "record" /\ rec' = RecordOf(hand.id, FALSE)
    <3>1. rec'.id = hand.id /\ rec'.ended = FALSE /\ hand.id \in openRuns'
      BY <2>3 DEF Open, RecordOf
    <3> QED BY <2>1, <2>3, <3>1 DEF HandInv, Handling
  <2>4. CASE class[hand.id] = "own" /\ Entry(hand.id).made /\ wpc' = "append" /\ rec' = rec
    BY <1>2, <2>1, <2>2, <2>4 DEF HandInv, Handling
  <2>5. CASE class[hand.id] \in {"invalid", "unclaimed"} /\ wpc' = "append" /\ rec' = rec
    BY <2>1, <2>2, <2>5 DEF HandInv, Handling
  <2> QED BY <1>6, <2>3, <2>4, <2>5 DEF HandleEvent
<1>7. CASE WriteRecord
  <2>1. wpc = "record" /\ hand.kind \in {"start", "event", "end"} /\ rec.id = hand.id
        /\ hand \in Items /\ hand.id \in Ids /\ hand.id \in openRuns /\ openRuns' = openRuns
        /\ class' = class /\ rec' = NoWrite
    BY <1>0, <1>1, <1>7 DEF WriteRecord, WriterStays, HandInv, Handling
  <2>2. disk'[hand.id].made
    BY <1>0, <1>7, <2>1 DEF WriteRecord, RunJson, TypeOK
  <2> QED BY <1>7, <2>1, <2>2 DEF WriteRecord, HandInv, Handling
<1>8. CASE DropLateStart \/ DropAlienStart \/ DropHand \/ AppendLine \/ TakeSentinel \/ Finish
          \/ StopAbandoned \/ Restart
  <2>1. hand' = NoItem /\ rec' = NoWrite /\ wpc' \in {"idle", "counts", "stopped"}
    BY <1>0, <1>8
    DEF DropLateStart, DropAlienStart, DropHand, AppendLine, TakeSentinel, Finish, StopAbandoned,
        Restart, WriterStops, HandInv, Handling, Counted, Counting
  <2> QED BY <2>1 DEF HandInv, Handling
<1>9. CASE HandleRaises \/ WriteRecordFails \/ AppendFails \/ ForgetEnded \/ Report
  <2>1. /\ wpc' = "report_failed" => hand.kind = "end" /\ hand' = hand
        /\ wpc' = "report" => hand.kind = "end" /\ hand' = hand
        /\ rec' = NoWrite /\ wpc' \in {"drop", "report_failed", "report", "idle"}
        /\ IF wpc' = "idle" THEN hand' = NoItem ELSE hand' \in Items
    BY <1>0, <1>1, <1>9
    DEF HandleRaises, WriteRecordFails, AppendFails, ForgetEnded, Report, HandInv, Handling
  <2> QED BY <2>1 DEF HandInv, Handling
<1>10. ASSUME UNCHANGED <<wpc, hand, rec, class>>, openRuns \subseteq openRuns',
              \A id \in Ids : disk[id].made => disk'[id].made
       PROVE  HandInv'
  <2>1. wpc = "append" => hand.id \in Ids
    BY <1>1 DEF Handling
  <2> QED BY <1>0, <1>10, <2>1 DEF HandInv
<1>11. CASE UNCHANGED <<wpc, hand, rec, class, openRuns, disk>>
  BY <1>10, <1>11
<1>12. ASSUME NEW t \in Threads, NEW id \in Ids, CountRun(t, id) PROVE HandInv'
  BY <1>10, <1>12 DEF CountRun, CountStays, Open
<1>13. ASSUME NEW t \in Threads, WriteCount(t) PROVE HandInv'
  <2>1. \A id \in Ids : disk[id].made => disk'[id].made
    <3> DEFINE r == counts[t].rec
    <3>1. disk' = [disk EXCEPT ![r.id] = [made |-> TRUE, ended |-> r.ended, drops |-> r.drops]]
          \/ disk' = disk
      BY <1>13 DEF WriteCount, RunJson
    <3>2. disk \in [Ids -> [made : BOOLEAN, ended : BOOLEAN, drops : Nat]]
      BY <1>0 DEF TypeOK
    <3> HIDE DEF r
    <3> QED BY <3>1, <3>2
  <2> QED BY <1>10, <1>13, <2>1 DEF WriteCount, CountStays
<1>14. CASE Sync \/ (\E i \in Items : Put(i)) \/ Close \/ PutSentinel \/ Joined \/ Abandon \/ Drain
           \/ Drained \/ GiveUp \/ UNCHANGED vars
  BY <1>11, <1>14
  DEF Sync, WriterStays, Put, Close, PutSentinel, Joined, Abandon, Drain, Drained, GiveUp,
      CloserStays, vars
<1> QED
  BY <1>3, <1>4, <1>5, <1>6, <1>7, <1>8, <1>9, <1>12, <1>13, <1>14 DEF Next, Writer, Closing, Threads

-----------------------------------------------------------------------------
(* What a step does to a run's count and to its entry. *)

\* What a store, its runs and its counts are made of.
LEMMA TypeFacts ==
    ASSUME StoreInv
    PROVE  /\ disk \in [Ids -> [made : BOOLEAN, ended : BOOLEAN, drops : Nat]]
           /\ mem \in [Ids -> [made : BOOLEAN, ended : BOOLEAN, before : Nat, shown : Nat]]
           /\ runDrops \in [Keys -> Nat] /\ lifeDrops \in [Keys -> Nat]
           /\ counts \in [Threads -> [todo : SUBSET Ids, rec : Writes]]
           /\ rec \in Writes /\ openRuns \subseteq Ids
           /\ TypeOK /\ HandInv /\ MemInv /\ FlightInv
<1> QED BY DEF StoreInv, TypeOK

\* A count that is written is that of a run, and a writer's count that of an open run.
LEMMA CountFacts ==
    ASSUME StoreInv, NEW t \in Threads, counts[t].rec # NoWrite
    PROVE  /\ counts[t].rec.id \in Ids /\ counts[t].rec.drops \in Nat
           /\ counts[t].rec.ended \in BOOLEAN
           /\ counts[t].rec.drops <= Entry(counts[t].rec.id).before + runDrops[counts[t].rec.id]
           /\ t = "writer" => counts[t].rec.id \in openRuns /\ wpc = "counts"
           /\ t = "closer" => cpc = "counts" /\ abandoned
<1>1. Bounded(counts[t].rec) /\ counts[t].rec \in Writes /\ counts[t] # NoCount
  BY TypeFacts DEF FlightInv, NoCount
<1>2. Counting(t) /\ (t = "writer" => counts[t].rec.id \in openRuns)
  BY <1>1, TypeFacts DEF FlightInv
<1> QED BY <1>1, <1>2 DEF Bounded, Writes, Counting, StoreInv, ClosingInv, Threads

\* Forgetting a run moves what its run.json shows out of memory, and no more.
LEMMA ForgetKeeps ==
    ASSUME StoreInv, NEW x \in Ids, NEW id \in Ids,
           openRuns' = openRuns \ {x}, mem' = [mem EXCEPT ![x] = NoEntry], disk' = disk,
           runDrops'[id] = IF id = x THEN runDrops[x] - (Entry(x).shown - Entry(x).before)
                           ELSE runDrops[id]
    PROVE  Entry(id)'.before + runDrops'[id] = Entry(id).before + runDrops[id]
<1>1. /\ Entry(x).shown \in Nat /\ Entry(x).before \in Nat /\ runDrops[x] \in Nat
      /\ Entry(x).shown = disk[x].drops
      /\ runDrops[id] \in Nat /\ Entry(id).before \in Nat
  BY TypeFacts, EntryFacts
<1>2. CASE id = x
  <2>1. Entry(id)'.before = disk[x].drops
    BY <1>2 DEF Entry
  <2> QED BY <1>1, <1>2, <2>1
<1>3. CASE id # x
  <2>1. Entry(id)' = Entry(id)
    BY <1>3, TypeFacts DEF Entry
  <2> QED BY <1>1, <1>3, <2>1
<1> QED BY <1>2, <1>3

\* Opening a run gives it the entry it has.
LEMMA OpenKeeps ==
    ASSUME StoreInv, NEW x \in Ids, NEW id \in Ids, Open(x), disk' = disk
    PROVE  Entry(id)' = Entry(id)
<1>1. openRuns' = openRuns \cup {x} /\ mem' = [mem EXCEPT ![x] = Entry(x)]
  BY DEF Open
<1>2. mem \in [Ids -> [made : BOOLEAN, ended : BOOLEAN, before : Nat, shown : Nat]]
  BY TypeFacts
<1>3. CASE id = x
  <2>1. mem'[id] = Entry(x) /\ id \in openRuns'
    BY <1>1, <1>2, <1>3
  <2>2. Entry(id)' = mem'[id]
    BY <2>1 DEF Entry
  <2> QED BY <1>3, <2>1, <2>2
<1>4. CASE id # x
  <2>1. mem'[id] = mem[id] /\ (id \in openRuns' <=> id \in openRuns)
    BY <1>1, <1>2, <1>4
  <2> QED BY <2>1 DEF Entry
<1> QED BY <1>3, <1>4

\* Writing an open run's run.json leaves the drops it was resumed with.
LEMMA RunJsonKeeps ==
    ASSUME StoreInv, NEW r \in Writes, NEW id \in Ids, RunJson(r), openRuns' = openRuns,
           id # r.id \/ id \in openRuns
    PROVE  Entry(id)'.before = Entry(id).before
<1>1. /\ mem'[id] = IF id = r.id
                    THEN [mem[id] EXCEPT !.made = TRUE, !.ended = r.ended, !.shown = r.drops]
                    ELSE mem[id]
      /\ id # r.id => disk'[id] = disk[id]
  BY TypeFacts DEF RunJson
<1>2. mem'[id].before = mem[id].before
  BY <1>1, TypeFacts
<1> QED BY <1>1, <1>2 DEF Entry

\* No step of a process loses a drop or counts one twice, but for the count of a
\* run that close() writes after the writer forgot it.
LEMMA CountsKept ==
    ASSUME StoreInv, [Next]_vars, lives' = lives, NEW id \in Ids,
           ~(WriteCount("closer") /\ id = counts["closer"].rec.id /\ id \notin openRuns)
    PROVE  /\ Entry(id)'.before + runDrops'[id] + lifeDrops[id]
                  = Entry(id).before + runDrops[id] + lifeDrops'[id]
           /\ lifeDrops[id] <= lifeDrops'[id]
<1> USE DEF lockVars, countVars, writerVars, runVars, closeVars, histVars, endVars
<1>0. /\ runDrops \in [Keys -> Nat] /\ lifeDrops \in [Keys -> Nat] /\ lives \in Nat
      /\ Entry(id).before \in Nat /\ id \in Keys /\ id # Unattributed
  BY TypeFacts, EntryFacts, HandFacts DEF TypeOK
<1>1. runDrops[id] \in Nat /\ lifeDrops[id] \in Nat
  BY <1>0
<1>2. ASSUME Entry(id)'.before = Entry(id).before, UNCHANGED countVars
      PROVE  /\ Entry(id)'.before + runDrops'[id] + lifeDrops[id]
                    = Entry(id).before + runDrops[id] + lifeDrops'[id]
             /\ lifeDrops[id] <= lifeDrops'[id]
  BY <1>0, <1>1, <1>2
<1>3. ASSUME NEW k \in Keys, CountDrop(k), UNCHANGED <<openRuns, mem, disk>>
      PROVE  /\ Entry(id)'.before + runDrops'[id] + lifeDrops[id]
                    = Entry(id).before + runDrops[id] + lifeDrops'[id]
             /\ lifeDrops[id] <= lifeDrops'[id]
  <2>1. Entry(id)' = Entry(id)
    BY <1>3 DEF Entry
  <2>2. /\ runDrops'[id] = IF k = id THEN runDrops[id] + 1 ELSE runDrops[id]
        /\ lifeDrops'[id] = IF k = id THEN lifeDrops[id] + 1 ELSE lifeDrops[id]
    BY <1>0, <1>3 DEF CountDrop
  <2> QED BY <1>0, <1>1, <2>1, <2>2
<1>4. ASSUME UNCHANGED <<openRuns, mem, disk>> PROVE Entry(id)'.before = Entry(id).before
  BY <1>4 DEF Entry
<1>5. CASE HandleStart \/ HandleEnd
  <2>1. hand.id \in Ids /\ Open(hand.id) /\ disk' = disk /\ UNCHANGED countVars
    BY <1>5, HandFacts DEF HandleStart, HandleEnd, Handling
  <2> QED BY <1>2, <2>1, OpenKeeps
<1>6. CASE HandleEvent
  <2>1. hand.id \in Ids /\ disk' = disk /\ UNCHANGED countVars
        /\ (Open(hand.id) \/ UNCHANGED <<openRuns, mem>>)
    BY <1>6, HandFacts DEF HandleEvent, Handling
  <2> QED BY <1>2, <1>4, <2>1, OpenKeeps
<1>7. CASE DropLateStart
  <2>1. hand.id \in Ids
    BY <1>7, HandFacts DEF DropLateStart, Handling
  <2>2. /\ openRuns' = openRuns \ {hand.id} /\ mem' = [mem EXCEPT ![hand.id] = NoEntry]
        /\ disk' = disk /\ lifeDrops'[id] = lifeDrops[id]
        /\ runDrops'[id] = IF id = hand.id
                           THEN runDrops[hand.id] - (Entry(hand.id).shown - Entry(hand.id).before)
                           ELSE runDrops[id]
    BY <1>0, <1>7 DEF DropLateStart
  <2>3. Entry(id)'.before + runDrops'[id] = Entry(id).before + runDrops[id]
    BY <2>1, <2>2, ForgetKeeps
  <2> QED BY <1>0, <1>1, <2>2, <2>3
<1>8. CASE ForgetEnded
  <2>1. hand.id \in Ids /\ Entry(hand.id) = mem[hand.id]
    BY <1>8, HandFacts, TypeFacts DEF ForgetEnded, Handling, HandInv, Entry
  <2>2. /\ openRuns' = openRuns \ {hand.id} /\ mem' = [mem EXCEPT ![hand.id] = NoEntry]
        /\ disk' = disk /\ lifeDrops'[id] = lifeDrops[id]
        /\ runDrops'[id] = IF id = hand.id
                           THEN runDrops[hand.id] - (Entry(hand.id).shown - Entry(hand.id).before)
                           ELSE runDrops[id]
    BY <1>0, <1>8, <2>1 DEF ForgetEnded, Forget
  <2>3. Entry(id)'.before + runDrops'[id] = Entry(id).before + runDrops[id]
    BY <2>1, <2>2, ForgetKeeps
  <2> QED BY <1>0, <1>1, <2>2, <2>3
<1>9. CASE WriteRecord
  <2>1. rec \in Writes /\ rec.id \in openRuns
    BY <1>9, TypeFacts DEF WriteRecord, HandInv
  <2>2. RunJson(rec) /\ openRuns' = openRuns /\ UNCHANGED countVars
    BY <1>9 DEF WriteRecord
  <2> QED BY <1>2, <2>1, <2>2, RunJsonKeeps
<1>10. ASSUME NEW t \in Threads, NEW x \in Ids, CountRun(t, x)
       PROVE  Entry(id)'.before = Entry(id).before /\ UNCHANGED countVars
  <2>1. disk' = disk /\ UNCHANGED countVars /\ (Open(x) \/ UNCHANGED <<openRuns, mem>>)
    BY <1>10 DEF CountRun, CountStays
  <2> QED BY <1>4, <2>1, OpenKeeps
<1>11. ASSUME NEW t \in Threads, WriteCount(t)
       PROVE  Entry(id)'.before = Entry(id).before /\ UNCHANGED countVars
  <2>1. counts[t].rec \in Writes /\ (id # counts[t].rec.id \/ id \in openRuns)
    BY <1>11, CountFacts, TypeFacts DEF WriteCount, Threads
  <2>2. (RunJson(counts[t].rec) \/ UNCHANGED <<disk, mem>>) /\ openRuns' = openRuns
        /\ UNCHANGED countVars
    BY <1>11 DEF WriteCount, CountStays
  <2> QED BY <1>4, <2>1, <2>2, RunJsonKeeps
<1>12. CASE DropAlienStart \/ DropHand \/ Drain
  <2>1. UNCHANGED <<openRuns, mem, disk>>
    BY <1>12 DEF DropAlienStart, DropHand, Drain, WriterStays, CloserStays
  <2>2. queue # <<>> => Head(queue).id \in Ids
    BY HeadTailProperties, ItemFacts, TypeFacts DEF TypeOK
  <2>3. \E k \in Keys : CountDrop(k)
    BY <1>12, <2>2, HandFacts DEF DropAlienStart, DropHand, Drain, Handling
  <2> QED BY <1>3, <2>1, <2>3
<1>13. ASSUME NEW i \in Items, Put(i)
       PROVE  /\ Entry(id)'.before + runDrops'[id] + lifeDrops[id]
                     = Entry(id).before + runDrops[id] + lifeDrops'[id]
              /\ lifeDrops[id] <= lifeDrops'[id]
  <2>1. KeyOf(i.id) \in Keys /\ UNCHANGED <<openRuns, mem, disk>>
    BY <1>13, ItemFacts, HandFacts DEF Put
  <2>2. UNCHANGED countVars \/ CountDrop(KeyOf(i.id))
    BY <1>13 DEF Put
  <2> QED BY <1>2, <1>3, <1>4, <2>1, <2>2
<1>14. CASE Take \/ Release \/ HandleRaises \/ WriteRecordFails \/ AppendLine \/ AppendFails
           \/ Report \/ Sync \/ TakeSentinel \/ Finish \/ StopAbandoned
  <2>1. UNCHANGED <<openRuns, mem, disk, dropped, runDrops, lifeDrops>>
    BY <1>14
    DEF Take, Release, HandleRaises, WriteRecordFails, AppendLine, AppendFails, Report, Sync,
        TakeSentinel, Finish, StopAbandoned, WriterStays, WriterStops
  <2> QED BY <1>2, <1>4, <2>1
<1>15. CASE Close \/ PutSentinel \/ Joined \/ Abandon \/ Drained \/ GiveUp \/ UNCHANGED vars
  <2>1. UNCHANGED <<openRuns, mem, disk, dropped, runDrops, lifeDrops>>
    BY <1>15 DEF Close, PutSentinel, Joined, Abandon, Drained, GiveUp, CloserStays, vars
  <2> QED BY <1>2, <1>4, <2>1
<1>16. ~Restart
  BY <1>0 DEF Restart
<1>17. ASSUME NEW t \in Threads, WriteCount(t) \/ (\E x \in Ids : CountRun(t, x))
       PROVE  /\ Entry(id)'.before + runDrops'[id] + lifeDrops[id]
                     = Entry(id).before + runDrops[id] + lifeDrops'[id]
              /\ lifeDrops[id] <= lifeDrops'[id]
  BY <1>2, <1>10, <1>11, <1>17
<1> QED
  BY <1>5, <1>6, <1>7, <1>8, <1>9, <1>12, <1>13, <1>14, <1>15, <1>16, <1>17
  DEF Next, Writer, Closing, Threads

-----------------------------------------------------------------------------
(* Every step keeps the types, the entries and what is on its way to disk. *)

\* The queue, its counters and the flags.
LEMMA PlainTypesStep ==
    ASSUME StoreInv, [Next]_vars
    PROVE  /\ class' = class /\ queue' \in Seq(Items)
           /\ sentinel' \in BOOLEAN /\ closed' \in BOOLEAN /\ abandoned' \in BOOLEAN
           /\ dropped' \in Nat /\ puts' \in Nat /\ handled' \in Nat /\ lives' \in Nat
           /\ wpc' \in Places /\ hand' \in Items \cup {NoItem}
           /\ cpc' \in {"open", "closing", "joining", "closed", "draining", "counts", "gave_up"}
           /\ unsynced' \subseteq Keys /\ reported' \subseteq Ids /\ unshown' \subseteq Ids
<1> USE DEF lockVars, countVars, writerVars, runVars, closeVars, histVars, endVars
<1>0. /\ queue \in Seq(Items) /\ sentinel \in BOOLEAN /\ closed \in BOOLEAN
      /\ abandoned \in BOOLEAN /\ dropped \in Nat /\ puts \in Nat /\ handled \in Nat
      /\ lives \in Nat /\ wpc \in Places /\ hand \in Items \cup {NoItem}
      /\ cpc \in {"open", "closing", "joining", "closed", "draining", "counts", "gave_up"}
      /\ unsynced \subseteq Keys /\ reported \subseteq Ids /\ unshown \subseteq Ids
      /\ queue # <<>> => Head(queue) \in Items /\ Tail(queue) \in Seq(Items)
  BY HeadTailProperties DEF StoreInv, TypeOK
<1>1. HandInv'
  BY HandStep
<1>2. class' = class
  BY DEF Next, Writer, Closing, vars, WriterStays, WriterStops, CountStays, CloserStays, Put, Take,
      Release, HandleStart, DropLateStart, DropAlienStart, HandleEnd, HandleEvent, HandleRaises,
      WriteRecord, WriteRecordFails, AppendLine, AppendFails, ForgetEnded, Report, DropHand, Sync,
      TakeSentinel, CountRun, WriteCount, Finish, StopAbandoned, Close, PutSentinel, Joined,
      Abandon, Drain, Drained, GiveUp, Restart
<1>3. queue' \in Seq(Items)
  <2>1. ASSUME NEW i \in Items, Put(i) PROVE queue' \in Seq(Items)
    BY <1>0, <2>1, AppendProperties DEF Put
  <2>2. CASE Take \/ Drain \/ Restart
    <3>1. (queue # <<>> /\ queue' = Tail(queue)) \/ queue' = <<>>
      BY <2>2 DEF Take, Drain, Restart
    <3>2. <<>> \in Seq(Items)
      OBVIOUS
    <3> QED BY <1>0, <3>1, <3>2
  <2>3. CASE Writer /\ ~Take
    <3>1. queue' = queue
      BY <2>3
      DEF Writer, WriterStays, WriterStops, CountStays, Release, HandleStart, DropLateStart,
          DropAlienStart, HandleEnd, HandleEvent, HandleRaises, WriteRecord, WriteRecordFails,
          AppendLine, AppendFails, ForgetEnded, Report, DropHand, Sync, TakeSentinel, CountRun,
          WriteCount, Finish, StopAbandoned
    <3> QED BY <1>0, <3>1
  <2>4. CASE Close \/ (Closing /\ ~Drain) \/ UNCHANGED vars
    <3>1. queue' = queue
      BY <2>4
      DEF Closing, CloserStays, CountStays, Close, PutSentinel, Joined, Abandon, Drained, CountRun,
          WriteCount, GiveUp, vars
    <3> QED BY <1>0, <3>1
  <2> QED BY <2>1, <2>2, <2>3, <2>4 DEF Next, Closing
<1>4. /\ sentinel' \in BOOLEAN /\ closed' \in BOOLEAN /\ abandoned' \in BOOLEAN
      /\ cpc' \in {"open", "closing", "joining", "closed", "draining", "counts", "gave_up"}
  <2>1. CASE (\E i \in Items : Put(i)) \/ Writer \/ UNCHANGED vars
    <3>1. UNCHANGED <<closed, abandoned, cpc>> /\ sentinel' \in {sentinel, FALSE}
      BY <2>1
      DEF Put, Writer, WriterStays, WriterStops, CountStays, Take, Release, HandleStart,
          DropLateStart, DropAlienStart, HandleEnd, HandleEvent, HandleRaises, WriteRecord,
          WriteRecordFails, AppendLine, AppendFails, ForgetEnded, Report, DropHand, Sync,
          TakeSentinel, CountRun, WriteCount, Finish, StopAbandoned, vars
    <3> QED BY <1>0, <3>1
  <2>2. CASE PutSentinel
    BY <1>0, <2>2 DEF PutSentinel
  <2>3. CASE Close \/ (Closing /\ ~PutSentinel) \/ Restart
    BY <1>0, <2>3
    DEF Closing, CloserStays, CountStays, Close, Joined, Abandon, Drain, Drained, CountRun,
        WriteCount, GiveUp, Restart
  <2> QED BY <2>1, <2>2, <2>3 DEF Next, Closing
<1>5. dropped' \in Nat /\ puts' \in Nat /\ handled' \in Nat /\ lives' \in Nat
  <2>1. puts' \in {puts, puts + 1, 0} /\ lives' \in {lives, lives + 1}
    BY DEF Next, Writer, Closing, vars, WriterStays, WriterStops, CountStays, CloserStays, Put,
        Take, Release, HandleStart, DropLateStart, DropAlienStart, HandleEnd, HandleEvent,
        HandleRaises, WriteRecord, WriteRecordFails, AppendLine, AppendFails, ForgetEnded, Report,
        DropHand, Sync, TakeSentinel, CountRun, WriteCount, Finish, StopAbandoned, Close,
        PutSentinel, Joined, Abandon, Drain, Drained, GiveUp, Restart
  <2>2. dropped' \in {dropped, dropped + 1, 0} /\ handled' \in {handled, handled + 1, 0}
    <3>1. CASE Writer
      BY <3>1
      DEF Writer, WriterStays, WriterStops, CountStays, Take, Release, HandleStart, DropLateStart,
          DropAlienStart, HandleEnd, HandleEvent, HandleRaises, WriteRecord, WriteRecordFails,
          AppendLine, AppendFails, ForgetEnded, Report, DropHand, Sync, TakeSentinel, CountRun,
          WriteCount, Finish, StopAbandoned, CountDrop
    <3>2. CASE (\E i \in Items : Put(i)) \/ Close \/ Closing \/ Restart \/ UNCHANGED vars
      BY <3>2
      DEF Put, Closing, CloserStays, CountStays, Close, PutSentinel, Joined, Abandon, Drain,
          Drained, CountRun, WriteCount, GiveUp, Restart, vars, CountDrop
    <3> QED BY <3>1, <3>2 DEF Next
  <2> QED BY <1>0, <2>1, <2>2
<1>6. wpc' \in Places
  BY <1>0
  DEF Next, Writer, Closing, vars, WriterStays, WriterStops, CountStays, CloserStays, Put, Take,
      Release, HandleStart, DropLateStart, DropAlienStart, HandleEnd, HandleEvent, HandleRaises,
      WriteRecord, WriteRecordFails, AppendLine, AppendFails, ForgetEnded, Report, DropHand, Sync,
      TakeSentinel, CountRun, WriteCount, Finish, StopAbandoned, Close, PutSentinel, Joined,
      Abandon, Drain, Drained, GiveUp, Restart, Places
<1>7. hand' \in Items \cup {NoItem}
  BY <1>1 DEF HandInv
<1>8. unsynced' \subseteq Keys
  <2>1. CASE AppendLine
    <3>1. Where(hand.id) \in Keys
      BY <2>1, HandFacts DEF AppendLine, Handling
    <3> QED BY <1>0, <2>1, <3>1 DEF AppendLine
  <2>2. CASE unsynced' \subseteq unsynced
    BY <1>0, <2>2
  <2> QED
    BY <2>1, <2>2
    DEF Next, Writer, Closing, vars, WriterStays, WriterStops, CountStays, CloserStays, Put, Take,
        Release, HandleStart, DropLateStart, DropAlienStart, HandleEnd, HandleEvent, HandleRaises,
        WriteRecord, WriteRecordFails, AppendFails, ForgetEnded, Forget, Report, DropHand, Sync,
        TakeSentinel, CountRun, WriteCount, Finish, StopAbandoned, Close, PutSentinel, Joined,
        Abandon, Drain, Drained, GiveUp, Restart
<1>9. reported' \subseteq Ids
  <2>1. CASE Report
    <3>1. hand.id \in Ids
      BY <2>1, HandFacts DEF Report, Handling
    <3> QED BY <1>0, <2>1, <3>1 DEF Report
  <2>2. CASE reported' \in {reported, {}}
    BY <1>0, <2>2
  <2> QED
    BY <2>1, <2>2
    DEF Next, Writer, Closing, vars, WriterStays, WriterStops, CountStays, CloserStays, Put, Take,
        Release, HandleStart, DropLateStart, DropAlienStart, HandleEnd, HandleEvent, HandleRaises,
        WriteRecord, WriteRecordFails, AppendLine, AppendFails, ForgetEnded, DropHand, Sync,
        TakeSentinel, CountRun, WriteCount, Finish, StopAbandoned, Close, PutSentinel, Joined,
        Abandon, Drain, Drained, GiveUp, Restart
<1>10. unshown' \subseteq Ids
  <2>1. ASSUME NEW t \in Threads, WriteCount(t) PROVE unshown' \subseteq Ids
    <3>1. counts[t].rec.id \in Ids
      BY <2>1, CountFacts DEF WriteCount
    <3> QED BY <1>0, <2>1, <3>1 DEF WriteCount
  <2>2. ASSUME NEW t \in Threads, NEW id \in Ids, CountRun(t, id) PROVE unshown' \subseteq Ids
    BY <1>0, <2>2 DEF CountRun
  <2>3. CASE unshown' \in {unshown, {}}
    BY <1>0, <2>3
  <2> QED
    BY <2>1, <2>2, <2>3
    DEF Next, Writer, Closing, vars, WriterStays, WriterStops, CloserStays, Put, Take,
        Release, HandleStart, DropLateStart, DropAlienStart, HandleEnd, HandleEvent, HandleRaises,
        WriteRecord, WriteRecordFails, AppendLine, AppendFails, ForgetEnded, Report, DropHand,
        Sync, TakeSentinel, Finish, StopAbandoned, Close, PutSentinel, Joined, Abandon, Drain,
        Drained, GiveUp, Restart, Threads
<1> QED BY <1>2, <1>3, <1>4, <1>5, <1>6, <1>7, <1>8, <1>9, <1>10

\* The records on disk, in memory and on their way between them.
LEMMA RecordTypesStep ==
    ASSUME StoreInv, [Next]_vars
    PROVE  /\ openRuns' \subseteq Ids
           /\ mem' \in [Ids -> [made : BOOLEAN, ended : BOOLEAN, before : Nat, shown : Nat]]
           /\ disk' \in [Ids -> [made : BOOLEAN, ended : BOOLEAN, drops : Nat]]
           /\ rec' \in Writes
           /\ counts' \in [Threads -> [todo : SUBSET Ids, rec : Writes]]
<1> USE DEF lockVars, countVars, writerVars, runVars, closeVars, histVars, endVars
<1> DEFINE MemOf   == [Ids -> [made : BOOLEAN, ended : BOOLEAN, before : Nat, shown : Nat]]
           DiskOf  == [Ids -> [made : BOOLEAN, ended : BOOLEAN, drops : Nat]]
           CountOf == [Threads -> [todo : SUBSET Ids, rec : Writes]]
           Kept    == /\ openRuns' \subseteq Ids /\ mem' \in MemOf /\ disk' \in DiskOf
                      /\ rec' \in Writes /\ counts' \in CountOf
<1> SUFFICES Kept
  OBVIOUS
<1>0. /\ openRuns \subseteq Ids /\ mem \in MemOf /\ disk \in DiskOf /\ rec \in Writes
      /\ counts \in CountOf
  BY TypeFacts
<1>1. NoWrite \in Writes /\ NoEntry \in [made : BOOLEAN, ended : BOOLEAN, before : Nat, shown : Nat]
  BY NoWriteFacts DEF NoEntry
<1>2. \A id \in Ids, e \in BOOLEAN : RecordOf(id, e) \in Writes
  <2> SUFFICES ASSUME NEW id \in Ids, NEW e \in BOOLEAN PROVE RecordOf(id, e) \in Writes
    OBVIOUS
  <2>1. Entry(id).before \in Nat /\ runDrops[id] \in Nat /\ id \in Keys
    BY TypeFacts, EntryFacts, HandFacts
  <2> QED BY <2>1 DEF RecordOf, Writes
<1>3. ASSUME NEW id \in Ids, Open(id) PROVE openRuns' \subseteq Ids /\ mem' \in MemOf
  <2>1. Entry(id) \in [made : BOOLEAN, ended : BOOLEAN, before : Nat, shown : Nat]
    BY TypeFacts, EntryFacts
  <2> QED BY <1>0, <1>3, <2>1 DEF Open
<1>4. ASSUME NEW r \in Writes, RunJson(r) PROVE mem' \in MemOf /\ disk' \in DiskOf
  <2>1. r.ended \in BOOLEAN /\ r.drops \in Nat
    BY DEF Writes
  <2>2. disk' \in DiskOf
    BY <1>0, <1>4, <2>1 DEF RunJson
  <2>3. mem' = [mem EXCEPT ![r.id] =
                  [mem[r.id] EXCEPT !.made = TRUE, !.ended = r.ended, !.shown = r.drops]]
    BY <1>4 DEF RunJson
  <2>4. r.id \in Ids => [mem[r.id] EXCEPT !.made = TRUE, !.ended = r.ended, !.shown = r.drops]
                          \in [made : BOOLEAN, ended : BOOLEAN, before : Nat, shown : Nat]
    BY <1>0, <2>1
  <2>5. mem' \in MemOf
    BY <1>0, <2>3, <2>4
  <2> QED BY <2>2, <2>5
<1> HIDE DEF MemOf, DiskOf, CountOf
<1>5. CASE HandleStart \/ HandleEnd
  <2>1. hand.id \in Ids
    BY <1>5, HandFacts DEF HandleStart, HandleEnd, Handling
  <2>2. /\ Open(hand.id) /\ rec' \in {RecordOf(hand.id, TRUE), RecordOf(hand.id, FALSE)}
        /\ UNCHANGED <<disk, counts>>
    BY <1>5 DEF HandleStart, HandleEnd, WriterStays
  <2> QED BY <1>0, <1>2, <1>3, <2>1, <2>2
<1>6. CASE HandleEvent
  <2>1. hand.id \in Ids
    BY <1>6, HandFacts DEF HandleEvent, Handling
  <2>2. /\ Open(hand.id) \/ UNCHANGED <<openRuns, mem>>
        /\ rec' \in {rec, RecordOf(hand.id, FALSE)}
        /\ UNCHANGED <<disk, counts>>
    BY <1>6 DEF HandleEvent, WriterStays
  <2> QED BY <1>0, <1>2, <1>3, <2>1, <2>2
<1>7. CASE DropLateStart \/ ForgetEnded
  <2>1. hand.id \in Ids
    BY <1>7, HandFacts DEF DropLateStart, ForgetEnded, Handling
  <2>2. /\ openRuns' = openRuns \ {hand.id} /\ mem' = [mem EXCEPT ![hand.id] = NoEntry]
        /\ UNCHANGED <<disk, counts, rec>>
    BY <1>7 DEF DropLateStart, ForgetEnded, Forget, WriterStays
  <2>3. mem' \in MemOf
    BY <1>0, <1>1, <2>2 DEF MemOf
  <2> QED BY <1>0, <2>2, <2>3
<1>8. CASE WriteRecord
  BY <1>0, <1>1, <1>4, <1>8 DEF WriteRecord, WriterStays
<1>9. ASSUME NEW t \in Threads, NEW id \in Ids, CountRun(t, id) PROVE Kept
  <2>1. Entry(id).ended \in BOOLEAN
    BY TypeFacts, EntryFacts
  <2>2. counts' \in CountOf
    <3>1. PICK w \in Writes : counts' = [counts EXCEPT ![t] = [todo |-> counts[t].todo \ {id}, rec |-> w]]
      <4>1. CASE Open(id) /\ counts' = [counts EXCEPT ![t] =
                     [todo |-> @.todo \ {id},
                      rec  |-> IF Entry(id).before + runDrops[id] # Entry(id).shown
                               THEN RecordOf(id, Entry(id).ended) ELSE NoWrite]]
        BY <1>1, <1>2, <2>1, <4>1
      <4>2. CASE counts' = [counts EXCEPT ![t].todo = @ \ {id}]
        <5>1. counts[t] = [todo |-> counts[t].todo, rec |-> counts[t].rec] /\ counts[t].rec \in Writes
          BY <1>0 DEF CountOf
        <5>2. [counts[t] EXCEPT !.todo = counts[t].todo \ {id}]
                 = [todo |-> counts[t].todo \ {id}, rec |-> counts[t].rec]
          BY <5>1
        <5>3. counts' = [counts EXCEPT ![t] = [counts[t] EXCEPT !.todo = counts[t].todo \ {id}]]
          BY <4>2
        <5> QED BY <5>1, <5>2, <5>3
      <4> QED BY <1>9, <4>1, <4>2 DEF CountRun
    <3>2. counts[t].todo \in SUBSET Ids
      BY <1>0 DEF CountOf
    <3> QED BY <1>0, <3>1, <3>2 DEF CountOf
  <2>3. (Open(id) \/ UNCHANGED <<openRuns, mem>>) /\ UNCHANGED <<disk, rec>>
    BY <1>9 DEF CountRun, CountStays
  <2> QED BY <1>0, <1>3, <2>2, <2>3
<1>10. ASSUME NEW t \in Threads, WriteCount(t) PROVE Kept
  <2>1. counts[t].rec \in Writes
    BY <1>0 DEF CountOf
  <2>2. counts' \in CountOf
    BY <1>0, <1>1, <1>10 DEF WriteCount, CountOf
  <2>3. (RunJson(counts[t].rec) \/ UNCHANGED <<disk, mem>>) /\ UNCHANGED <<openRuns, rec>>
    BY <1>10 DEF WriteCount, CountStays
  <2> QED BY <1>0, <1>4, <2>1, <2>2, <2>3
<1>11. CASE TakeSentinel \/ Drained
  <2>1. Dropped \in SUBSET Ids
    BY DEF Dropped
  <2>2. /\ counts' \in {[counts EXCEPT !["writer"].todo = Dropped], [counts EXCEPT !["closer"].todo = Dropped]}
        /\ UNCHANGED <<openRuns, mem, disk, rec>>
    BY <1>11 DEF TakeSentinel, Drained, CloserStays
  <2>3. counts' \in CountOf
    <3>1. ASSUME NEW t \in Threads, counts' = [counts EXCEPT ![t].todo = Dropped]
          PROVE  counts' \in CountOf
      BY <1>0, <2>1, <3>1 DEF CountOf
    <3> QED BY <2>2, <3>1 DEF Threads
  <2> QED BY <1>0, <2>2, <2>3
<1>12. CASE WriteRecordFails
  BY <1>0, <1>1, <1>12 DEF WriteRecordFails, WriterStays
<1>13. CASE Restart
  <2>1. counts' = [t \in Threads |-> [todo |-> {}, rec |-> NoWrite]]
    BY <1>13 DEF Restart, NoCount
  <2>2. counts' \in CountOf
    BY <1>1, <2>1 DEF CountOf
  <2>3. mem' \in MemOf
    BY <1>1, <1>13 DEF Restart, MemOf
  <2> QED BY <1>0, <1>1, <1>13, <2>2, <2>3 DEF Restart
<1>14. CASE UNCHANGED <<openRuns, mem, disk, rec, counts>>
  BY <1>0, <1>14
<1> HIDE DEF Kept
<1>15. CASE \/ \E i \in Items : Put(i)
            \/ Take \/ Release \/ DropAlienStart \/ HandleRaises \/ AppendLine
            \/ AppendFails \/ Report \/ DropHand \/ Sync \/ Finish \/ StopAbandoned
            \/ Close \/ PutSentinel \/ Joined \/ Abandon \/ Drain \/ GiveUp \/ UNCHANGED vars
  BY <1>14, <1>15
  DEF Put, Take, Release, DropAlienStart, HandleRaises, AppendLine, AppendFails, Report, DropHand,
      Sync, Finish, StopAbandoned, Close, PutSentinel, Joined, Abandon, Drain, GiveUp, WriterStays,
      WriterStops, CloserStays, vars
<1> QED
  BY <1>5, <1>6, <1>7, <1>8, <1>9, <1>10, <1>11, <1>12, <1>13, <1>15
  DEF Next, Writer, Closing, Threads

\* The counters by key; what is forgotten was counted.
LEMMA DropTypesStep ==
    ASSUME StoreInv, [Next]_vars
    PROVE  /\ runDrops' \in [Keys -> Nat] /\ lifeDrops' \in [Keys -> Nat]
           /\ lines' \in [Keys -> Nat]
           /\ base' \in [Ids -> Nat] /\ dropsAtClose' \in [Ids -> Nat]
<1> USE DEF lockVars, countVars, writerVars, runVars, closeVars, histVars, endVars
<1>0. /\ runDrops \in [Keys -> Nat] /\ lifeDrops \in [Keys -> Nat] /\ lines \in [Keys -> Nat]
      /\ base \in [Ids -> Nat] /\ dropsAtClose \in [Ids -> Nat] /\ Ids \subseteq Keys
      /\ disk \in [Ids -> [made : BOOLEAN, ended : BOOLEAN, drops : Nat]]
  BY HandFacts DEF StoreInv, TypeOK
<1>1. base' \in [Ids -> Nat]
  <2>1. CASE Restart
    BY <1>0, <2>1 DEF Restart
  <2>2. CASE UNCHANGED base
    BY <1>0, <2>2
  <2> QED
    BY <2>1, <2>2
    DEF Next, Writer, Closing, vars, WriterStays, WriterStops, CountStays, CloserStays, Put, Take,
        Release, HandleStart, DropLateStart, DropAlienStart, HandleEnd, HandleEvent, HandleRaises,
        WriteRecord, WriteRecordFails, AppendLine, AppendFails, ForgetEnded, Report, DropHand,
        Sync, TakeSentinel, CountRun, WriteCount, Finish, StopAbandoned, Close, PutSentinel,
        Joined, Abandon, Drain, Drained, GiveUp
<1>2. dropsAtClose' \in [Ids -> Nat]
  <2>1. CASE Restart \/ TakeSentinel
    BY <1>0, <2>1 DEF Restart, TakeSentinel
  <2>2. CASE UNCHANGED dropsAtClose
    BY <1>0, <2>2
  <2> QED
    BY <2>1, <2>2
    DEF Next, Writer, Closing, vars, WriterStays, WriterStops, CountStays, CloserStays, Put, Take,
        Release, HandleStart, DropLateStart, DropAlienStart, HandleEnd, HandleEvent, HandleRaises,
        WriteRecord, WriteRecordFails, AppendLine, AppendFails, ForgetEnded, Report, DropHand,
        Sync, CountRun, WriteCount, Finish, StopAbandoned, Close, PutSentinel, Joined, Abandon,
        Drain, Drained, GiveUp
<1>3. lines' \in [Keys -> Nat]
  <2>1. CASE AppendLine
    BY <1>0, <2>1, HandFacts DEF AppendLine, Handling
  <2>2. CASE UNCHANGED lines
    BY <1>0, <2>2
  <2> QED
    BY <2>1, <2>2
    DEF Next, Writer, Closing, vars, WriterStays, WriterStops, CountStays, CloserStays, Put, Take,
        Release, HandleStart, DropLateStart, DropAlienStart, HandleEnd, HandleEvent, HandleRaises,
        WriteRecord, WriteRecordFails, AppendFails, ForgetEnded, Report, DropHand, Sync,
        TakeSentinel, CountRun, WriteCount, Finish, StopAbandoned, Close, PutSentinel, Joined,
        Abandon, Drain, Drained, GiveUp, Restart
<1>4. runDrops' \in [Keys -> Nat] /\ lifeDrops' \in [Keys -> Nat]
  <2>1. ASSUME NEW k \in Keys, CountDrop(k)
        PROVE  runDrops' \in [Keys -> Nat] /\ lifeDrops' \in [Keys -> Nat]
    BY <1>0, <2>1 DEF CountDrop
  <2>2. \A id \in Ids : /\ runDrops[id] - (Entry(id).shown - Entry(id).before) \in Nat
                        /\ Entry(id).shown \in Nat /\ Entry(id).before \in Nat
    <3> SUFFICES ASSUME NEW id \in Ids
                 PROVE  /\ runDrops[id] - (Entry(id).shown - Entry(id).before) \in Nat
                        /\ Entry(id).shown \in Nat /\ Entry(id).before \in Nat
      OBVIOUS
    <3>1. /\ Entry(id).shown \in Nat /\ Entry(id).before \in Nat /\ runDrops[id] \in Nat
          /\ Entry(id).shown <= Entry(id).before + runDrops[id]
      BY TypeFacts, EntryFacts
    <3> QED BY <3>1
  <2>3. CASE ForgetEnded
    <3>1. hand.id \in Ids /\ Entry(hand.id) = mem[hand.id]
      BY <2>3, HandFacts, TypeFacts DEF ForgetEnded, Handling, HandInv, Entry
    <3>2. runDrops' = [runDrops EXCEPT ![hand.id] =
                          runDrops[hand.id] - (Entry(hand.id).shown - Entry(hand.id).before)]
          /\ lifeDrops' = lifeDrops
      BY <2>3, <3>1 DEF ForgetEnded, Forget
    <3> QED BY <1>0, <2>2, <3>1, <3>2
  <2>4. CASE DropLateStart
    <3>1. hand.id \in Ids /\ hand.id # Unattributed /\ Unattributed \in Keys
      BY <2>4, HandFacts DEF DropLateStart, Handling
    <3>2. runDrops' = [runDrops EXCEPT
                          ![hand.id] = @ - (Entry(hand.id).shown - Entry(hand.id).before),
                          ![Unattributed] = @ + 1]
      BY <2>4 DEF DropLateStart
    <3>3. /\ lifeDrops' = [lifeDrops EXCEPT ![Unattributed] = @ + 1]
          /\ \A k \in Keys : runDrops[k] \in Nat
      BY <1>0, <2>4 DEF DropLateStart
    <3>4. \A k \in Keys : runDrops'[k] =
              IF k = Unattributed THEN runDrops[k] + 1
              ELSE IF k = hand.id
              THEN runDrops[hand.id] - (Entry(hand.id).shown - Entry(hand.id).before)
              ELSE runDrops[k]
      BY <1>0, <3>1, <3>2
    <3>5. \A k \in Keys : runDrops'[k] \in Nat
      BY <2>2, <3>1, <3>3, <3>4
    <3>6. runDrops' = [k \in Keys |-> runDrops'[k]]
      BY <1>0, <3>2
    <3>7. runDrops' \in [Keys -> Nat]
      BY <3>5, <3>6
    <3>8. lifeDrops' \in [Keys -> Nat]
      BY <1>0, <3>1, <3>3
    <3> QED BY <3>7, <3>8
  <2>5. CASE DropAlienStart \/ DropHand \/ Drain
    <3>1. queue # <<>> => Head(queue).id \in Ids
      BY HeadTailProperties, ItemFacts, TypeFacts DEF TypeOK
    <3>2. \E k \in Keys : CountDrop(k)
      BY <2>5, <3>1, HandFacts DEF DropAlienStart, DropHand, Drain, Handling
    <3> QED BY <2>1, <3>2
  <2>6. ASSUME NEW i \in Items, Put(i)
        PROVE  runDrops' \in [Keys -> Nat] /\ lifeDrops' \in [Keys -> Nat]
    <3>1. KeyOf(i.id) \in Keys
      BY ItemFacts, HandFacts
    <3>2. UNCHANGED countVars \/ CountDrop(KeyOf(i.id))
      BY <2>6 DEF Put
    <3> QED BY <1>0, <2>1, <3>1, <3>2
  <2>7. CASE Restart
    BY <2>7 DEF Restart
  <2>8. CASE UNCHANGED <<runDrops, lifeDrops>>
    BY <1>0, <2>8
  <2>9. CASE \/ Writer /\ ~DropLateStart /\ ~ForgetEnded /\ ~DropAlienStart /\ ~DropHand
             \/ Close \/ (Closing /\ ~Drain) \/ UNCHANGED vars
    BY <2>8, <2>9
    DEF Writer, Closing, vars, WriterStays, WriterStops, CountStays, CloserStays, Take, Release,
        HandleStart, HandleEnd, HandleEvent, HandleRaises, WriteRecord, WriteRecordFails,
        AppendLine, AppendFails, Report, Sync, TakeSentinel, CountRun, WriteCount, Finish,
        StopAbandoned, Close, PutSentinel, Joined, Abandon, Drained, GiveUp
  <2> QED BY <2>3, <2>4, <2>5, <2>6, <2>7, <2>9 DEF Next, Closing
<1> QED BY <1>1, <1>2, <1>3, <1>4

\* TypeOK is inductive with the rest: no byte count and no drop count goes below zero.
LEMMA TypesStep ==
    ASSUME StoreInv, [Next]_vars
    PROVE  TypeOK'
<1>1. HandInv' /\ BytesInv'
  BY HandStep, BytesStep
<1>2. queuedBytes' \in Nat
  <2>1. PICK sums : Sums(sums, queue') /\ queuedBytes' = sums[1] + Taken'
    BY <1>1 DEF BytesInv
  <2>2. sums[1] \in Nat
    BY <2>1, PlainTypesStep, SumsNat
  <2>3. Taken' \in Nat
    BY <1>1, ItemFacts DEF Taken, HandInv, Handling
  <2> QED BY <2>1, <2>2, <2>3
<1>3. class' \in Classes
  BY PlainTypesStep DEF StoreInv, TypeOK
<1> QED BY <1>2, <1>3, PlainTypesStep, RecordTypesStep, DropTypesStep DEF TypeOK

\* A process's steps, by what they do to the runs: nothing, open one, forget one
\* or write the run.json of one.
LEMMA RunSteps ==
    ASSUME StoreInv, [Next]_vars, lives' = lives
    PROVE  \/ UNCHANGED <<openRuns, mem, disk>>
           \/ \E x \in Ids : class[x] = "own" /\ Open(x) /\ disk' = disk
           \/ \E x \in Ids : /\ openRuns' = openRuns \ {x}
                             /\ mem' = [mem EXCEPT ![x] = NoEntry] /\ disk' = disk
           \/ \E r \in Writes :
                 /\ RunJson(r) /\ openRuns' = openRuns
                 /\ r.id \in Ids /\ r.drops <= Entry(r.id).before + runDrops[r.id]
                 /\ \/ WriteRecord /\ r = rec
                    \/ WriteCount("writer") /\ r = counts["writer"].rec
                    \/ WriteCount("closer") /\ r = counts["closer"].rec
<1> USE DEF lockVars, countVars, writerVars, runVars, closeVars, histVars, endVars
<1>1. wpc \in Handling => hand.id \in Ids
  BY HandFacts
<1>2. CASE HandleStart \/ HandleEnd \/ HandleEvent
  BY <1>1, <1>2 DEF HandleStart, HandleEnd, HandleEvent, Handling
<1>3. CASE DropLateStart \/ ForgetEnded
  BY <1>1, <1>3 DEF DropLateStart, ForgetEnded, Forget, Handling
<1>4. ASSUME NEW t \in Threads, NEW x \in Ids, CountRun(t, x)
      PROVE  \/ UNCHANGED <<openRuns, mem, disk>>
             \/ class[x] = "own" /\ Open(x) /\ disk' = disk
  BY <1>4 DEF CountRun, CountStays
<1>5. CASE WriteRecord
  <2>1. rec # NoWrite /\ rec.id \in Ids
    BY <1>1, <1>5, TypeFacts, NoWriteFacts DEF WriteRecord, HandInv, Handling
  <2>2. rec \in Writes /\ rec.drops <= Entry(rec.id).before + runDrops[rec.id]
    BY <2>1, TypeFacts DEF FlightInv, Bounded
  <2>3. RunJson(rec) /\ openRuns' = openRuns
    BY <1>5 DEF WriteRecord
  <2> QED BY <1>5, <2>1, <2>2, <2>3
<1>6. ASSUME NEW t \in Threads, WriteCount(t), ~UNCHANGED <<openRuns, mem, disk>>
      PROVE  /\ RunJson(counts[t].rec) /\ openRuns' = openRuns
             /\ counts[t].rec \in Writes /\ counts[t].rec.id \in Ids
             /\ counts[t].rec.drops <= Entry(counts[t].rec.id).before + runDrops[counts[t].rec.id]
  <2>1. RunJson(counts[t].rec) /\ openRuns' = openRuns /\ counts[t].rec # NoWrite
    BY <1>6 DEF WriteCount, CountStays
  <2> QED BY <2>1, TypeFacts, CountFacts
<1>7. CASE \/ \E i \in Items : Put(i)
           \/ Take \/ Release \/ DropAlienStart \/ HandleRaises \/ WriteRecordFails \/ AppendLine
           \/ AppendFails \/ Report \/ DropHand \/ Sync \/ TakeSentinel \/ Finish \/ StopAbandoned
           \/ Close \/ PutSentinel \/ Joined \/ Abandon \/ Drain \/ Drained \/ GiveUp
           \/ UNCHANGED vars
  BY <1>7
  DEF Put, Take, Release, DropAlienStart, HandleRaises, WriteRecordFails, AppendLine, AppendFails,
      Report, DropHand, Sync, TakeSentinel, Finish, StopAbandoned, Close, PutSentinel, Joined,
      Abandon, Drain, Drained, GiveUp, WriterStays, WriterStops, CloserStays, vars
<1>8. ~Restart
  BY TypeFacts DEF Restart, TypeOK
<1> QED
  BY <1>2, <1>3, <1>4, <1>5, <1>6, <1>7, <1>8 DEF Next, Writer, Closing, Threads

\* A run's entry goes on saying what its run.json says, and a run.json shows no
\* drop that is not counted.
LEMMA MemStep ==
    ASSUME StoreInv, [Next]_vars
    PROVE  MemInv'
<1>0. /\ class' = class /\ disk \in [Ids -> [made : BOOLEAN, ended : BOOLEAN, drops : Nat]]
      /\ mem \in [Ids -> [made : BOOLEAN, ended : BOOLEAN, before : Nat, shown : Nat]]
      /\ openRuns \subseteq Ids /\ MemInv
  BY TypeFacts, PlainTypesStep
<1>1. CASE lives' # lives
  <2>1. openRuns' = {} /\ disk' = disk
    BY <1>1
    DEF Next, Writer, Closing, vars, WriterStays, WriterStops, CountStays, CloserStays, histVars,
        Put, Take, Release, HandleStart, DropLateStart, DropAlienStart, HandleEnd, HandleEvent,
        HandleRaises, WriteRecord, WriteRecordFails, AppendLine, AppendFails, ForgetEnded, Report,
        DropHand, Sync, TakeSentinel, CountRun, WriteCount, Finish, StopAbandoned, Close,
        PutSentinel, Joined, Abandon, Drain, Drained, GiveUp, Restart
  <2> QED BY <1>0, <2>1 DEF MemInv
<1>2. CASE lives' = lives
  <2> DEFINE Same(id) == /\ class[id] = "own" /\ mem'[id].made = disk'[id].made
                         /\ mem'[id].ended = disk'[id].ended /\ mem'[id].shown = disk'[id].drops
                         /\ mem'[id].shown <= Entry(id).before + runDrops[id]
  <2>1. /\ \A id \in openRuns' : Same(id)
        /\ \A id \in Ids : disk'[id].ended => disk'[id].made
    <3>1. CASE UNCHANGED <<openRuns, mem, disk>>
      BY <1>0, <3>1 DEF MemInv, Entry
    <3>2. ASSUME NEW x \in Ids, class[x] = "own", Open(x), disk' = disk
          PROVE  \A id \in openRuns' : Same(id)
      <4>1. mem'[x] = Entry(x) /\ openRuns' = openRuns \cup {x}
            /\ \A id \in Ids : id # x => mem'[id] = mem[id]
        BY <1>0, <3>2 DEF Open
      <4>2. Same(x)
        BY <3>2, <4>1, TypeFacts, EntryFacts
      <4>3. ASSUME NEW id \in openRuns, id # x PROVE Same(id)
        BY <1>0, <3>2, <4>1, <4>3 DEF MemInv, Entry
      <4> QED BY <4>1, <4>2, <4>3
    <3>3. ASSUME NEW x \in Ids, openRuns' = openRuns \ {x}, mem' = [mem EXCEPT ![x] = NoEntry],
                 disk' = disk
          PROVE  \A id \in openRuns' : Same(id)
      BY <1>0, <3>3 DEF MemInv, Entry
    <3>4. ASSUME NEW r \in Writes, RunJson(r), openRuns' = openRuns, r.id \in Ids,
                 r.drops <= Entry(r.id).before + runDrops[r.id]
          PROVE  /\ \A id \in openRuns' : Same(id)
                 /\ \A id \in Ids : disk'[id].ended => disk'[id].made
      <4>1. /\ disk'[r.id].made = TRUE /\ disk'[r.id].ended = r.ended /\ disk'[r.id].drops = r.drops
            /\ \A id \in Ids : id # r.id => disk'[id] = disk[id] /\ mem'[id] = mem[id]
        BY <1>0, <3>4 DEF RunJson
      <4>2. mem'[r.id] = [mem[r.id] EXCEPT !.made = TRUE, !.ended = r.ended, !.shown = r.drops]
        BY <1>0, <3>4 DEF RunJson
      <4>3. mem'[r.id].made = TRUE /\ mem'[r.id].ended = r.ended /\ mem'[r.id].shown = r.drops
        BY <1>0, <3>4, <4>2
      <4>4. r.id \in openRuns => Same(r.id)
        BY <1>0, <3>4, <4>1, <4>3 DEF MemInv
      <4>5. ASSUME NEW id \in openRuns, id # r.id PROVE Same(id)
        BY <1>0, <4>1, <4>5 DEF MemInv, Entry
      <4> QED BY <1>0, <3>4, <4>1, <4>4, <4>5 DEF MemInv
    <3>5. disk' = disk => \A id \in Ids : disk'[id].ended => disk'[id].made
      BY <1>0 DEF MemInv
    <3> HIDE DEF Same
    <3> QED BY <1>2, <3>1, <3>2, <3>3, <3>4, <3>5, RunSteps
  <2>2. ASSUME NEW id \in openRuns' PROVE mem'[id].shown <= mem'[id].before + runDrops'[id]
    <3>1. id \in Ids /\ Entry(id)' = mem'[id]
      BY <2>2, RecordTypesStep DEF Entry
    <3>2. ~(WriteCount("closer") /\ id = counts["closer"].rec.id /\ id \notin openRuns)
      BY <2>2 DEF WriteCount
    <3>3. /\ Entry(id)'.before + runDrops'[id] + lifeDrops[id]
                 = Entry(id).before + runDrops[id] + lifeDrops'[id]
          /\ lifeDrops[id] <= lifeDrops'[id]
      BY <1>2, <3>1, <3>2, CountsKept
    <3>4. mem'[id].shown <= Entry(id).before + runDrops[id]
      BY <2>1
    <3>5. /\ Entry(id).before \in Nat /\ runDrops[id] \in Nat /\ lifeDrops[id] \in Nat
          /\ lifeDrops'[id] \in Nat /\ runDrops'[id] \in Nat
          /\ mem'[id].before \in Nat /\ mem'[id].shown \in Nat
      BY <3>1, TypeFacts, EntryFacts, HandFacts, DropTypesStep, RecordTypesStep
    <3> QED BY <3>1, <3>3, <3>4, <3>5
  <2> QED BY <1>0, <2>1, <2>2 DEF MemInv
<1> QED BY <1>1, <1>2

\* What is written of a run's count stays within it, but for what close() has just
\* written of a run the writer forgot.
LEMMA BoundKept ==
    ASSUME StoreInv, [Next]_vars, lives' = lives, NEW r \in Writes, r.id \in Ids,
           r.drops <= Entry(r.id).before + runDrops[r.id],
           r.id \in openRuns \/ ~WriteCount("closer")
    PROVE  r.drops <= Entry(r.id)'.before + runDrops'[r.id]
<1>1. /\ Entry(r.id)'.before + runDrops'[r.id] + lifeDrops[r.id]
             = Entry(r.id).before + runDrops[r.id] + lifeDrops'[r.id]
      /\ lifeDrops[r.id] <= lifeDrops'[r.id]
  BY CountsKept
<1>2. Entry(r.id)' \in [made : BOOLEAN, ended : BOOLEAN, before : Nat, shown : Nat]
  <2>1. TypeOK' /\ MemInv'
    BY TypesStep, MemStep
  <2> QED BY <2>1, EntryFacts, RecordTypesStep DEF Entry
<1>3. /\ Entry(r.id).before \in Nat /\ runDrops[r.id] \in Nat /\ lifeDrops[r.id] \in Nat
      /\ runDrops'[r.id] \in Nat /\ lifeDrops'[r.id] \in Nat /\ Entry(r.id)'.before \in Nat
      /\ r.drops \in Nat
  BY <1>2, TypeFacts, EntryFacts, HandFacts, DropTypesStep DEF Writes
<1> QED BY <1>1, <1>3

\* A record made of a run's entry.
LEMMA RecordIsWrite ==
    ASSUME StoreInv, NEW id \in Ids, NEW e \in BOOLEAN
    PROVE  RecordOf(id, e) \in Writes
<1>1. Entry(id).before \in Nat /\ runDrops[id] \in Nat /\ id \in Keys
  BY TypeFacts, EntryFacts, HandFacts
<1> QED BY <1>1 DEF RecordOf, Writes

\* What the writer is about to write is of an open run.
LEMMA RecFacts ==
    ASSUME StoreInv, rec # NoWrite
    PROVE  /\ wpc = "record" /\ rec.id = hand.id /\ rec.id \in openRuns /\ rec.id \in Ids
           /\ hand.kind \in {"start", "event", "end"} /\ (rec.ended = (hand.kind = "end"))
           /\ rec.drops <= Entry(rec.id).before + runDrops[rec.id]
<1> QED BY TypeFacts DEF HandInv, FlightInv, Bounded

\* Counts on their way to a run.json stay bounded, and are only written by a thread
\* that is counting.
LEMMA FlightStep ==
    ASSUME StoreInv, [Next]_vars
    PROVE  FlightInv'
<1> USE DEF lockVars, countVars, writerVars, runVars, closeVars, histVars, endVars
<1>0. /\ FlightInv /\ HandInv /\ TypeOK /\ counts \in [Threads -> [todo : SUBSET Ids, rec : Writes]]
      /\ rec \in Writes
  BY TypeFacts
<1>1. CASE Restart
  <2>1. rec' = NoWrite /\ \A t \in Threads : counts'[t] = NoCount /\ counts'[t].rec = NoWrite
    BY <1>1 DEF Restart, NoCount
  <2> QED BY <2>1 DEF FlightInv, Bounded, Threads
<1>2. CASE ~Restart
  <2>1. lives' = lives
    BY <1>2
    DEF Next, Writer, Closing, vars, WriterStays, WriterStops, CountStays, CloserStays, Put, Take,
        Release, HandleStart, DropLateStart, DropAlienStart, HandleEnd, HandleEvent, HandleRaises,
        WriteRecord, WriteRecordFails, AppendLine, AppendFails, ForgetEnded, Report, DropHand,
        Sync, TakeSentinel, CountRun, WriteCount, Finish, StopAbandoned, Close, PutSentinel,
        Joined, Abandon, Drain, Drained, GiveUp
  <2>2. Bounded(rec)'
    <3>1. CASE rec' = NoWrite
      BY <3>1 DEF Bounded
    <3>2. CASE rec' = rec /\ rec # NoWrite
      <4>1. rec.drops <= Entry(rec.id)'.before + runDrops'[rec.id] /\ rec.id \in Ids
        BY <2>1, <3>2, <1>0, RecFacts, BoundKept
      <4> QED BY <3>2, <4>1 DEF Bounded, Entry
    <3>3. CASE /\ wpc = "handle" /\ \E e \in BOOLEAN : rec' = RecordOf(hand.id, e)
               /\ HandleStart \/ HandleEvent \/ HandleEnd
      <4>1. hand.id \in Ids
        BY <3>3, HandFacts DEF Handling
      <4>2. PICK e \in BOOLEAN : rec' = RecordOf(hand.id, e)
        BY <3>3
      <4>3. PICK w \in Writes : w = RecordOf(hand.id, e)
        BY <4>1, RecordIsWrite
      <4>4. w.id = hand.id /\ w.drops = Entry(hand.id).before + runDrops[hand.id]
        BY <4>3 DEF RecordOf
      <4>5. ~WriteCount("closer")
        BY <3>3 DEF HandleStart, HandleEvent, HandleEnd, WriteCount, CountStays
      <4>6. w.drops <= Entry(w.id).before + runDrops[w.id]
        BY <4>1, <4>4, TypeFacts, EntryFacts
      <4>7. w.drops <= Entry(w.id)'.before + runDrops'[w.id]
        BY <2>1, <4>1, <4>4, <4>5, <4>6, BoundKept
      <4> QED BY <4>1, <4>2, <4>3, <4>4, <4>7 DEF Bounded, Entry
    <3>4. rec = NoWrite \/ rec # NoWrite
      OBVIOUS
    <3> QED
      BY <1>2, <3>1, <3>2, <3>3, <3>4
      DEF Next, Writer, Closing, vars, WriterStays, WriterStops, CountStays, CloserStays, Put, Take,
          Release, HandleStart, DropLateStart, DropAlienStart, HandleEnd, HandleEvent, HandleRaises,
          WriteRecord, WriteRecordFails, AppendLine, AppendFails, ForgetEnded, Report, DropHand,
          Sync, TakeSentinel, CountRun, WriteCount, Finish, StopAbandoned, Close, PutSentinel,
          Joined, Abandon, Drain, Drained, GiveUp
  <2>3. ASSUME NEW t \in Threads
        PROVE  (\E id \in Ids : CountRun(t, id)) \/ counts'[t].rec \in {NoWrite, counts[t].rec}
    <3>1. ASSUME NEW s \in Threads, NEW id \in Ids, CountRun(s, id), s # t
          PROVE  counts'[t] = counts[t]
      BY <1>0, <3>1 DEF CountRun
    <3>2. ASSUME NEW s \in Threads, WriteCount(s) PROVE counts'[t].rec \in {NoWrite, counts[t].rec}
      BY <1>0, <3>2 DEF WriteCount
    <3>3. CASE TakeSentinel \/ Drained
      <4>1. ASSUME NEW s \in Threads, counts' = [counts EXCEPT ![s].todo = Dropped]
            PROVE  counts'[t].rec = counts[t].rec
        BY <1>0, <4>1
      <4> QED BY <3>3, <4>1 DEF TakeSentinel, Drained, Threads
    <3>4. CASE UNCHANGED counts
      BY <3>4
    <3> QED
      BY <1>2, <3>1, <3>2, <3>3, <3>4
      DEF Next, Writer, Closing, vars, WriterStays, WriterStops, CloserStays, Put, Take, Release,
          HandleStart, DropLateStart, DropAlienStart, HandleEnd, HandleEvent, HandleRaises,
          WriteRecord, WriteRecordFails, AppendLine, AppendFails, ForgetEnded, Report, DropHand,
          Sync, Finish, StopAbandoned, Close, PutSentinel, Joined, Abandon, Drain, GiveUp, Threads
  <2>4. ASSUME NEW t \in Threads PROVE Bounded(counts[t].rec)'
    <3>1. CASE counts'[t].rec = NoWrite
      BY <3>1 DEF Bounded
    <3>2. CASE counts'[t].rec = counts[t].rec /\ counts[t].rec # NoWrite
      <4>1. PICK w \in Writes : w = counts[t].rec
        BY <1>0
      <4>2. w.id \in Ids /\ w.drops <= Entry(w.id).before + runDrops[w.id]
            /\ (t = "writer" => w.id \in openRuns)
        BY <3>2, <4>1, CountFacts
      <4>3. t = "closer" => ~WriteCount("closer")
        <5>1. t = "closer" /\ WriteCount("closer") => counts'[t].rec = NoWrite
          BY <1>0 DEF WriteCount
        <5> QED BY <3>2, <5>1
      <4>4. w.drops <= Entry(w.id)'.before + runDrops'[w.id]
        BY <2>1, <4>2, <4>3, BoundKept DEF Threads
      <4> QED BY <3>2, <4>1, <4>2, <4>4 DEF Bounded, Entry
    <3>3. ASSUME NEW id \in Ids, CountRun(t, id), counts'[t].rec # NoWrite
          PROVE  Bounded(counts[t].rec)'
      <4>1. /\ counts[t].rec = NoWrite
            /\ \/ counts'[t].rec = RecordOf(id, Entry(id).ended)
               \/ counts'[t].rec = counts[t].rec
        BY <1>0, <3>3 DEF CountRun
      <4>2. /\ Entry(id).before \in Nat /\ runDrops[id] \in Nat /\ id \in Keys
            /\ Entry(id).ended \in BOOLEAN
        BY TypeFacts, EntryFacts, HandFacts
      <4>3. PICK w \in Writes : w = RecordOf(id, Entry(id).ended)
        BY <4>2, RecordIsWrite
      <4>4. w.id = id /\ w.drops = Entry(id).before + runDrops[id]
        BY <4>3 DEF RecordOf
      <4>5. WriteCount("closer") => counts'["closer"].rec = NoWrite /\ counts["closer"].rec # NoWrite
        BY <1>0 DEF WriteCount, Threads
      <4>6. ~WriteCount("closer")
        <5>1. CASE t = "closer"
          BY <3>3, <4>1, <4>5, <5>1
        <5>2. CASE t = "writer"
          <6>1. counts' = [counts EXCEPT !["writer"] = counts'["writer"]]
            BY <1>0, <3>3, <5>2 DEF CountRun, Threads
          <6>2. counts'["closer"] = counts["closer"]
            BY <1>0, <6>1 DEF Threads
          <6> QED BY <4>5, <6>2
        <5> QED BY <5>1, <5>2 DEF Threads
      <4>7. w.drops <= Entry(w.id).before + runDrops[w.id]
        BY <4>2, <4>4
      <4>8. w.drops <= Entry(w.id)'.before + runDrops'[w.id]
        BY <2>1, <4>4, <4>6, <4>7, BoundKept
      <4> QED BY <3>3, <4>1, <4>3, <4>4, <4>8 DEF Bounded, Entry
    <3> QED BY <2>3, <3>1, <3>2, <3>3
  <2>5. ASSUME NEW t \in Threads, counts'[t] # NoCount PROVE Counting(t)'
    <3>1. CASE TakeSentinel \/ Drained
      <4>1. /\ t = "writer" /\ TakeSentinel => wpc' = "counts"
            /\ t = "closer" /\ Drained => cpc' = "counts"
        BY DEF TakeSentinel, Drained
      <4>2. /\ t = "writer" /\ Drained => counts'[t] = counts[t] /\ wpc' = wpc
            /\ t = "closer" /\ TakeSentinel => counts'[t] = counts[t] /\ cpc' = cpc
        BY <1>0 DEF TakeSentinel, Drained, CloserStays
      <4> QED BY <1>0, <2>5, <3>1, <4>1, <4>2 DEF FlightInv, Counting, Threads
    <3>2. ASSUME NEW s \in Threads, WriteCount(s) \/ (\E id \in Ids : CountRun(s, id))
          PROVE  Counting(t)'
      <4>1. wpc' = wpc /\ cpc' = cpc
        BY <3>2 DEF WriteCount, CountRun, CountStays
      <4>2. CASE s = t
        <5>1. WriteCount(t) => counts[t] # NoCount
          BY DEF WriteCount, NoCount
        <5>2. Counting(t)
          BY <1>0, <3>2, <4>2, <5>1 DEF FlightInv, CountRun
        <5> QED BY <4>1, <5>2 DEF Counting
      <4>3. CASE s # t
        <5>1. counts'[t] = counts[t]
          BY <1>0, <3>2, <4>3 DEF WriteCount, CountRun
        <5> QED BY <1>0, <2>5, <4>1, <5>1 DEF FlightInv, Counting
      <4> QED BY <4>2, <4>3
    <3>3. CASE Finish \/ GiveUp
      <4>1. /\ Finish => cpc' = cpc /\ counts["writer"] = NoCount /\ counts' = counts
            /\ GiveUp => wpc' = wpc /\ counts["closer"] = NoCount /\ counts' = counts
        BY DEF Finish, GiveUp, WriterStops, CloserStays, Counted
      <4> QED BY <1>0, <2>5, <3>3, <4>1 DEF FlightInv, Counting, Threads
    <3>4. ASSUME counts' = counts, wpc = "counts" => wpc' = "counts", cpc = "counts" => cpc' = "counts"
          PROVE  Counting(t)'
      BY <1>0, <2>5, <3>4 DEF FlightInv, Counting
    <3>5. CASE Writer /\ ~TakeSentinel /\ ~Finish /\ ~WriteCount("writer")
                /\ ~(\E id \in Ids : CountRun("writer", id))
      BY <3>4, <3>5
      DEF Writer, WriterStays, WriterStops, Take, Release, HandleStart, DropLateStart,
          DropAlienStart, HandleEnd, HandleEvent, HandleRaises, WriteRecord, WriteRecordFails,
          AppendLine, AppendFails, ForgetEnded, Report, DropHand, Sync, StopAbandoned
    <3>6. CASE (\E i \in Items : Put(i)) \/ Close \/ PutSentinel \/ Joined \/ Abandon \/ Drain
                \/ UNCHANGED vars
      BY <3>4, <3>6 DEF Put, Close, PutSentinel, Joined, Abandon, Drain, CloserStays, vars
    <3> QED BY <1>2, <3>1, <3>2, <3>3, <3>5, <3>6 DEF Next, Closing, Threads
  <2>6. ASSUME counts'["writer"].rec # NoWrite PROVE counts'["writer"].rec.id \in openRuns'
    <3>1. CASE counts'["writer"].rec = counts["writer"].rec
      <4>1. wpc = "counts" /\ counts["writer"].rec.id \in openRuns
        BY <2>6, <3>1, CountFacts DEF Threads
      <4>2. openRuns \subseteq openRuns'
        BY <1>2, <4>1
        DEF Next, Writer, Closing, vars, WriterStays, WriterStops, CountStays, CloserStays, Put,
            Take, Release, HandleStart, DropLateStart, DropAlienStart, HandleEnd, HandleEvent,
            HandleRaises, WriteRecord, WriteRecordFails, AppendLine, AppendFails, ForgetEnded,
            Report, DropHand, Sync, TakeSentinel, CountRun, WriteCount, Finish, StopAbandoned,
            Close, PutSentinel, Joined, Abandon, Drain, Drained, GiveUp, Open
      <4> QED BY <3>1, <4>1, <4>2
    <3>2. ASSUME NEW id \in Ids, CountRun("writer", id)
          PROVE  counts'["writer"].rec.id \in openRuns'
      <4>1. counts["writer"].rec = NoWrite
        BY <3>2 DEF CountRun
      <4>2. CASE Open(id) /\ counts'["writer"].rec = RecordOf(id, Entry(id).ended)
        BY <4>2 DEF Open, RecordOf
      <4>3. CASE counts'["writer"].rec = NoWrite
        BY <2>6, <4>3
      <4> QED BY <1>0, <3>2, <4>1, <4>2, <4>3 DEF CountRun, Threads
    <3> QED BY <2>3, <2>6, <3>1, <3>2 DEF Threads
  <2> QED BY <2>2, <2>4, <2>5, <2>6 DEF FlightInv
<1> QED BY <1>1, <1>2

-----------------------------------------------------------------------------
(* Every step keeps what the store promises. *)

\* Only close() gives up.
LEMMA ClosingStep ==
    ASSUME StoreInv, [Next]_vars
    PROVE  ClosingInv'
<1> USE DEF lockVars, countVars, writerVars, runVars, closeVars, histVars, endVars
<1>0. ClosingInv
  BY DEF StoreInv
<1>1. CASE UNCHANGED <<abandoned, cpc>>
  BY <1>0, <1>1 DEF ClosingInv
<1>2. CASE Close \/ (Closing /\ ~Abandon) \/ Restart
  BY <1>0, <1>2
  DEF ClosingInv, Closing, CloserStays, CountStays, Close, PutSentinel, Joined, Drain, Drained,
      CountRun, WriteCount, GiveUp, Counted, Counting, Restart
<1>3. CASE Abandon
  BY <1>3 DEF ClosingInv, Abandon
<1>4. CASE (\E i \in Items : Put(i)) \/ Writer \/ UNCHANGED vars
  BY <1>1, <1>4
  DEF Put, Writer, WriterStays, WriterStops, CountStays, Take, Release, HandleStart, DropLateStart,
      DropAlienStart, HandleEnd, HandleEvent, HandleRaises, WriteRecord, WriteRecordFails,
      AppendLine, AppendFails, ForgetEnded, Report, DropHand, Sync, TakeSentinel, CountRun,
      WriteCount, Finish, StopAbandoned, vars
<1> QED BY <1>2, <1>3, <1>4 DEF Next, Closing

\* Neither the process nor the counts of earlier ones change but with a restart.
LEMMA LifeKept ==
    ASSUME StoreInv, [Next]_vars, ~Restart
    PROVE  lives' = lives /\ base' = base /\ (abandoned => abandoned')
<1> USE DEF lockVars, countVars, writerVars, runVars, closeVars, histVars, endVars
<1>1. lives' = lives /\ base' = base
  BY DEF Next, Writer, Closing, vars, WriterStays, WriterStops, CountStays, CloserStays, Put, Take,
      Release, HandleStart, DropLateStart, DropAlienStart, HandleEnd, HandleEvent, HandleRaises,
      WriteRecord, WriteRecordFails, AppendLine, AppendFails, ForgetEnded, Report, DropHand, Sync,
      TakeSentinel, CountRun, WriteCount, Finish, StopAbandoned, Close, PutSentinel, Joined, Abandon,
      Drain, Drained, GiveUp
<1>2. abandoned' \in {abandoned, TRUE}
  BY DEF Next, Writer, Closing, vars, WriterStays, WriterStops, CountStays, CloserStays, Put, Take,
      Release, HandleStart, DropLateStart, DropAlienStart, HandleEnd, HandleEvent, HandleRaises,
      WriteRecord, WriteRecordFails, AppendLine, AppendFails, ForgetEnded, Report, DropHand, Sync,
      TakeSentinel, CountRun, WriteCount, Finish, StopAbandoned, Close, PutSentinel, Joined, Abandon,
      Drain, Drained, GiveUp
<1>3. abandoned => abandoned'
  <2>1. abandoned' = abandoned \/ abandoned' = TRUE
    BY <1>2
  <2> QED BY <2>1, Zenon
<1> QED BY <1>1, <1>3

\* Until close() gives up, only the writer writes counts.
LEMMA CloserWaits ==
    ASSUME StoreInv, ~abandoned
    PROVE  /\ counts["closer"] = NoCount /\ ~WriteCount("closer")
           /\ \A id \in Ids : ~CountRun("closer", id)
           /\ ~Drain /\ ~Drained /\ ~GiveUp
<1>1. cpc \notin {"draining", "counts", "gave_up"}
  BY DEF StoreInv, ClosingInv
<1>2. counts["closer"] = NoCount
  BY <1>1, TypeFacts DEF FlightInv, Counting, Threads
<1>3. ~WriteCount("closer") /\ \A id \in Ids : ~CountRun("closer", id)
  BY <1>1, <1>2 DEF WriteCount, CountRun, Counting, NoCount
<1> QED BY <1>1, <1>2, <1>3 DEF Drain, Drained, GiveUp, Counted, Counting

\* A run's entry and its count in memory, which opening, forgetting and writing
\* leave alone together, count what this process and those before it dropped.
LEMMA ConsStep ==
    ASSUME StoreInv, [Next]_vars
    PROVE  DropsConserved'
<1> SUFFICES ASSUME ~abandoned', NEW id \in Ids, class'[id] = "own"
             PROVE  (Entry(id).before + runDrops[id] = base[id] + lifeDrops[id])'
  BY DEF DropsConserved
<1>0. class' = class /\ disk \in [Ids -> [made : BOOLEAN, ended : BOOLEAN, drops : Nat]] /\ id \in Keys
  BY TypeFacts, PlainTypesStep, HandFacts
<1>1. CASE Restart
  <2>1. openRuns' = {} /\ disk' = disk /\ runDrops'[id] = 0 /\ lifeDrops'[id] = 0
        /\ base'[id] = disk[id].drops
    BY <1>0, <1>1 DEF Restart
  <2>2. Entry(id)'.before = disk[id].drops /\ disk[id].drops \in Nat
    BY <1>0, <2>1 DEF Entry
  <2>3. Entry(id)'.before + runDrops'[id] = base'[id] + lifeDrops'[id]
    BY <2>1, <2>2
  <2> QED BY <2>3
<1>2. CASE ~Restart
  <2>1. lives' = lives /\ base' = base /\ ~abandoned
    BY <1>2, LifeKept
  <2>2. ~WriteCount("closer")
    BY <2>1, CloserWaits
  <2>3. /\ Entry(id)'.before + runDrops'[id] + lifeDrops[id]
               = Entry(id).before + runDrops[id] + lifeDrops'[id]
    BY <2>1, <2>2, CountsKept
  <2>4. Entry(id).before + runDrops[id] = base[id] + lifeDrops[id]
    BY <1>0, <2>1 DEF StoreInv, DropsConserved
  <2>5. /\ Entry(id).before \in Nat /\ runDrops[id] \in Nat /\ lifeDrops[id] \in Nat
        /\ base[id] \in Nat /\ lifeDrops'[id] \in Nat /\ runDrops'[id] \in Nat
    BY <1>0, TypeFacts, EntryFacts, DropTypesStep DEF TypeOK
  <2>6. Entry(id)'.before \in Nat
    <3>1. TypeOK' /\ MemInv'
      BY TypesStep, MemStep
    <3> QED BY <3>1, EntryFacts, RecordTypesStep DEF Entry
  <2>7. base'[id] = base[id]
    BY <2>1
  <2>8. Entry(id)'.before + runDrops'[id] = base'[id] + lifeDrops'[id]
    BY <2>3, <2>4, <2>5, <2>6, <2>7
  <2> QED BY <2>8
<1> QED BY <1>1, <1>2

\* A run.json, once there, is there, and a line goes only where one is.
LEMMA RecordStep ==
    ASSUME StoreInv, [Next]_vars
    PROVE  EventsHaveRecord'
<1> USE DEF lockVars, countVars, writerVars, runVars, closeVars, histVars, endVars
<1>0. /\ class' = class /\ disk \in [Ids -> [made : BOOLEAN, ended : BOOLEAN, drops : Nat]]
      /\ EventsHaveRecord /\ lines \in [Keys -> Nat] /\ HandInv
  BY TypeFacts, PlainTypesStep DEF StoreInv, TypeOK
<1>1. \A id \in Ids : disk[id].made => disk'[id].made
  <2>1. CASE lives' # lives
    BY <2>1, LifeKept DEF Restart
  <2>2. ASSUME NEW r \in Writes, RunJson(r) PROVE \A id \in Ids : disk[id].made => disk'[id].made
    BY <1>0, <2>2 DEF RunJson
  <2> QED BY <2>1, <2>2, RunSteps
<1>2. CASE UNCHANGED lines
  BY <1>0, <1>1, <1>2 DEF EventsHaveRecord
<1>3. CASE AppendLine
  <2>1. /\ hand.id \in Ids /\ (class[hand.id] = "own" => disk[hand.id].made)
        /\ \A id \in Ids : id # Unattributed
    BY <1>0, <1>3, HandFacts DEF AppendLine, HandInv, Handling
  <2>2. lines' = [lines EXCEPT ![Where(hand.id)] = @ + 1]
    BY <1>3 DEF AppendLine
  <2>3. ASSUME NEW id \in Ids, class[id] = "own", lines'[id] > 0 PROVE disk[id].made
    <3>1. CASE id = Where(hand.id)
      BY <2>1, <2>3, <3>1 DEF Where
    <3>2. CASE id # Where(hand.id)
      BY <1>0, <2>2, <2>3, <3>2 DEF EventsHaveRecord
    <3> QED BY <3>1, <3>2
  <2> QED BY <1>0, <1>1, <2>3 DEF EventsHaveRecord
<1> QED
  BY <1>2, <1>3
  DEF Next, Writer, Closing, vars, WriterStays, WriterStops, CountStays, CloserStays, Put, Take,
      Release, HandleStart, DropLateStart, DropAlienStart, HandleEnd, HandleEvent, HandleRaises,
      WriteRecord, WriteRecordFails, AppendFails, ForgetEnded, Report, DropHand, Sync,
      TakeSentinel, CountRun, WriteCount, Finish, StopAbandoned, Close, PutSentinel, Joined, Abandon,
      Drain, Drained, GiveUp, Restart

\* What is queued, in hand, handled and dropped is what was put.
LEMMA AccountStep ==
    ASSUME StoreInv, [Next]_vars
    PROVE  EveryItemAccounted'
<1> USE DEF lockVars, countVars, writerVars, runVars, closeVars, histVars, endVars
<1> DEFINE InHand == IF hand = NoItem THEN 0 ELSE 1
<1>0. /\ queue \in Seq(Items) /\ Len(queue) \in Nat /\ handled \in Nat /\ dropped \in Nat
      /\ puts \in Nat /\ Len(queue) + InHand + handled + dropped = puts
      /\ wpc \in Handling => hand # NoItem
      /\ wpc \notin Handling => hand = NoItem
      /\ \A i \in Items : i # NoItem
  BY HandFacts DEF StoreInv, TypeOK, EveryItemAccounted, HandInv
<1>1. /\ \A i \in Items : Len(Append(queue, i)) = Len(queue) + 1
      /\ queue # <<>> => Len(Tail(queue)) = Len(queue) - 1 /\ Head(queue) \in Items
  BY <1>0, AppendProperties, HeadTailProperties
<1>2. ASSUME NEW i \in Items, Put(i) PROVE EveryItemAccounted'
  <2>1. hand' = hand /\ handled' = handled /\ puts' = puts + 1
        /\ \/ Len(queue') = Len(queue) + 1 /\ dropped' = dropped
           \/ queue' = queue /\ dropped' = dropped + 1
    BY <1>1, <1>2 DEF Put, CountDrop
  <2> QED BY <1>0, <2>1 DEF EveryItemAccounted
<1>3. CASE Take
  <2>1. hand = NoItem /\ hand' # NoItem /\ Len(queue') = Len(queue) - 1
        /\ UNCHANGED <<handled, dropped, puts>>
    BY <1>0, <1>1, <1>3 DEF Take, Handling
  <2> QED BY <1>0, <2>1 DEF EveryItemAccounted
<1>4. CASE Drain
  <2>1. Len(queue') = Len(queue) - 1 /\ dropped' = dropped + 1
    BY <1>1, <1>4 DEF Drain, CountDrop
  <2>2. hand' = hand /\ handled' = handled /\ puts' = puts
    BY <1>4 DEF Drain, CloserStays
  <2>3. Len(queue') + InHand + handled + (dropped + 1) = puts
    <3>1. InHand \in Nat
      OBVIOUS
    <3> HIDE DEF InHand
    <3>2. Len(queue) + InHand + handled + dropped = puts
      BY <1>0 DEF InHand
    <3>3. (Len(queue) - 1) + InHand + handled + (dropped + 1) = puts
      BY <1>0, <3>1, <3>2
    <3> QED BY <2>1, <3>3
  <2> QED BY <2>1, <2>2, <2>3 DEF EveryItemAccounted
<1>5. CASE DropLateStart \/ DropAlienStart \/ DropHand
  <2>1. hand # NoItem /\ hand' = NoItem /\ dropped' = dropped + 1
        /\ UNCHANGED <<queue, handled, puts>>
    BY <1>0, <1>5 DEF DropLateStart, DropAlienStart, DropHand, WriterStays, CountDrop, Handling
  <2> QED BY <1>0, <2>1 DEF EveryItemAccounted
<1>6. CASE WriteRecord \/ AppendLine \/ Report
  <2>1. /\ hand # NoItem /\ UNCHANGED <<queue, dropped, puts>>
        /\ \/ hand' = NoItem /\ handled' = handled + 1
           \/ UNCHANGED <<hand, handled>>
    BY <1>0, <1>6 DEF WriteRecord, AppendLine, Report, WriterStays, Handling
  <2>2. CASE hand' = NoItem /\ handled' = handled + 1
    BY <1>0, <2>1, <2>2 DEF EveryItemAccounted
  <2>3. CASE UNCHANGED <<hand, handled>>
    BY <1>0, <2>1, <2>3 DEF EveryItemAccounted
  <2> QED BY <2>1, <2>2, <2>3
<1>7. CASE Restart
  <2>1. Len(queue') = 0 /\ hand' = NoItem /\ handled' = 0 /\ dropped' = 0 /\ puts' = 0
    BY <1>7 DEF Restart
  <2> QED BY <2>1 DEF EveryItemAccounted
<1>8. CASE UNCHANGED <<queue, hand, handled, dropped, puts>>
  BY <1>0, <1>8 DEF EveryItemAccounted
<1>9. CASE Writer /\ ~Take /\ ~DropLateStart /\ ~DropAlienStart /\ ~DropHand /\ ~WriteRecord
            /\ ~AppendLine /\ ~Report
  BY <1>8, <1>9
  DEF Writer, WriterStays, WriterStops, CountStays, Release, HandleStart, HandleEnd, HandleEvent,
      HandleRaises, WriteRecordFails, AppendFails, ForgetEnded, Sync, TakeSentinel, CountRun,
      WriteCount, Finish, StopAbandoned
<1>10. CASE Close \/ (Closing /\ ~Drain) \/ UNCHANGED vars
  BY <1>8, <1>10
  DEF Closing, CloserStays, CountStays, Close, PutSentinel, Joined, Abandon, Drained, CountRun,
      WriteCount, GiveUp, vars
<1> QED BY <1>2, <1>3, <1>4, <1>5, <1>6, <1>7, <1>9, <1>10 DEF Next, Closing

\* A run that stays open keeps the drops it was resumed with.
LEMMA StillOpen ==
    ASSUME StoreInv, [Next]_vars, lives' = lives, NEW id \in openRuns, id \in openRuns'
    PROVE  Entry(id)'.before = Entry(id).before
<1>0. id \in Ids /\ mem \in [Ids -> [made : BOOLEAN, ended : BOOLEAN, before : Nat, shown : Nat]]
  BY TypeFacts
<1>1. CASE UNCHANGED <<openRuns, mem, disk>>
  BY <1>1 DEF Entry
<1>2. ASSUME NEW x \in Ids, Open(x), disk' = disk PROVE Entry(id)'.before = Entry(id).before
  BY <1>0, <1>2, OpenKeeps
<1>3. ASSUME NEW x \in Ids, openRuns' = openRuns \ {x}, mem' = [mem EXCEPT ![x] = NoEntry]
      PROVE  Entry(id)'.before = Entry(id).before
  <2>1. id # x /\ mem'[id] = mem[id]
    BY <1>0, <1>3
  <2> QED BY <2>1 DEF Entry
<1>4. ASSUME NEW r \in Writes, RunJson(r), openRuns' = openRuns
      PROVE  Entry(id)'.before = Entry(id).before
  BY <1>0, <1>4, RunJsonKeeps
<1> QED BY <1>1, <1>2, <1>3, <1>4, RunSteps

\* Until close() gives up, only the writer's own two places write a run.json.
LEMMA WhoWrites ==
    ASSUME StoreInv, [Next]_vars, ~Restart, ~abandoned'
    PROVE  \/ disk' = disk
           \/ WriteRecord /\ RunJson(rec) /\ rec # NoWrite /\ rec' = NoWrite
           \/ /\ WriteCount("writer") /\ RunJson(counts["writer"].rec)
              /\ counts["writer"].rec # NoWrite /\ counts'["writer"].rec = NoWrite
              /\ wpc = "counts" /\ wpc' = wpc
<1>1. lives' = lives /\ ~abandoned
  BY LifeKept
<1>2. ~WriteCount("closer")
  BY <1>1, CloserWaits
<1>3. WriteRecord => rec # NoWrite /\ rec' = NoWrite
  BY HandFacts, NoWriteFacts, TypeFacts DEF WriteRecord, HandInv, Handling
<1>4. WriteCount("writer") => /\ counts["writer"].rec # NoWrite /\ counts'["writer"].rec = NoWrite
                              /\ wpc = "counts" /\ wpc' = wpc
  BY TypeFacts, CountFacts DEF WriteCount, CountStays, writerVars, Threads
<1> QED BY <1>1, <1>2, <1>3, <1>4, RunSteps

\* The record that the writer is about to write keeps the run's end and its drops.
LEMMA RecKeepsEnd ==
    ASSUME StoreInv, [Next]_vars, ~Restart, ~abandoned'
    PROVE  KeepsEnd(rec)'
<1> USE DEF lockVars, countVars, writerVars, runVars, closeVars, histVars, endVars
<1>0. /\ lives' = lives /\ ~abandoned /\ HandInv /\ HandInv' /\ MemInv /\ TypeOK
      /\ KeepsEnd(rec)
  BY LifeKept, HandStep DEF StoreInv, EndInv
<1>1. CASE rec' = NoWrite
  BY <1>1 DEF KeepsEnd
<1>2. CASE rec' = rec /\ rec # NoWrite
  <2>1. wpc = "record" /\ rec.id \in openRuns
    BY <1>2, RecFacts
  <2>2. rec'.id \in openRuns'
    BY <1>0, <1>2 DEF HandInv
  <2>3. disk' = disk
    BY <1>2, <2>1, WhoWrites
  <2>4. Entry(rec.id)'.before = Entry(rec.id).before
    <3>1. PICK x \in openRuns : x = rec.id
      BY <2>1
    <3>2. Entry(x)'.before = Entry(x).before
      BY <1>0, <1>2, <2>2, <3>1, StillOpen
    <3> QED BY <1>2, <3>1, <3>2 DEF Entry
  <2> QED BY <1>0, <1>2, <2>3, <2>4 DEF KeepsEnd, Entry
<1>3. ASSUME wpc = "handle", NEW e \in BOOLEAN, rec' = RecordOf(hand.id, e), Open(hand.id),
             disk' = disk, disk[hand.id].ended => e
      PROVE  KeepsEnd(rec)'
  <2>1. PICK x \in Ids : x = hand.id
    BY <1>3, HandFacts DEF Handling
  <2>2. Entry(x)' = Entry(x)
    BY <1>3, <2>1, OpenKeeps
  <2>3. Entry(x).before \in Nat /\ runDrops[x] \in Nat
    BY <1>0, EntryFacts
  <2>4. rec'.id = x /\ rec'.ended = e /\ rec'.drops = Entry(x).before + runDrops[x]
    BY <1>3, <2>1 DEF RecordOf
  <2>5. Entry(x)'.before <= rec'.drops
    BY <2>2, <2>3, <2>4
  <2>6. disk'[x].ended => rec'.ended
    BY <1>3, <2>1, <2>4
  <2> QED BY <2>4, <2>5, <2>6 DEF KeepsEnd, Entry
<1>4. CASE HandleStart
  <2>1. hand.id \in Ids /\ ~Entry(hand.id).ended
    BY <1>4, HandFacts DEF HandleStart, Handling
  <2>2. ~disk[hand.id].ended
    BY <1>0, <2>1, EntryFacts
  <2>3. wpc = "handle" /\ rec' = RecordOf(hand.id, FALSE) /\ Open(hand.id) /\ disk' = disk
    BY <1>4 DEF HandleStart
  <2> QED BY <1>3, <2>2, <2>3
<1>5. CASE HandleEnd
  <2>1. wpc = "handle" /\ rec' = RecordOf(hand.id, TRUE) /\ Open(hand.id) /\ disk' = disk
    BY <1>5 DEF HandleEnd
  <2> QED BY <1>3, <2>1
<1>6. CASE HandleEvent
  <2>1. hand.id \in Ids
    BY <1>6, HandFacts DEF HandleEvent, Handling
  <2>2. CASE /\ Open(hand.id) /\ ~Entry(hand.id).made /\ rec' = RecordOf(hand.id, FALSE)
    <3>1. ~disk[hand.id].ended
      BY <1>0, <2>1, <2>2, EntryFacts DEF MemInv
    <3>2. wpc = "handle" /\ disk' = disk
      BY <1>6 DEF HandleEvent
    <3> QED BY <1>3, <2>2, <3>1, <3>2
  <2>3. CASE rec' = rec
    BY <1>1, <1>2, <2>3
  <2> QED BY <1>6, <2>2, <2>3 DEF HandleEvent
<1>7. rec' \in {rec, NoWrite} \/ HandleStart \/ HandleEnd \/ HandleEvent
  BY DEF Next, Writer, Closing, vars, WriterStays, WriterStops, CountStays, CloserStays, Put, Take,
      Release, DropLateStart, DropAlienStart, HandleRaises, WriteRecord, WriteRecordFails,
      AppendLine, AppendFails, ForgetEnded, Report, DropHand, Sync, TakeSentinel, CountRun,
      WriteCount, Finish, StopAbandoned, Close, PutSentinel, Joined, Abandon, Drain, Drained,
      GiveUp, Restart
<1> QED BY <1>1, <1>2, <1>4, <1>5, <1>6, <1>7

\* And so does the count that the writer is about to write at its end.
LEMMA CountKeepsEnd ==
    ASSUME StoreInv, [Next]_vars, ~Restart, ~abandoned'
    PROVE  KeepsEnd(counts["writer"].rec)'
<1> USE DEF lockVars, countVars, writerVars, runVars, closeVars, histVars, endVars
<1>0. /\ lives' = lives /\ ~abandoned /\ FlightInv /\ FlightInv' /\ MemInv /\ TypeOK
      /\ KeepsEnd(counts["writer"].rec)
      /\ counts \in [Threads -> [todo : SUBSET Ids, rec : Writes]]
  BY LifeKept, FlightStep, TypeFacts DEF StoreInv, EndInv
<1>1. CASE counts'["writer"].rec = NoWrite
  BY <1>1 DEF KeepsEnd
<1>2. CASE counts'["writer"].rec = counts["writer"].rec /\ counts["writer"].rec # NoWrite
  <2>1. PICK r \in Writes : r = counts["writer"].rec
    BY <1>0 DEF Threads
  <2>2. r.id \in openRuns /\ wpc = "counts" /\ r.id \in openRuns'
    BY <1>0, <1>2, <2>1, CountFacts DEF Threads, FlightInv
  <2>3. disk' = disk
    BY <1>2, <2>2, WhoWrites DEF WriteRecord
  <2>4. Entry(r.id)'.before = Entry(r.id).before
    BY <1>0, <2>2, StillOpen
  <2>5. r # NoWrite => (disk'[r.id].ended => r.ended) /\ Entry(r.id)'.before <= r.drops
    BY <1>0, <2>1, <2>3, <2>4 DEF KeepsEnd
  <2> QED BY <1>2, <2>1, <2>5 DEF KeepsEnd, Entry
<1>3. ASSUME NEW id \in Ids, CountRun("writer", id) PROVE KeepsEnd(counts["writer"].rec)'
  <2>1. CASE Open(id) /\ counts'["writer"].rec = RecordOf(id, Entry(id).ended)
    <3>1. Entry(id)' = Entry(id) /\ disk' = disk
      BY <1>3, <2>1, OpenKeeps DEF CountRun
    <3>2. Entry(id).before \in Nat /\ runDrops[id] \in Nat /\ Entry(id).ended = disk[id].ended
      BY <1>0, EntryFacts
    <3>3. PICK w : w = counts'["writer"].rec
      OBVIOUS
    <3>4. w.id = id /\ w.ended = Entry(id).ended /\ w.drops = Entry(id).before + runDrops[id]
      BY <2>1, <3>3 DEF RecordOf
    <3>5. Entry(id)'.before <= w.drops /\ (disk'[id].ended => w.ended)
      BY <3>1, <3>2, <3>4
    <3> QED BY <3>3, <3>4, <3>5 DEF KeepsEnd, Entry
  <2>2. CASE counts'["writer"].rec = NoWrite
    BY <1>1, <2>2
  <2> QED BY <1>0, <1>3, <2>1, <2>2 DEF CountRun, Threads
<1>4. counts'["writer"].rec \in {NoWrite, counts["writer"].rec}
      \/ (\E id \in Ids : CountRun("writer", id))
  <2>1. ASSUME NEW s \in Threads, WriteCount(s) PROVE counts'["writer"].rec \in {NoWrite, counts["writer"].rec}
    BY <1>0, <2>1 DEF WriteCount, Threads
  <2>2. CASE TakeSentinel
    BY <1>0, <2>2 DEF TakeSentinel, Threads
  <2>3. CASE UNCHANGED counts
    BY <2>3
  <2>4. ~Drained /\ ~WriteCount("closer") /\ \A id \in Ids : ~CountRun("closer", id)
    BY <1>0, CloserWaits
  <2> QED
    BY <2>1, <2>2, <2>3, <2>4
    DEF Next, Writer, Closing, vars, WriterStays, WriterStops, CloserStays, Put, Take, Release,
        HandleStart, DropLateStart, DropAlienStart, HandleEnd, HandleEvent, HandleRaises,
        WriteRecord, WriteRecordFails, AppendLine, AppendFails, ForgetEnded, Report, DropHand,
        Sync, Finish, StopAbandoned, Close, PutSentinel, Joined, Abandon, Drain, GiveUp, Threads
<1> QED BY <1>1, <1>2, <1>3, <1>4

\* Ends stay on disk until they are reported, with nothing of the run in memory.
LEMMA EndStep ==
    ASSUME StoreInv, [Next]_vars
    PROVE  EndInv'
<1> USE DEF lockVars, countVars, writerVars, runVars, closeVars, histVars, endVars
<1>1. CASE Restart
  <2>1. rec' = NoWrite /\ counts'["writer"].rec = NoWrite /\ wpc' = "idle" /\ openRuns' = {}
    BY <1>1 DEF Restart, NoCount, Threads
  <2> QED BY <2>1 DEF EndInv, KeepsEnd
<1>2. CASE ~Restart
  <2> SUFFICES ASSUME ~abandoned'
               PROVE  /\ KeepsEnd(rec)' /\ KeepsEnd(counts["writer"].rec)'
                      /\ wpc' \in {"forget", "report"} => disk'[hand'.id].ended
                      /\ wpc' = "report" => hand'.id \notin unsynced' /\ hand'.id \notin openRuns'
                      /\ \A id \in openRuns' : mem'[id].before <= mem'[id].shown
    BY DEF EndInv
  <2>0. /\ lives' = lives /\ ~abandoned /\ EndInv /\ HandInv /\ MemInv /\ TypeOK
        /\ disk \in [Ids -> [made : BOOLEAN, ended : BOOLEAN, drops : Nat]]
        /\ mem \in [Ids -> [made : BOOLEAN, ended : BOOLEAN, before : Nat, shown : Nat]]
        /\ openRuns \subseteq Ids
    BY <1>2, LifeKept, TypeFacts DEF StoreInv
  <2>1. KeepsEnd(rec)' /\ KeepsEnd(counts["writer"].rec)'
    BY <1>2, RecKeepsEnd, CountKeepsEnd
  <2>2. ASSUME wpc' \in {"forget", "report"} PROVE disk'[hand'.id].ended
    <3>1. CASE WriteRecord
      <4>1. /\ hand.kind = "end" /\ hand' = hand /\ RunJson(rec) /\ rec.id = hand.id /\ wpc = "record"
            /\ hand.id \in Ids
        BY <2>0, <2>2, <3>1, HandFacts DEF WriteRecord, HandInv, Handling
      <4>2. rec.ended = TRUE
        BY <2>0, <4>1 DEF HandInv
      <4> QED BY <2>0, <4>1, <4>2 DEF RunJson
    <3>2. CASE ~WriteRecord
      <4>1. wpc \in {"forget", "report"} /\ hand' = hand
        BY <1>2, <2>2, <3>2
        DEF Next, Writer, Closing, vars, WriterStays, WriterStops, CountStays, CloserStays, Put,
            Take, Release, HandleStart, DropLateStart, DropAlienStart, HandleEnd, HandleEvent,
            HandleRaises, WriteRecordFails, AppendLine, AppendFails, ForgetEnded, Report, DropHand,
            Sync, TakeSentinel, CountRun, WriteCount, Finish, StopAbandoned, Close, PutSentinel,
            Joined, Abandon, Drain, Drained, GiveUp
      <4>2. disk' = disk
        BY <1>2, <3>2, <4>1, WhoWrites
      <4> QED BY <2>0, <4>1, <4>2 DEF EndInv
    <3> QED BY <3>1, <3>2
  <2>3. ASSUME wpc' = "report" PROVE hand'.id \notin unsynced' /\ hand'.id \notin openRuns'
    <3>1. CASE ForgetEnded
      BY <3>1 DEF ForgetEnded, Forget
    <3>2. CASE ~ForgetEnded
      <4>1. ~Drain /\ ~Drained /\ ~GiveUp /\ ~WriteCount("closer")
            /\ \A id \in Ids : ~CountRun("closer", id)
        BY <2>0, CloserWaits
      <4>2. ~WriteCount("writer") \/ wpc = "counts"
        BY CountFacts DEF WriteCount, Threads
      <4>3. wpc = "report" /\ hand' = hand /\ unsynced' = unsynced /\ openRuns' = openRuns
        BY <1>2, <2>3, <3>2, <4>1, <4>2
        DEF Next, Writer, Closing, vars, WriterStays, WriterStops, CountStays, CloserStays, Put,
            Take, Release, HandleStart, DropLateStart, DropAlienStart, HandleEnd, HandleEvent,
            HandleRaises, WriteRecord, WriteRecordFails, AppendLine, AppendFails, Report, DropHand,
            Sync, TakeSentinel, CountRun, WriteCount, Counting, Finish, StopAbandoned, Close,
            PutSentinel, Joined, Abandon
      <4> QED BY <2>0, <4>3 DEF EndInv
    <3> QED BY <3>1, <3>2
  <2>4. ASSUME NEW id \in openRuns' PROVE mem'[id].before <= mem'[id].shown
    <3>0. id \in Ids
      BY <2>4, RecordTypesStep
    <3>1. CASE UNCHANGED <<openRuns, mem, disk>>
      BY <2>0, <2>4, <3>1 DEF EndInv
    <3>2. ASSUME NEW x \in Ids, Open(x), disk' = disk PROVE mem'[id].before <= mem'[id].shown
      <4>1. mem'[id] = Entry(id)
        BY <2>0, <2>4, <3>0, <3>2 DEF Open, Entry
      <4>2. CASE id \in openRuns
        BY <2>0, <4>1, <4>2 DEF EndInv, Entry
      <4>3. CASE id \notin openRuns
        <5>1. disk[id].drops \in Nat
          BY <2>0, <3>0
        <5> QED BY <4>1, <4>3, <5>1 DEF Entry
      <4> QED BY <4>2, <4>3
    <3>3. ASSUME NEW x \in Ids, openRuns' = openRuns \ {x}, mem' = [mem EXCEPT ![x] = NoEntry]
          PROVE  mem'[id].before <= mem'[id].shown
      BY <2>0, <2>4, <3>0, <3>3 DEF EndInv
    <3>4. ASSUME NEW r \in Writes, RunJson(r), openRuns' = openRuns, r.id \in Ids,
                 r \in {rec, counts["writer"].rec}
          PROVE  mem'[id].before <= mem'[id].shown
      <4>1. CASE id # r.id
        BY <2>0, <2>4, <3>0, <3>4, <4>1 DEF RunJson, EndInv
      <4>2. CASE id = r.id
        <5>1. mem'[id] = [mem[id] EXCEPT !.made = TRUE, !.ended = r.ended, !.shown = r.drops]
          BY <2>0, <3>0, <3>4, <4>2 DEF RunJson
        <5>2. mem'[id].before = mem[id].before /\ mem'[id].shown = r.drops
          BY <2>0, <3>0, <5>1
        <5>3. Entry(r.id).before <= r.drops
          BY <2>0, <3>4, NoWriteFacts DEF EndInv, KeepsEnd
        <5> QED BY <2>4, <3>4, <4>2, <5>2, <5>3 DEF Entry
      <4> QED BY <4>1, <4>2
    <3>5. ~WriteCount("closer")
      BY <2>0, CloserWaits
    <3> QED BY <2>0, <3>1, <3>2, <3>3, <3>4, <3>5, RunSteps
  <2> QED BY <2>1, <2>2, <2>3, <2>4
<1> QED BY <1>1, <1>2

\* What the writer finds dropped when it takes the sentinel is on disk, on its way
\* there, still to do or failed.
LEMMA AtCloseStep ==
    ASSUME StoreInv, [Next]_vars
    PROVE  AtCloseInv'
<1> USE DEF lockVars, countVars, writerVars, runVars, closeVars, histVars, endVars
<1> DEFINE Told(id) ==
               /\ counts'["writer"].rec.id = id =>
                     counts'["writer"].rec.drops >= base'[id] + dropsAtClose'[id]
               /\ \/ disk'[id].drops >= base'[id] + dropsAtClose'[id]
                  \/ id \in counts'["writer"].todo
                  \/ counts'["writer"].rec.id = id
                  \/ id \in unshown'
<1>0. /\ class' = class /\ AtCloseInv /\ TypeOK /\ MemInv /\ Ids \subseteq Keys
      /\ counts \in [Threads -> [todo : SUBSET Ids, rec : Writes]]
      /\ disk \in [Ids -> [made : BOOLEAN, ended : BOOLEAN, drops : Nat]]
      /\ lifeDrops \in [Keys -> Nat] /\ dropsAtClose \in [Ids -> Nat] /\ base \in [Ids -> Nat]
  BY TypeFacts, PlainTypesStep, HandFacts DEF StoreInv, TypeOK
<1>1. ASSUME NEW id \in Ids PROVE dropsAtClose'[id] <= lifeDrops'[id]
  <2>1. CASE Restart
    BY <1>0, <2>1 DEF Restart
  <2>2. CASE TakeSentinel
    BY <1>0, <2>2 DEF TakeSentinel
  <2>3. CASE ~Restart /\ ~TakeSentinel
    <3>1. dropsAtClose' = dropsAtClose
      BY <2>3
      DEF Next, Writer, Closing, vars, WriterStays, WriterStops, CountStays, CloserStays, Put,
          Take, Release, HandleStart, DropLateStart, DropAlienStart, HandleEnd, HandleEvent,
          HandleRaises, WriteRecord, WriteRecordFails, AppendLine, AppendFails, ForgetEnded, Report,
          DropHand, Sync, CountRun, WriteCount, Finish, StopAbandoned, Close, PutSentinel, Joined,
          Abandon, Drain, Drained, GiveUp
    <3>2. lifeDrops[id] <= lifeDrops'[id]
      <4>1. CASE WriteCount("closer")
        BY <1>0, <4>1 DEF WriteCount, CountStays
      <4>2. CASE ~WriteCount("closer")
        BY <2>3, <4>2, LifeKept, CountsKept
      <4> QED BY <4>1, <4>2
    <3>3. dropsAtClose[id] <= lifeDrops[id]
      BY <1>0 DEF AtCloseInv
    <3>4. lifeDrops[id] \in Nat /\ lifeDrops'[id] \in Nat /\ dropsAtClose[id] \in Nat
      BY <1>0, DropTypesStep
    <3> QED BY <3>1, <3>2, <3>3, <3>4
  <2> QED BY <2>1, <2>2, <2>3
<1>2. ASSUME wpc' \in {"counts", "stopped"}, ~abandoned',
             NEW id \in Ids, class[id] = "own"
      PROVE  Told(id)
  <2>0. ~Restart
    BY <1>2 DEF Restart
  <2>1. base' = base /\ ~abandoned /\ lives' = lives
    BY <1>2, <2>0, LifeKept
  <2>2. /\ Entry(id).before + runDrops[id] = base[id] + lifeDrops[id]
        /\ Entry(id).before \in Nat /\ runDrops[id] \in Nat /\ Entry(id).shown = disk[id].drops
        /\ base[id] \in Nat /\ lifeDrops[id] \in Nat /\ dropsAtClose[id] \in Nat
        /\ disk[id].drops \in Nat /\ dropsAtClose[id] <= lifeDrops[id]
    BY <1>0, <1>2, <2>1, EntryFacts DEF StoreInv, DropsConserved, AtCloseInv
  <2>3. CASE TakeSentinel
    <3>1. /\ disk' = disk /\ dropsAtClose'[id] = lifeDrops[id]
          /\ counts'["writer"].todo = Dropped /\ counts'["writer"].rec = counts["writer"].rec
          /\ wpc = "idle"
      BY <1>0, <2>3 DEF TakeSentinel, Threads
    <3>4. counts'["writer"].rec.id # id
      <4>1. counts["writer"].rec = NoWrite
        BY <3>1, CountFacts DEF Threads
      <4> QED BY <3>1, <4>1, HandFacts DEF NoWrite
    <3>2. CASE runDrops[id] > 0
      BY <3>1, <3>2, <3>4 DEF Dropped
    <3>3. CASE runDrops[id] = 0
      <4>1. Entry(id).before <= disk[id].drops
        <5>1. CASE id \in openRuns
          BY <2>1, <2>2, <5>1 DEF StoreInv, EndInv, Entry
        <5>2. CASE id \notin openRuns
          BY <2>2, <5>2 DEF Entry
        <5> QED BY <5>1, <5>2
      <4>2. disk[id].drops >= base[id] + lifeDrops[id]
        BY <2>2, <3>3, <4>1
      <4> QED BY <2>1, <3>1, <3>4, <4>2
    <3> QED BY <2>2, <3>2, <3>3, <3>4
  <2>4. ASSUME wpc \in {"counts", "stopped"}
        PROVE  /\ counts["writer"].rec.id = id =>
                     counts["writer"].rec.drops >= base[id] + dropsAtClose[id]
               /\ \/ disk[id].drops >= base[id] + dropsAtClose[id]
                  \/ id \in counts["writer"].todo
                  \/ counts["writer"].rec.id = id
                  \/ id \in unshown
    BY <1>0, <1>2, <2>1, <2>4 DEF AtCloseInv
  <2>5. ASSUME NEW x \in Ids, CountRun("writer", x) PROVE Told(id)
    <3>1. /\ wpc = "counts" /\ dropsAtClose' = dropsAtClose /\ disk' = disk
          /\ unshown \subseteq unshown' /\ counts["writer"].rec = NoWrite
      BY <1>2, <2>5 DEF CountRun, CountStays, Counting
    <3>2. counts["writer"].rec.id # id
      BY <3>1, HandFacts DEF NoWrite
    <3>3. CASE id # x
      <4>1. counts'["writer"].todo = counts["writer"].todo \ {x}
        BY <1>0, <2>5 DEF CountRun, Threads
      <4>2. counts'["writer"].rec.id # id
        BY <1>0, <2>5, <3>1, <3>2, <3>3, HandFacts DEF CountRun, Threads, RecordOf, NoWrite
      <4> QED BY <2>1, <2>4, <3>1, <3>2, <3>3, <4>1, <4>2
    <3>4. CASE id = x
      <4>0. CASE id \in unshown' /\ counts'["writer"].rec = NoWrite
        BY <3>1, <3>2, <4>0
      <4>1. CASE counts'["writer"].rec = IF Entry(id).before + runDrops[id] # Entry(id).shown
                                    THEN RecordOf(id, Entry(id).ended) ELSE NoWrite
        <5>1. CASE Entry(id).before + runDrops[id] # Entry(id).shown
          <6>1. counts'["writer"].rec.id = id
                /\ counts'["writer"].rec.drops = Entry(id).before + runDrops[id]
            BY <4>1, <5>1 DEF RecordOf
          <6> QED BY <2>1, <2>2, <3>1, <6>1
        <5>2. CASE Entry(id).before + runDrops[id] = Entry(id).shown
          <6>1. disk[id].drops >= base[id] + dropsAtClose[id]
            BY <2>2, <5>2
          <6>2. counts'["writer"].rec.id # id
            BY <3>1, <3>2, <4>1, <5>2
          <6> QED BY <2>1, <3>1, <6>1, <6>2
        <5> QED BY <5>1, <5>2
      <4> QED BY <1>0, <2>5, <3>1, <3>4, <4>0, <4>1 DEF CountRun, Threads
    <3> QED BY <3>3, <3>4
  <2>6. CASE WriteCount("writer")
    <3>1. /\ wpc = "counts" /\ dropsAtClose' = dropsAtClose /\ unshown \subseteq unshown'
          /\ counts["writer"].rec # NoWrite
      BY <1>2, <2>6, CountFacts DEF WriteCount, CountStays, Threads
    <3>2. counts'["writer"].todo = counts["writer"].todo /\ counts'["writer"].rec.id # id
      BY <1>0, <2>6, HandFacts DEF WriteCount, NoWrite, Threads
    <3>3. CASE RunJson(counts["writer"].rec)
      <4>1. disk'[id].drops = IF id = counts["writer"].rec.id THEN counts["writer"].rec.drops
                              ELSE disk[id].drops
        BY <1>0, <3>3 DEF RunJson
      <4>2. CASE id = counts["writer"].rec.id
        BY <2>1, <2>4, <3>1, <3>2, <4>1, <4>2
      <4>3. CASE id # counts["writer"].rec.id
        BY <2>1, <2>4, <3>1, <3>2, <4>1, <4>3
      <4> QED BY <4>2, <4>3
    <3>4. CASE unshown' = unshown \cup {counts["writer"].rec.id} /\ disk' = disk
      BY <1>2, <2>1, <2>4, <3>1, <3>2, <3>4
    <3> QED BY <2>6, <3>3, <3>4 DEF WriteCount
  <2>7. CASE ~TakeSentinel /\ ~WriteCount("writer") /\ ~(\E x \in Ids : CountRun("writer", x))
    <3>1. ~Drain /\ ~Drained /\ ~GiveUp /\ ~WriteCount("closer")
          /\ \A x \in Ids : ~CountRun("closer", x)
      BY <2>1, CloserWaits
    <3>2. /\ wpc \in {"counts", "stopped"} /\ counts' = counts /\ unshown' = unshown
          /\ dropsAtClose' = dropsAtClose /\ ~WriteRecord
      BY <1>2, <2>0, <2>1, <2>7, <3>1
      DEF Next, Writer, Closing, vars, WriterStays, WriterStops, CloserStays, Put, Take, Release,
          HandleStart, DropLateStart, DropAlienStart, HandleEnd, HandleEvent, HandleRaises,
          WriteRecord, WriteRecordFails, AppendLine, AppendFails, ForgetEnded, Report, DropHand,
          Sync, Finish, Counted, Counting, StopAbandoned, Close, PutSentinel, Joined, Abandon
    <3>3. disk' = disk
      BY <1>2, <2>0, <2>7, <3>2, WhoWrites
    <3> QED BY <1>2, <2>1, <2>4, <3>2, <3>3
  <2> QED BY <2>3, <2>5, <2>6, <2>7
<1> QED BY <1>0, <1>1, <1>2 DEF AtCloseInv

-----------------------------------------------------------------------------
(* What follows. *)

\* The strengthened invariant holds whatever callers put, whatever fails and
\* however often the process dies and another opens the root.
THEOREM StoreInvariant == Spec => []StoreInv
<1>1. Init => StoreInv
  BY StoreInit
<1>2. StoreInv /\ [Next]_vars => StoreInv'
  <2> SUFFICES ASSUME StoreInv, [Next]_vars PROVE StoreInv'
    OBVIOUS
  <2>1. TypeOK' /\ BytesInv' /\ HandInv' /\ MemInv' /\ FlightInv' /\ ClosingInv'
    BY TypesStep, BytesStep, HandStep, MemStep, FlightStep, ClosingStep
  <2>2. DropsConserved' /\ EventsHaveRecord' /\ EndInv' /\ AtCloseInv' /\ EveryItemAccounted'
    BY ConsStep, RecordStep, EndStep, AtCloseStep, AccountStep
  <2> QED BY <2>1, <2>2 DEF StoreInv
<1> QED BY <1>1, <1>2, PTL DEF Spec

\* Every item put is waiting, in hand, handled or dropped, and just one of these,
\* whoever of the caller, the writer and close() drops it (stats()).
THEOREM ItemsAreAccounted == Spec => []EveryItemAccounted
<1>1. StoreInv => EveryItemAccounted
  BY DEF StoreInv
<1> QED BY <1>1, StoreInvariant, PTL

\* A run that is forgotten and resumed, in this process or the next, goes on where
\* its run.json says, with no drop lost or counted twice (_open, _forget).
THEOREM RunsAreResumed == Spec => []RunsResumeWhole
<1>1. StoreInv => RunsResumeWhole
  BY DEF StoreInv, RunsResumeWhole
<1> QED BY <1>1, StoreInvariant, PTL

\* The `ended` callback after a written end finds the run on disk, synced, and
\* nothing of it in memory (_ended).  Of the callback after an end that could not be
\* written, which comes as well, it says nothing.
THEOREM ReportIsOfRunOnDisk == Spec => []ReportFindsRunOnDisk
<1>1. StoreInv => ReportFindsRunOnDisk
  BY DEF StoreInv, EndInv, ReportFindsRunOnDisk
<1> QED BY <1>1, StoreInvariant, PTL

\* A writer that stops of itself leaves every run.json with the drops of its run,
\* all until the sentinel and none that did not happen (_finish).
THEOREM CountsReachDisk == Spec => []CountsOnDiskAtClose
<1>1. StoreInv => CountsOnDiskAtClose
  <2> SUFFICES ASSUME StoreInv, wpc = "stopped", ~abandoned,
                      NEW id \in Ids, id \notin unshown, class[id] = "own"
               PROVE  /\ disk[id].drops >= base[id] + dropsAtClose[id]
                      /\ disk[id].drops <= base[id] + lifeDrops[id]
    BY DEF CountsOnDiskAtClose
  <2>1. counts["writer"] = NoCount
    BY TypeFacts DEF FlightInv, Counting, Threads
  <2>2. counts["writer"].todo = {} /\ counts["writer"].rec.id # id
    BY <2>1, HandFacts DEF NoCount, NoWrite
  <2>3. disk[id].drops >= base[id] + dropsAtClose[id]
    BY <2>2 DEF StoreInv, AtCloseInv
  <2>4. Entry(id).before + runDrops[id] = base[id] + lifeDrops[id]
        /\ disk[id].drops <= Entry(id).before + runDrops[id]
    BY TypeFacts, EntryFacts DEF StoreInv, DropsConserved
  <2> QED BY <2>3, <2>4
<1> QED BY <1>1, StoreInvariant, PTL

\* What a run.json says of its run's end is never taken back while close() has not
\* given up: not by a late start, a late event, a count or a later process.
THEOREM EndStays == Spec => EndIsKept
<1>1. StoreInv /\ [Next]_vars
         => [~abandoned => \A id \in Ids : disk[id].ended => disk'[id].ended]_vars
  <2> SUFFICES ASSUME StoreInv, [Next]_vars, ~abandoned, NEW id \in Ids, disk[id].ended
               PROVE  disk'[id].ended
    OBVIOUS
  <2>0. /\ disk \in [Ids -> [made : BOOLEAN, ended : BOOLEAN, drops : Nat]]
        /\ KeepsEnd(rec) /\ KeepsEnd(counts["writer"].rec)
    BY TypeFacts DEF StoreInv, EndInv
  <2>1. CASE lives' # lives
    BY <2>1, LifeKept DEF Restart
  <2>2. ASSUME NEW r \in Writes, RunJson(r), r \in {rec, counts["writer"].rec}, r.id \in Ids
        PROVE  disk'[id].ended
    <3>1. CASE id = r.id
      BY <2>0, <2>2, <3>1, NoWriteFacts DEF RunJson, KeepsEnd
    <3>2. CASE id # r.id
      BY <2>0, <2>2, <3>2 DEF RunJson
    <3> QED BY <3>1, <3>2
  <2>3. ~WriteCount("closer")
    BY CloserWaits
  <2> QED BY <2>1, <2>2, <2>3, RunSteps
<1> QED BY <1>1, StoreInvariant, PTL DEF Spec, EndIsKept

=============================================================================
