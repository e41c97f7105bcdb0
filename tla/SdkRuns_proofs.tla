--------------------------- MODULE SdkRuns_proofs ---------------------------
(***************************************************************************)
(* Proofs about SdkRuns for every set of contexts and of run ids, any      *)
(* number of transports and any depth of blocks.                           *)
(***************************************************************************)
EXTENDS SdkRuns, SequenceTheorems, TLAPS

(* The inductive invariant, part by part. *)

Places == {"body", "starting", "labelling", "ending"}
Events == [what : {"start", "end", "request", "tool"}, block : Labels,
           outlives : BOOLEAN]

SdkTypes ==
    /\ replaying \in BOOLEAN /\ alive \subseteq Contexts /\ at \in [Contexts -> Places]
    /\ current \in [Contexts -> Labels]
    /\ entries \in [Contexts -> Seq(Entry)] /\ blocks \in [Contexts -> Seq(Runs)]
    /\ minted \subseteq RunIds /\ handed \subseteq Runs
    /\ tried \subseteq RunIds /\ cancelled \subseteq RunIds
    /\ posts \subseteq Post /\ paused \in BOOLEAN /\ faults \in Nat
    /\ patcher \subseteq Contexts /\ patches \in [1..Len(Transports) -> Nat]
    /\ installed \in BOOLEAN /\ wrapped \in Nat /\ depth \in Nat /\ hooked \subseteq Runs
    /\ work \in Nat
    /\ calls \subseteq [run : Labels, event : Events]
    /\ arrived \in [Labels -> Seq(Events)]

\* The blocks a context's code is in are those of its entries that opened a run,
\* in order: `where` says of each block which entry.  A token restores the run of
\* the block around.
Nested(es, bs, where) ==
    /\ where \in [1..Len(bs) -> 1..Len(es)]
    /\ \A m, n \in 1..Len(bs) : m < n => where[m] < where[n]
    /\ \A n \in 1..Len(bs) :
          /\ es[where[n]].run = bs[n]
          /\ es[where[n]].before = IF n = 1 THEN NoRun ELSE bs[n - 1]
    /\ \A i \in 1..Len(es) : es[i].run # NoRun => \E n \in 1..Len(bs) : where[n] = i
NestInv ==
    \A c \in Contexts :
        /\ \E where : Nested(entries[c], blocks[c], where)
        /\ current[c] = BlockRun(c)

\* A context that is posting is at the block it entered itself; one that does not
\* exist yet knows of none.
Placed(c) ==
    /\ c \notin alive => at[c] = "body" /\ entries[c] = <<>>
    /\ at[c] \in {"starting", "ending"} => InBlock(c) /\ Innermost(c).run \in RunIds
    /\ at[c] = "starting" => Innermost(c).before = NoRun
    /\ at[c] = "ending" => Innermost(c).run \in tried
    /\ \A i \in 1..Len(entries[c]) : entries[c][i].home \in alive
PlaceInv == \A c \in Contexts : Placed(c)

\* While the wrapping goes on, the blocks whose code runs are import hooks', and each
\* transport has been wrapped as often as `wrapped` says.
Entering(c) == at[c] \in {"starting", "labelling"}
HooksOrEntered(c) ==
    \A n \in 1..Len(blocks[c]) : blocks[c][n] \in hooked \/ (Entering(c) /\ n = Len(blocks[c]))
PatchInv ==
    /\ patcher # {} => ~installed
    /\ patcher = {} => wrapped = 0
    /\ ~installed =>
          /\ handed \subseteq hooked
          /\ \A c \in Contexts : HooksOrEntered(c)
          /\ \A i \in 1..Len(Transports) : patches[i] = IF i <= wrapped THEN 1 ELSE 0
    /\ \A i \in 1..Len(Transports) : patches[i] <= 1
    /\ \A i \in 1..Len(arrived[NoRun]) :
          arrived[NoRun][i].block # NoRun => installed \/ arrived[NoRun][i].block \in hooked

\* Calls and arrivals are of the block they were made in.
FiledInv ==
    /\ FiledUnderItsBlock
    /\ \A t \in calls : t.event.block = t.run /\ t.event.what = "tool"

\* A minted run is entered by one context at a time, moved or ended but not both,
\* and known of only once it is minted.
Owned(c, i) == entries[c][i].home = c /\ entries[c][i].run \in RunIds
OwnerInv ==
    /\ \A c, d \in Contexts : \A i \in 1..Len(entries[c]), j \in 1..Len(entries[d]) :
          Owned(c, i) /\ Owned(d, j) /\ entries[c][i].run = entries[d][j].run => c = d /\ i = j
    /\ \A c \in Contexts : \A i \in 1..Len(entries[c]) :
          /\ entries[c][i].run \in RunIds => entries[c][i].run \in minted
          /\ Owned(c, i) => entries[c][i].run \notin handed
          /\ Owned(c, i) /\ entries[c][i].run \in tried => at[c] = "ending" /\ i = Len(entries[c])
    /\ handed \cap RunIds \subseteq minted
    /\ handed \cap tried = {}
    /\ tried \subseteq minted
    /\ \A p \in posts : p.run \in minted
    /\ \A r \in RunIds \ minted : arrived[r] = <<>> /\ \A t \in calls : t.run # r

\* Each run has one start, which is on its way or arrived; while its caller waits
\* for it, nothing else of the run can have been sent.
StartInv ==
    /\ \A p \in posts : p.action = "start" =>
          /\ \A q \in posts : q.run = p.run /\ q.action = "start" => q = p
          /\ \A i \in 1..Len(arrived[p.run]) : arrived[p.run][i].what # "start"
          /\ ~p.late =>
                /\ arrived[p.run] = <<>>
                /\ p.run \notin handed \cup tried
                /\ \A t \in calls : t.run # p.run
                /\ \A c \in Contexts : \A i \in 1..Len(entries[c]) :
                      entries[c][i].run = p.run =>
                          at[c] = "starting" /\ entries[c][i].home = c /\ i = Len(entries[c])

\* And one end, once its context has left the block.
EndInv ==
    /\ \A p \in posts : p.action = "end" =>
          /\ p.run \in tried
          /\ \A q \in posts : q.run = p.run /\ q.action = "end" => q = p
          /\ \A i \in 1..Len(arrived[p.run]) : arrived[p.run][i].what # "end"
    /\ \A r \in RunIds : \A i \in 1..Len(arrived[r]) : arrived[r][i].what = "end" => r \in tried
    /\ paused => faults > 0

SdkInv ==
    /\ SdkTypes /\ NestInv /\ PlaceInv /\ PatchInv /\ FiledInv /\ OwnerInv
    /\ StartInv /\ EndInv /\ PostsBracketRequests /\ NoRunForgotten

-----------------------------------------------------------------------------
(* Lemmas. *)

\* The first m of a sequence are m.
LEMMA PrefixLength ==
    ASSUME NEW S, NEW s, NEW m \in Nat, \A i \in 1..m : s[i] \in S
    PROVE  Len(SubSeq(s, 1, m)) = m
<1>1. SubSeq(s, 1, m) \in Seq(S) /\ Len(SubSeq(s, 1, m)) = IF 1 <= m THEN m - 1 + 1 ELSE 0
  BY SubSeqProperties
<1>2. Len(SubSeq(s, 1, m)) \in Nat
  BY <1>1, LenProperties
<1>3. CASE m = 0
  BY <1>1, <1>3
<1>4. CASE m >= 1
  BY <1>1, <1>2, <1>4
<1> QED BY <1>3, <1>4

\* All but the last of a sequence.
LEMMA FrontFacts ==
    ASSUME NEW S, NEW s \in Seq(S), s # <<>>
    PROVE  /\ Len(s) \in Nat /\ Len(s) > 0
           /\ Front(s) \in Seq(S) /\ Len(Front(s)) = Len(s) - 1
           /\ \A i \in 1..Len(Front(s)) : Front(s)[i] = s[i]
           /\ Last(s) = s[Len(s)] /\ Last(s) \in S
<1>1. Len(s) \in Nat /\ Len(s) > 0
  BY EmptySeq, LenProperties
<1>2. Last(s) = s[Len(s)] /\ Last(s) \in S
  BY <1>1, ElementOfSeq DEF Last
<1>3. SubSeq(s, 1, Len(s) - 1) \in Seq(S)
  <2>1. \A i \in 1..(Len(s) - 1) : s[i] \in S
    BY <1>1, ElementOfSeq
  <2> QED BY <1>1, <2>1, SubSeqProperties
<1>4. Len(SubSeq(s, 1, Len(s) - 1)) = Len(s) - 1
  <2>1. Len(s) - 1 \in Nat /\ \A i \in 1..(Len(s) - 1) : s[i] \in S
    BY <1>1, ElementOfSeq
  <2> QED BY <2>1, PrefixLength
<1>5. \A i \in 1..(Len(s) - 1) : SubSeq(s, 1, Len(s) - 1)[i] = s[i]
  BY <1>1
<1> QED BY <1>1, <1>2, <1>3, <1>4, <1>5 DEF Front

\* What the constants are.
LEMMA LabelFacts ==
    /\ NoRun \in Labels /\ Runs \subseteq Labels /\ RunIds \subseteq Runs /\ NoRun \notin Runs
    /\ ReplayRun \in Runs /\ ReplayRun \notin RunIds /\ Root \in Contexts
<1> QED BY SdkAssumption DEF Labels, Runs

\* A context's innermost block.
LEMMA InnermostFacts ==
    ASSUME SdkTypes, NEW c \in Contexts, entries[c] # <<>>
    PROVE  /\ Innermost(c) \in Entry /\ Innermost(c) = entries[c][Len(entries[c])]
           /\ Len(entries[c]) \in Nat /\ Len(entries[c]) > 0
           /\ Front(entries[c]) \in Seq(Entry) /\ Len(Front(entries[c])) = Len(entries[c]) - 1
           /\ \A i \in 1..Len(Front(entries[c])) : Front(entries[c])[i] = entries[c][i]
           /\ Innermost(c).run \in Labels /\ Innermost(c).before \in Labels
           /\ Innermost(c).home \in Contexts
<1>1. entries[c] \in Seq(Entry)
  BY DEF SdkTypes
<1>2. /\ Len(entries[c]) \in Nat /\ Len(entries[c]) > 0
      /\ Front(entries[c]) \in Seq(Entry) /\ Len(Front(entries[c])) = Len(entries[c]) - 1
      /\ \A i \in 1..Len(Front(entries[c])) : Front(entries[c])[i] = entries[c][i]
      /\ Last(entries[c]) = entries[c][Len(entries[c])] /\ Last(entries[c]) \in Entry
  BY <1>1, FrontFacts
<1>3. \A e \in Entry : e.run \in Labels /\ e.before \in Labels /\ e.home \in Contexts
  BY DEF Entry
<1> QED BY <1>2, <1>3 DEF Innermost

\* A process that has ids left mints one that it has not.
LEMMA FreshIsNew ==
    ASSUME minted \subseteq RunIds, minted # RunIds
    PROVE  FreshRun \in RunIds /\ FreshRun \notin minted
<1> QED BY DEF FreshRun

\* The innermost block that a context opened is the last of its blocks, and its
\* token restores the block around it.
LEMMA InnermostBlock ==
    ASSUME SdkTypes, NEW c \in Contexts, NEW where, Nested(entries[c], blocks[c], where),
           entries[c] # <<>>, Innermost(c).run # NoRun
    PROVE  /\ blocks[c] # <<>> /\ Len(blocks[c]) \in Nat /\ Len(blocks[c]) > 0
           /\ where[Len(blocks[c])] = Len(entries[c])
           /\ Innermost(c).run = Last(blocks[c])
           /\ Innermost(c).before =
                 IF Front(blocks[c]) = <<>> THEN NoRun ELSE Last(Front(blocks[c]))
           /\ Front(blocks[c]) \in Seq(Runs) /\ Len(Front(blocks[c])) = Len(blocks[c]) - 1
           /\ \A n \in 1..Len(Front(blocks[c])) : Front(blocks[c])[n] = blocks[c][n]
<1>1. /\ Len(entries[c]) \in Nat /\ Len(entries[c]) > 0
      /\ Innermost(c) = entries[c][Len(entries[c])]
  BY InnermostFacts
<1>2. PICK n \in 1..Len(blocks[c]) : where[n] = Len(entries[c])
  BY <1>1 DEF Nested
<1>3. blocks[c] \in Seq(Runs) /\ Len(blocks[c]) \in Nat
  BY LenProperties DEF SdkTypes
<1>4. blocks[c] # <<>> /\ Len(blocks[c]) > 0
  BY <1>2, <1>3
<1>5. n = Len(blocks[c])
  <2>1. ASSUME n < Len(blocks[c]) PROVE FALSE
    <3>1. Len(blocks[c]) \in 1..Len(blocks[c])
      BY <1>3, <1>4
    <3>2. where[n] < where[Len(blocks[c])] /\ where[Len(blocks[c])] \in 1..Len(entries[c])
      BY <1>2, <2>1, <3>1 DEF Nested
    <3> QED BY <1>1, <1>2, <3>2
  <2> QED BY <1>2, <1>3, <2>1
<1>6. /\ Front(blocks[c]) \in Seq(Runs) /\ Len(Front(blocks[c])) = Len(blocks[c]) - 1
      /\ \A m \in 1..Len(Front(blocks[c])) : Front(blocks[c])[m] = blocks[c][m]
      /\ Last(blocks[c]) = blocks[c][Len(blocks[c])]
  BY <1>3, <1>4, FrontFacts
<1>7. /\ entries[c][where[n]].run = blocks[c][n]
      /\ entries[c][where[n]].before = IF n = 1 THEN NoRun ELSE blocks[c][n - 1]
  BY <1>2 DEF Nested
<1>8. Innermost(c).before = IF Front(blocks[c]) = <<>> THEN NoRun ELSE Last(Front(blocks[c]))
  <2>1. CASE n = 1
    <3>1. Front(blocks[c]) = <<>>
      BY <1>3, <1>5, <1>6, <2>1, EmptySeq
    <3> QED BY <1>1, <1>2, <1>7, <2>1, <3>1
  <2>2. CASE n # 1
    <3>0. n \in Nat /\ n > 0
      BY <1>3, <1>4, <1>5
    <3>1. Len(Front(blocks[c])) = n - 1
      BY <1>5, <1>6
    <3>4. n - 1 \in Nat /\ n - 1 # 0
      BY <2>2, <3>0
    <3>5. n - 1 \in 1..(n - 1)
      BY <3>4
    <3>2. Front(blocks[c]) # <<>>
      BY <3>1, <3>4, EmptySeq
    <3>3. Last(Front(blocks[c])) = blocks[c][n - 1]
      BY <1>6, <3>1, <3>5 DEF Last
    <3> QED BY <1>1, <1>2, <1>7, <2>2, <3>2, <3>3
  <2> QED BY <2>1, <2>2
<1> QED BY <1>1, <1>2, <1>3, <1>4, <1>5, <1>6, <1>7, <1>8

\* A run that a context's code is in is one of its entries'.
LEMMA BlockIsEntered ==
    ASSUME SdkTypes, NestInv, NEW c \in Contexts, BlockRun(c) # NoRun
    PROVE  /\ BlockRun(c) \in Runs
           /\ \E i \in 1..Len(entries[c]) : entries[c][i].run = BlockRun(c)
<1>1. PICK where : Nested(entries[c], blocks[c], where)
  BY DEF NestInv
<1>2. blocks[c] \in Seq(Runs) /\ blocks[c] # <<>> /\ BlockRun(c) = Last(blocks[c])
  BY DEF SdkTypes, BlockRun
<1>3. Len(blocks[c]) \in 1..Len(blocks[c]) /\ BlockRun(c) = blocks[c][Len(blocks[c])]
      /\ BlockRun(c) \in Runs
  <2>1. /\ Len(blocks[c]) \in Nat /\ Len(blocks[c]) > 0
        /\ Last(blocks[c]) = blocks[c][Len(blocks[c])] /\ Last(blocks[c]) \in Runs
    BY <1>2, FrontFacts
  <2> QED BY <1>2, <2>1
<1>4. where[Len(blocks[c])] \in 1..Len(entries[c])
      /\ entries[c][where[Len(blocks[c])]].run = blocks[c][Len(blocks[c])]
  BY <1>1, <1>3 DEF Nested
<1> QED BY <1>3, <1>4

-----------------------------------------------------------------------------
(* What a step does to the contexts' blocks. *)

\* Nothing, or one context joins, opens, leaves or hands on a block, or a task is
\* spawned.
Pushed(c, e) == entries' = [entries EXCEPT ![c] = Append(@, e)]
Popped(c) == entries' = [entries EXCEPT ![c] = Front(@)]

JoinsOne(c) ==
    /\ c \in alive /\ Pushed(c, [run |-> NoRun, before |-> NoRun, home |-> c])
    /\ UNCHANGED <<alive, at, current, blocks>>
OpensOne(c, r) ==
    /\ c \in alive /\ Open(c, r) /\ alive' = alive /\ at[c] = "body"
    /\ \A d \in Contexts : d # c => at'[d] = at[d]
LeavesJoined(c) ==
    /\ entries[c] # <<>> /\ Innermost(c).run = NoRun /\ Popped(c)
    /\ at[c] = "body" /\ UNCHANGED <<alive, at, current, blocks>>
ClosesOne(c) ==
    /\ InBlock(c) /\ Innermost(c).run \in Runs /\ Close(c) /\ alive' = alive /\ at'[c] = "body"
    /\ \A d \in Contexts : d # c => at'[d] = at[d]
SpawnsOne(c, d) == Spawn(c, d)

\* Every step leaves the blocks alone, or one context joins, opens or closes one or
\* spawns another.
LEMMA ContextSteps ==
    ASSUME SdkTypes, PlaceInv, [Next]_vars
    PROVE  \/ UNCHANGED <<alive, current, entries, blocks>>
           \/ \E c \in Contexts : JoinsOne(c) \/ LeavesJoined(c) \/ ClosesOne(c)
           \/ \E c \in Contexts, r \in Runs : OpensOne(c, r)
           \/ \E c, d \in Contexts : SpawnsOne(c, d)
<1> USE DEF contextVars, postVars, patchVars, runVars, workVars
<1>0. at \in [Contexts -> Places] /\ minted \subseteq RunIds
  BY DEF SdkTypes
<1>1. ASSUME NEW c \in Contexts, Join(c) PROVE JoinsOne(c)
  BY <1>1 DEF Join, JoinsOne, MayEnter, Pushed
<1>2. ASSUME NEW c \in Contexts, Adopt(c) PROVE OpensOne(c, ReplayRun)
  BY <1>0, <1>2 DEF Adopt, OpensOne, MayEnter
<1>3. ASSUME NEW c \in Contexts, Mint(c) PROVE OpensOne(c, FreshRun) /\ FreshRun \in Runs
  BY <1>0, <1>3, FreshIsNew, LabelFacts DEF Mint, OpensOne, MayEnter
<1>4. ASSUME NEW c \in Contexts, NEW r \in Runs, Await(c, r) PROVE OpensOne(c, r)
  BY <1>0, <1>4 DEF Await, OpensOne, MayEnter
<1>5. ASSUME NEW c \in Contexts, LeaveJoined(c) PROVE LeavesJoined(c)
  BY <1>5 DEF LeaveJoined, LeavesJoined, InBlock, Popped
<1>6. ASSUME NEW c \in Contexts,
             LeaveAdopted(c) \/ EndPosted(c) \/ CancelStart(c) \/ CancelEnd(c) \/ HandOff(c)
      PROVE  ClosesOne(c)
  BY <1>0, <1>6, LabelFacts
  DEF LeaveAdopted, EndPosted, CancelStart, CancelEnd, HandOff, ClosesOne, PlaceInv, Placed
<1>7. ASSUME NEW c \in Contexts, NEW d \in Contexts, Spawn(c, d) PROVE SpawnsOne(c, d)
  BY <1>7 DEF SpawnsOne
<1>8. CASE UNCHANGED <<alive, current, entries, blocks>>
  BY <1>8
<1>9. ASSUME NEW c \in Contexts,
             StartPosted(c) \/ Leave(c) \/ Labelling(c) \/ Hooking(c) \/ CallTool(c)
             \/ (\E i \in 1..Len(Transports) : Request(c, i))
      PROVE  UNCHANGED <<alive, current, entries, blocks>>
  BY <1>9
  DEF StartPosted, Leave, Labelling, Labelled, LabelledInHook, BeginPatching, EndPatching,
      Hooking, Instrument, RunHook, EndHook, CallTool, Request
<1>10. CASE (\E t \in calls : FinishTool(t)) \/ Posting \/ PostingLate \/ ResumePosts
            \/ UNCHANGED vars
  BY <1>10 DEF FinishTool, Posting, PostingLate, HandlePost, LosePost, ResumePosts, vars
<1> QED
  BY <1>1, <1>2, <1>3, <1>4, <1>5, <1>6, <1>7, <1>8, <1>9, <1>10, LabelFacts DEF Next, Blocks

-----------------------------------------------------------------------------
(* The blocks that a context's code is in are those of its entries. *)

\* A block that is entered is the innermost.
LEMMA NestedPush ==
    ASSUME NEW es \in Seq(Entry), NEW bs \in Seq(Runs), NEW where, Nested(es, bs, where),
           NEW r \in Runs, NEW e \in Entry, e.run = r,
           e.before = IF bs = <<>> THEN NoRun ELSE Last(bs)
    PROVE  \E w : Nested(Append(es, e), Append(bs, r), w)
<1> DEFINE ee == Append(es, e)
           bb == Append(bs, r)
           w == [n \in 1..(Len(bs) + 1) |-> IF n = Len(bs) + 1 THEN Len(es) + 1 ELSE where[n]]
<1>1. /\ Len(es) \in Nat /\ Len(ee) = Len(es) + 1 /\ ee[Len(es) + 1] = e
      /\ \A i \in 1..Len(es) : ee[i] = es[i]
  BY AppendProperties, LenProperties
<1>2. /\ Len(bs) \in Nat /\ Len(bb) = Len(bs) + 1 /\ bb[Len(bs) + 1] = r
      /\ \A i \in 1..Len(bs) : bb[i] = bs[i]
  BY AppendProperties, LenProperties
<1>3. /\ \A n \in 1..Len(bs) : where[n] \in 1..Len(es)
      /\ \A m, n \in 1..Len(bs) : m < n => where[m] < where[n]
      /\ \A n \in 1..Len(bs) :
            /\ es[where[n]].run = bs[n]
            /\ es[where[n]].before = IF n = 1 THEN NoRun ELSE bs[n - 1]
      /\ \A i \in 1..Len(es) : es[i].run # NoRun => \E n \in 1..Len(bs) : where[n] = i
  BY DEF Nested
<1>4. /\ \A n \in 1..Len(bs) : n \in 1..(Len(bs) + 1) /\ n # Len(bs) + 1
      /\ Len(bs) + 1 \in 1..(Len(bs) + 1)
      /\ \A n \in 1..(Len(bs) + 1) : n = Len(bs) + 1 \/ n \in 1..Len(bs)
  BY <1>2
<1>5. /\ \A n \in 1..Len(bs) : w[n] = where[n]
      /\ w[Len(bs) + 1] = Len(es) + 1
  BY <1>4
<1>6. w \in [1..Len(bb) -> 1..Len(ee)]
  BY <1>1, <1>2, <1>3
<1> HIDE DEF w, ee, bb
<1>7. ASSUME NEW m \in 1..Len(bb), NEW n \in 1..Len(bb), m < n PROVE w[m] < w[n]
  <2>1. m \in 1..Len(bs)
    BY <1>2, <1>7
  <2>2. CASE n \in 1..Len(bs)
    BY <1>3, <1>5, <1>7, <2>1, <2>2
  <2>3. CASE n = Len(bs) + 1
    BY <1>1, <1>3, <1>5, <2>1, <2>3
  <2> QED BY <1>2, <1>4, <2>2, <2>3
<1>8. ASSUME NEW n \in 1..Len(bb)
      PROVE  /\ ee[w[n]].run = bb[n]
             /\ ee[w[n]].before = IF n = 1 THEN NoRun ELSE bb[n - 1]
  <2>1. CASE n \in 1..Len(bs)
    <3>1. n # 1 => n - 1 \in 1..Len(bs)
      BY <1>2, <2>1
    <3>2. ee[w[n]] = es[where[n]] /\ bb[n] = bs[n] /\ (n # 1 => bb[n - 1] = bs[n - 1])
      BY <1>1, <1>2, <1>3, <1>5, <2>1, <3>1
    <3> QED BY <1>3, <2>1, <3>2
  <2>2. CASE n = Len(bs) + 1
    <3>1. ee[w[n]] = e /\ bb[n] = r
      BY <1>1, <1>2, <1>5, <2>2
    <3>2. e.before = IF n = 1 THEN NoRun ELSE bb[n - 1]
      <4>1. CASE bs = <<>>
        BY <1>2, <2>2, <4>1, EmptySeq
      <4>2. CASE bs # <<>>
        <5>1. Len(bs) > 0
          BY <1>2, <4>2, EmptySeq
        <5>2. n # 1 /\ n - 1 = Len(bs) /\ Len(bs) \in 1..Len(bs)
          BY <1>2, <2>2, <5>1
        <5> QED BY <1>2, <4>2, <5>2 DEF Last
      <4> QED BY <4>1, <4>2
    <3> QED BY <3>1, <3>2
  <2> QED BY <1>2, <1>4, <2>1, <2>2
<1>9. ASSUME NEW i \in 1..Len(ee), ee[i].run # NoRun PROVE \E n \in 1..Len(bb) : w[n] = i
  <2>1. CASE i \in 1..Len(es)
    <3>1. es[i].run # NoRun
      BY <1>1, <1>9, <2>1
    <3>2. PICK n \in 1..Len(bs) : where[n] = i
      BY <1>3, <2>1, <3>1
    <3>3. n \in 1..Len(bb) /\ w[n] = i
      BY <1>2, <1>4, <1>5, <3>2
    <3> QED BY <3>3
  <2>2. CASE i = Len(es) + 1
    BY <1>2, <1>4, <1>5, <2>2
  <2> QED BY <1>1, <2>1, <2>2
<1>10. Nested(ee, bb, w)
  BY <1>6, <1>7, <1>8, <1>9, Zenon DEF Nested
<1> QED BY <1>10 DEF ee, bb

\* Joining a run changes nothing of that.
LEMMA NestedJoin ==
    ASSUME NEW es \in Seq(Entry), NEW bs \in Seq(Runs), NEW where, Nested(es, bs, where),
           NEW e \in Entry, e.run = NoRun
    PROVE  Nested(Append(es, e), bs, where)
<1> DEFINE ee == Append(es, e)
<1>1. /\ Len(es) \in Nat /\ Len(ee) = Len(es) + 1 /\ ee[Len(es) + 1] = e
      /\ \A i \in 1..Len(es) : ee[i] = es[i]
  BY AppendProperties, LenProperties
<1>2. /\ where \in [1..Len(bs) -> 1..Len(es)]
      /\ \A m, n \in 1..Len(bs) : m < n => where[m] < where[n]
      /\ \A n \in 1..Len(bs) :
            /\ es[where[n]].run = bs[n]
            /\ es[where[n]].before = IF n = 1 THEN NoRun ELSE bs[n - 1]
      /\ \A i \in 1..Len(es) : es[i].run # NoRun => \E n \in 1..Len(bs) : where[n] = i
  BY DEF Nested
<1> HIDE DEF ee
<1>3. where \in [1..Len(bs) -> 1..Len(ee)]
  BY <1>1, <1>2
<1>4. \A n \in 1..Len(bs) : ee[where[n]] = es[where[n]]
  BY <1>1, <1>2
<1>5. \A i \in 1..Len(ee) : ee[i].run # NoRun => \E n \in 1..Len(bs) : where[n] = i
  BY <1>1, <1>2
<1>6. Nested(ee, bs, where)
  BY <1>2, <1>3, <1>4, <1>5 DEF Nested
<1> QED BY <1>6 DEF ee

\* Nor does leaving a block that joined one.
LEMMA NestedLeave ==
    ASSUME NEW es \in Seq(Entry), NEW bs \in Seq(Runs), NEW where, Nested(es, bs, where),
           es # <<>>, Last(es).run = NoRun
    PROVE  Nested(Front(es), bs, where)
<1>1. /\ Len(es) \in Nat /\ Len(es) > 0 /\ Len(Front(es)) = Len(es) - 1
      /\ \A i \in 1..Len(Front(es)) : Front(es)[i] = es[i]
      /\ Last(es) = es[Len(es)]
  BY FrontFacts
<1>2. /\ where \in [1..Len(bs) -> 1..Len(es)]
      /\ \A m, n \in 1..Len(bs) : m < n => where[m] < where[n]
      /\ \A n \in 1..Len(bs) :
            /\ es[where[n]].run = bs[n]
            /\ es[where[n]].before = IF n = 1 THEN NoRun ELSE bs[n - 1]
      /\ \A i \in 1..Len(es) : es[i].run # NoRun => \E n \in 1..Len(bs) : where[n] = i
  BY DEF Nested
<1>3. \A n \in 1..Len(bs) : bs[n] # NoRun
  BY ElementOfSeq, LabelFacts
<1>4. \A n \in 1..Len(bs) : where[n] # Len(es)
  BY <1>1, <1>2, <1>3
<1>5. where \in [1..Len(bs) -> 1..Len(Front(es))]
  <2>1. \A k \in 1..Len(es) : k # Len(es) => k \in 1..(Len(es) - 1)
    BY <1>1
  <2>2. \A n \in 1..Len(bs) : where[n] \in 1..(Len(es) - 1)
    BY <1>2, <1>4, <2>1
  <2> QED BY <1>1, <1>2, <2>2
<1>6. \A n \in 1..Len(bs) : Front(es)[where[n]] = es[where[n]]
  BY <1>1, <1>5
<1>7. \A i \in 1..Len(Front(es)) : i \in 1..Len(es) /\ Front(es)[i] = es[i]
  BY <1>1
<1> QED BY <1>2, <1>5, <1>6, <1>7 DEF Nested

\* And the innermost block is left with its entry.
LEMMA NestedPop ==
    ASSUME NEW es \in Seq(Entry), NEW bs \in Seq(Runs), NEW where, Nested(es, bs, where),
           es # <<>>, bs # <<>>, where[Len(bs)] = Len(es)
    PROVE  \E w : Nested(Front(es), Front(bs), w)
<1> DEFINE w == [n \in 1..(Len(bs) - 1) |-> where[n]]
<1>1. /\ Len(es) \in Nat /\ Len(es) > 0 /\ Len(Front(es)) = Len(es) - 1
      /\ \A i \in 1..Len(Front(es)) : Front(es)[i] = es[i]
  BY FrontFacts
<1>2. /\ Len(bs) \in Nat /\ Len(bs) > 0 /\ Len(Front(bs)) = Len(bs) - 1
      /\ \A i \in 1..Len(Front(bs)) : Front(bs)[i] = bs[i]
  BY FrontFacts
<1>3. /\ \A n \in 1..Len(bs) : where[n] \in 1..Len(es)
      /\ \A m, n \in 1..Len(bs) : m < n => where[m] < where[n]
      /\ \A n \in 1..Len(bs) :
            /\ es[where[n]].run = bs[n]
            /\ es[where[n]].before = IF n = 1 THEN NoRun ELSE bs[n - 1]
      /\ \A i \in 1..Len(es) : es[i].run # NoRun => \E n \in 1..Len(bs) : where[n] = i
  BY DEF Nested
<1>4. /\ \A n \in 1..Len(Front(bs)) : n \in 1..Len(bs) /\ n < Len(bs)
      /\ Len(bs) \in 1..Len(bs)
      /\ \A n \in 1..Len(bs) : n # Len(bs) => n \in 1..Len(Front(bs))
      /\ \A n \in 1..Len(Front(bs)) : n # 1 => n - 1 \in 1..Len(Front(bs))
  BY <1>2
<1>5. \A n \in 1..Len(Front(bs)) : w[n] = where[n]
  BY <1>2
<1>6. \A n \in 1..Len(Front(bs)) : where[n] \in 1..Len(Front(es))
  <2>1. \A n \in 1..Len(Front(bs)) : where[n] \in 1..Len(es) /\ where[n] < Len(es)
    BY <1>3, <1>4
  <2>2. \A k \in 1..Len(es) : k < Len(es) => k \in 1..Len(Front(es))
    BY <1>1
  <2> QED BY <2>1, <2>2
<1>7. w \in [1..Len(Front(bs)) -> 1..Len(Front(es))]
  BY <1>2, <1>6
<1> HIDE DEF w
<1>8. \A m, n \in 1..Len(Front(bs)) : m < n => w[m] < w[n]
  BY <1>3, <1>4, <1>5
<1>9. \A n \in 1..Len(Front(bs)) :
         /\ Front(es)[w[n]].run = Front(bs)[n]
         /\ Front(es)[w[n]].before = IF n = 1 THEN NoRun ELSE Front(bs)[n - 1]
  <2> TAKE n \in 1..Len(Front(bs))
  <2>1. Front(es)[w[n]] = es[where[n]] /\ Front(bs)[n] = bs[n] /\ n \in 1..Len(bs)
    BY <1>1, <1>2, <1>4, <1>5, <1>6
  <2>2. n # 1 => Front(bs)[n - 1] = bs[n - 1]
    BY <1>2, <1>4
  <2> QED BY <1>3, <2>1, <2>2
<1>10. ASSUME NEW i \in 1..Len(Front(es)), Front(es)[i].run # NoRun
       PROVE  \E n \in 1..Len(Front(bs)) : w[n] = i
  <2>1. i \in 1..Len(es) /\ i # Len(es) /\ es[i].run # NoRun
    BY <1>1, <1>10
  <2>2. PICK n \in 1..Len(bs) : where[n] = i
    BY <1>3, <2>1
  <2>3. n # Len(bs)
    BY <2>1, <2>2
  <2> QED BY <1>4, <1>5, <2>2, <2>3
<1>11. Nested(Front(es), Front(bs), w)
  BY <1>7, <1>8, <1>9, <1>10, Zenon DEF Nested
<1> QED BY <1>11

-----------------------------------------------------------------------------
(* Facts about the contexts' steps, context by context. *)

\* A block is entered.
LEMMA PushFacts ==
    ASSUME SdkTypes, NEW c \in Contexts, NEW e \in Entry, Pushed(c, e)
    PROVE  /\ entries' \in [Contexts -> Seq(Entry)]
           /\ entries'[c] = Append(entries[c], e)
           /\ Len(entries[c]) \in Nat /\ Len(entries'[c]) = Len(entries[c]) + 1
           /\ entries'[c] # <<>> /\ entries'[c][Len(entries[c]) + 1] = e
           /\ Last(entries'[c]) = e
           /\ \A i \in 1..Len(entries[c]) : entries'[c][i] = entries[c][i]
           /\ \A d \in Contexts : d # c => entries'[d] = entries[d]
<1>1. entries \in [Contexts -> Seq(Entry)] /\ entries[c] \in Seq(Entry)
  BY DEF SdkTypes
<1>2. entries'[c] = Append(entries[c], e) /\ \A d \in Contexts : d # c => entries'[d] = entries[d]
  BY <1>1 DEF Pushed
<1>3. /\ Append(entries[c], e) \in Seq(Entry) /\ Append(entries[c], e) # <<>>
      /\ Len(entries[c]) \in Nat /\ Len(Append(entries[c], e)) = Len(entries[c]) + 1
      /\ \A i \in 1..Len(entries[c]) : Append(entries[c], e)[i] = entries[c][i]
      /\ Append(entries[c], e)[Len(entries[c]) + 1] = e
  BY <1>1, AppendProperties, LenProperties
<1>4. entries' \in [Contexts -> Seq(Entry)]
  BY <1>1, <1>3 DEF Pushed
<1>5. Last(Append(entries[c], e)) = e
  BY <1>3 DEF Last
<1> QED BY <1>2, <1>3, <1>4, <1>5

\* A block is left.
LEMMA PopFacts ==
    ASSUME SdkTypes, NEW c \in Contexts, entries[c] # <<>>, Popped(c)
    PROVE  /\ entries' \in [Contexts -> Seq(Entry)]
           /\ entries'[c] = Front(entries[c])
           /\ Len(entries[c]) \in Nat /\ Len(entries[c]) > 0
           /\ Len(entries'[c]) = Len(entries[c]) - 1
           /\ \A i \in 1..Len(entries'[c]) :
                 /\ i \in 1..Len(entries[c]) /\ i # Len(entries[c])
                 /\ entries'[c][i] = entries[c][i]
           /\ \A d \in Contexts : d # c => entries'[d] = entries[d]
<1>1. entries \in [Contexts -> Seq(Entry)]
  BY DEF SdkTypes
<1>2. /\ Len(entries[c]) \in Nat /\ Len(entries[c]) > 0
      /\ Front(entries[c]) \in Seq(Entry) /\ Len(Front(entries[c])) = Len(entries[c]) - 1
      /\ \A i \in 1..Len(Front(entries[c])) : Front(entries[c])[i] = entries[c][i]
  BY InnermostFacts
<1>3. entries'[c] = Front(entries[c]) /\ \A d \in Contexts : d # c => entries'[d] = entries[d]
  BY <1>1 DEF Popped
<1>4. entries' \in [Contexts -> Seq(Entry)]
  BY <1>1, <1>2 DEF Popped
<1>5. \A i \in 1..Len(Front(entries[c])) : i \in 1..Len(entries[c]) /\ i # Len(entries[c])
  BY <1>2
<1> QED BY <1>2, <1>3, <1>4, <1>5

\* A run is opened.
LEMMA OpenFacts ==
    ASSUME SdkTypes, NestInv, NEW c \in Contexts, NEW r \in Runs, Open(c, r)
    PROVE  /\ \E e \in Entry :
                 /\ e = [run |-> r, before |-> current[c], home |-> c]
                 /\ e.run = r /\ e.before = current[c] /\ e.home = c /\ Pushed(c, e)
           /\ current' \in [Contexts -> Labels] /\ current'[c] = r
           /\ blocks' \in [Contexts -> Seq(Runs)] /\ blocks'[c] = Append(blocks[c], r)
           /\ blocks'[c] # <<>> /\ Last(blocks'[c]) = r
           /\ \A d \in Contexts : d # c => current'[d] = current[d] /\ blocks'[d] = blocks[d]
<1>1. /\ current \in [Contexts -> Labels] /\ blocks \in [Contexts -> Seq(Runs)]
      /\ blocks[c] \in Seq(Runs)
  BY DEF SdkTypes
<1>2. /\ Append(blocks[c], r) \in Seq(Runs) /\ Append(blocks[c], r) # <<>>
      /\ Len(Append(blocks[c], r)) = Len(blocks[c]) + 1
      /\ Append(blocks[c], r)[Len(blocks[c]) + 1] = r
  BY <1>1, AppendProperties
<1>3. /\ current' \in [Contexts -> Labels] /\ current'[c] = r
      /\ \A d \in Contexts : d # c => current'[d] = current[d]
  BY <1>1, LabelFacts DEF Open
<1>4. /\ blocks' \in [Contexts -> Seq(Runs)] /\ blocks'[c] = Append(blocks[c], r)
      /\ \A d \in Contexts : d # c => blocks'[d] = blocks[d]
  BY <1>1, <1>2 DEF Open
<1>5. [run |-> r, before |-> current[c], home |-> c] \in Entry
  BY <1>1, LabelFacts DEF Entry
<1>6. Last(Append(blocks[c], r)) = r
  BY <1>2 DEF Last
<1>7. Pushed(c, [run |-> r, before |-> current[c], home |-> c])
  BY DEF Open, Pushed
<1> QED BY <1>2, <1>3, <1>4, <1>5, <1>6, <1>7

\* A run is closed: the block around it is current again.
LEMMA CloseFacts ==
    ASSUME SdkTypes, NestInv, NEW c \in Contexts, InBlock(c), Innermost(c).run \in Runs, Close(c)
    PROVE  /\ Popped(c) /\ entries[c] # <<>>
           /\ current' \in [Contexts -> Labels] /\ current'[c] = Innermost(c).before
           /\ blocks' \in [Contexts -> Seq(Runs)] /\ blocks[c] # <<>>
           /\ blocks'[c] = Front(blocks[c])
           /\ Innermost(c).before = IF blocks'[c] = <<>> THEN NoRun ELSE Last(blocks'[c])
           /\ \A d \in Contexts : d # c => current'[d] = current[d] /\ blocks'[d] = blocks[d]
<1>1. current \in [Contexts -> Labels] /\ blocks \in [Contexts -> Seq(Runs)]
  BY DEF SdkTypes
<1>2. entries[c] # <<>> /\ Popped(c)
  BY DEF InBlock, Close, Popped
<1>3. PICK where : Nested(entries[c], blocks[c], where)
  BY DEF NestInv
<1>4. Innermost(c).run # NoRun /\ Innermost(c).before \in Labels
  BY <1>2, InnermostFacts, LabelFacts
<1>5. /\ blocks[c] # <<>>
      /\ Innermost(c).before =
            IF Front(blocks[c]) = <<>> THEN NoRun ELSE Last(Front(blocks[c]))
      /\ Front(blocks[c]) \in Seq(Runs)
  BY <1>2, <1>3, <1>4, InnermostBlock
<1>6. /\ blocks' \in [Contexts -> Seq(Runs)] /\ blocks'[c] = Front(blocks[c])
      /\ \A d \in Contexts : d # c => blocks'[d] = blocks[d]
  BY <1>1, <1>5 DEF Close
<1>7. /\ current' \in [Contexts -> Labels] /\ current'[c] = Innermost(c).before
      /\ \A d \in Contexts : d # c => current'[d] = current[d]
  BY <1>1, <1>4 DEF Close
<1> QED BY <1>2, <1>5, <1>6, <1>7

\* A task starts with a copy of another's blocks.
LEMMA SpawnFacts ==
    ASSUME SdkTypes, PlaceInv, NEW c \in Contexts, NEW d \in Contexts, Spawn(c, d)
    PROVE  /\ c # d /\ c \in alive /\ d \notin alive /\ at[c] = "body" /\ at[d] = "body"
           /\ entries[d] = <<>> /\ alive' = alive \cup {d} /\ at' = at
           /\ entries' \in [Contexts -> Seq(Entry)] /\ entries'[d] = entries[c]
           /\ current' \in [Contexts -> Labels] /\ current'[d] = current[c]
           /\ blocks' \in [Contexts -> Seq(Runs)] /\ blocks'[d] = blocks[c]
           /\ \A x \in Contexts : x # d => /\ entries'[x] = entries[x]
                                           /\ current'[x] = current[x] /\ blocks'[x] = blocks[x]
           /\ \A i \in 1..Len(entries[c]) : entries[c][i].home # d
<1>1. /\ current \in [Contexts -> Labels] /\ blocks \in [Contexts -> Seq(Runs)]
      /\ entries \in [Contexts -> Seq(Entry)]
  BY DEF SdkTypes
<1>2. /\ c # d /\ c \in alive /\ d \notin alive /\ at[c] = "body" /\ at[d] = "body"
      /\ entries[d] = <<>> /\ alive' = alive \cup {d} /\ at' = at
      /\ \A i \in 1..Len(entries[c]) : entries[c][i].home # d
  BY DEF Spawn, PlaceInv, Placed
<1>3. /\ entries' \in [Contexts -> Seq(Entry)] /\ entries'[d] = entries[c]
      /\ \A x \in Contexts : x # d => entries'[x] = entries[x]
  BY <1>1 DEF Spawn
<1>4. /\ current' \in [Contexts -> Labels] /\ current'[d] = current[c]
      /\ \A x \in Contexts : x # d => current'[x] = current[x]
  BY <1>1 DEF Spawn
<1>5. /\ blocks' \in [Contexts -> Seq(Runs)] /\ blocks'[d] = blocks[c]
      /\ \A x \in Contexts : x # d => blocks'[x] = blocks[x]
  BY <1>1 DEF Spawn
<1> QED BY <1>2, <1>3, <1>4, <1>5

\* What joining a run adds.
LEMMA JoinedEntry ==
    ASSUME NEW c \in Contexts
    PROVE  \E e \in Entry : /\ e = [run |-> NoRun, before |-> NoRun, home |-> c]
                            /\ e.run = NoRun /\ e.home = c
<1>1. [run |-> NoRun, before |-> NoRun, home |-> c] \in Entry
  BY LabelFacts DEF Entry
<1> QED BY <1>1

\* Every step keeps the blocks nested, and the innermost one current.
LEMMA NestStep ==
    ASSUME SdkTypes, NestInv, PlaceInv, [Next]_vars
    PROVE  NestInv'
<1> SUFFICES ASSUME NEW d \in Contexts
             PROVE  /\ \E w : Nested(entries'[d], blocks'[d], w)
                    /\ current'[d] = IF blocks'[d] = <<>> THEN NoRun ELSE Last(blocks'[d])
  BY DEF NestInv, BlockRun
<1>0. /\ \A c \in Contexts : \E w : Nested(entries[c], blocks[c], w)
      /\ \A c \in Contexts : current[c] = IF blocks[c] = <<>> THEN NoRun ELSE Last(blocks[c])
      /\ \A c \in Contexts : entries[c] \in Seq(Entry) /\ blocks[c] \in Seq(Runs)
  BY DEF NestInv, BlockRun, SdkTypes
<1>1. CASE UNCHANGED <<alive, current, entries, blocks>>
  BY <1>0, <1>1
<1>2. ASSUME NEW c \in Contexts, JoinsOne(c)
      PROVE  /\ \E w : Nested(entries'[d], blocks'[d], w)
             /\ current'[d] = IF blocks'[d] = <<>> THEN NoRun ELSE Last(blocks'[d])
  <2>1. PICK e \in Entry : e = [run |-> NoRun, before |-> NoRun, home |-> c] /\ e.run = NoRun
    BY JoinedEntry
  <2>2. /\ entries'[c] = Append(entries[c], e)
        /\ \A x \in Contexts : x # c => entries'[x] = entries[x]
    BY <1>2, <2>1, PushFacts DEF JoinsOne
  <2>3. current' = current /\ blocks' = blocks
    BY <1>2 DEF JoinsOne
  <2>4. CASE d # c
    BY <1>0, <2>2, <2>3, <2>4
  <2>5. CASE d = c
    <3>1. PICK w : Nested(entries[c], blocks[c], w)
      BY <1>0
    <3>2. Nested(Append(entries[c], e), blocks[c], w)
      BY <1>0, <2>1, <3>1, NestedJoin
    <3> QED BY <1>0, <2>2, <2>3, <2>5, <3>2
  <2> QED BY <2>4, <2>5
<1>3. ASSUME NEW c \in Contexts, LeavesJoined(c)
      PROVE  /\ \E w : Nested(entries'[d], blocks'[d], w)
             /\ current'[d] = IF blocks'[d] = <<>> THEN NoRun ELSE Last(blocks'[d])
  <2>1. entries[c] # <<>> /\ Last(entries[c]).run = NoRun /\ Popped(c)
        /\ current' = current /\ blocks' = blocks
    BY <1>3 DEF LeavesJoined, Innermost
  <2>2. /\ entries'[c] = Front(entries[c])
        /\ \A x \in Contexts : x # c => entries'[x] = entries[x]
    BY <2>1, PopFacts
  <2>3. CASE d # c
    BY <1>0, <2>1, <2>2, <2>3
  <2>4. CASE d = c
    <3>1. PICK w : Nested(entries[c], blocks[c], w)
      BY <1>0
    <3>2. Nested(Front(entries[c]), blocks[c], w)
      BY <1>0, <2>1, <3>1, NestedLeave
    <3> QED BY <1>0, <2>1, <2>2, <2>4, <3>2
  <2> QED BY <2>3, <2>4
<1>4. ASSUME NEW c \in Contexts, ClosesOne(c)
      PROVE  /\ \E w : Nested(entries'[d], blocks'[d], w)
             /\ current'[d] = IF blocks'[d] = <<>> THEN NoRun ELSE Last(blocks'[d])
  <2>1. /\ Popped(c) /\ entries[c] # <<>> /\ Innermost(c).run \in Runs
        /\ current'[c] = Innermost(c).before
        /\ blocks[c] # <<>> /\ blocks'[c] = Front(blocks[c])
        /\ Innermost(c).before = IF blocks'[c] = <<>> THEN NoRun ELSE Last(blocks'[c])
        /\ \A x \in Contexts : x # c => current'[x] = current[x] /\ blocks'[x] = blocks[x]
    BY <1>4, CloseFacts DEF ClosesOne
  <2>2. /\ entries'[c] = Front(entries[c])
        /\ \A x \in Contexts : x # c => entries'[x] = entries[x]
    BY <2>1, PopFacts
  <2>3. CASE d # c
    BY <1>0, <2>1, <2>2, <2>3
  <2>4. CASE d = c
    <3>1. PICK w : Nested(entries[c], blocks[c], w)
      BY <1>0
    <3>2. w[Len(blocks[c])] = Len(entries[c])
      BY <2>1, <3>1, InnermostBlock, LabelFacts
    <3>3. \E x : Nested(Front(entries[c]), Front(blocks[c]), x)
      BY <1>0, <2>1, <3>1, <3>2, NestedPop
    <3> QED BY <2>1, <2>2, <2>4, <3>3
  <2> QED BY <2>3, <2>4
<1>5. ASSUME NEW c \in Contexts, NEW r \in Runs, OpensOne(c, r)
      PROVE  /\ \E w : Nested(entries'[d], blocks'[d], w)
             /\ current'[d] = IF blocks'[d] = <<>> THEN NoRun ELSE Last(blocks'[d])
  <2>1. /\ \E e \in Entry : e.run = r /\ e.before = current[c] /\ Pushed(c, e)
        /\ current'[c] = r /\ blocks'[c] = Append(blocks[c], r)
        /\ blocks'[c] # <<>> /\ Last(blocks'[c]) = r
        /\ \A x \in Contexts : x # c => current'[x] = current[x] /\ blocks'[x] = blocks[x]
    BY <1>5, OpenFacts DEF OpensOne
  <2>2. PICK e \in Entry : e.run = r /\ e.before = current[c] /\ Pushed(c, e)
    BY <2>1
  <2>3. /\ entries'[c] = Append(entries[c], e)
        /\ \A x \in Contexts : x # c => entries'[x] = entries[x]
    BY <2>2, PushFacts
  <2>4. CASE d # c
    BY <1>0, <2>1, <2>3, <2>4
  <2>5. CASE d = c
    <3>1. PICK w : Nested(entries[c], blocks[c], w)
      BY <1>0
    <3>2. e.before = IF blocks[c] = <<>> THEN NoRun ELSE Last(blocks[c])
      BY <1>0, <2>2
    <3>3. \E x : Nested(Append(entries[c], e), Append(blocks[c], r), x)
      BY <1>0, <2>2, <3>1, <3>2, NestedPush
    <3> QED BY <2>1, <2>3, <2>5, <3>3
  <2> QED BY <2>4, <2>5
<1>6. ASSUME NEW c \in Contexts, NEW x \in Contexts, SpawnsOne(c, x)
      PROVE  /\ \E w : Nested(entries'[d], blocks'[d], w)
             /\ current'[d] = IF blocks'[d] = <<>> THEN NoRun ELSE Last(blocks'[d])
  <2>1. /\ entries'[x] = entries[c] /\ current'[x] = current[c] /\ blocks'[x] = blocks[c]
        /\ \A y \in Contexts : y # x => /\ entries'[y] = entries[y]
                                        /\ current'[y] = current[y] /\ blocks'[y] = blocks[y]
    BY <1>6, SpawnFacts DEF SpawnsOne
  <2> QED BY <1>0, <2>1
<1> QED BY <1>1, <1>2, <1>3, <1>4, <1>5, <1>6, ContextSteps

-----------------------------------------------------------------------------
(* Types. *)

\* What a context files and what a post says are of their types.
LEMMA EventTypes ==
    /\ \A c \in Contexts : \A what \in {"request", "tool"} : \A b \in Labels :
          /\ Event(what, c, b) \in Events
          /\ Event(what, c, b).what = what /\ Event(what, c, b).block = b
    /\ \A p \in Post : /\ p.run \in RunIds /\ p.run \in Labels /\ p.action \in {"start", "end"}
                       /\ PostEvent(p) \in Events /\ PostEvent(p).what = p.action
                       /\ PostEvent(p).block = p.run /\ PostEvent(p).outlives = p.late
<1>1. \A c \in Contexts : \A what \in {"request", "tool"} : \A b \in Labels :
          /\ Event(what, c, b) \in Events
          /\ Event(what, c, b).what = what /\ Event(what, c, b).block = b
  BY DEF Event, Events
<1>2. \A p \in Post : /\ p.run \in RunIds /\ p.run \in Labels /\ p.action \in {"start", "end"}
                      /\ p.late \in BOOLEAN
  BY LabelFacts DEF Post
<1>3. \A p \in Post : /\ PostEvent(p) \in Events /\ PostEvent(p).what = p.action
                      /\ PostEvent(p).block = p.run /\ PostEvent(p).outlives = p.late
  BY <1>2, LabelFacts DEF PostEvent, Events
<1> QED BY <1>1, <1>2, <1>3

\* Something of a run reaches irimi.
LEMMA ArrivesFacts ==
    ASSUME SdkTypes, NEW r \in Labels, NEW e \in Events, Arrives(r, e)
    PROVE  /\ arrived' \in [Labels -> Seq(Events)]
           /\ Len(arrived[r]) \in Nat /\ Len(arrived'[r]) = Len(arrived[r]) + 1
           /\ \A i \in 1..Len(arrived[r]) : arrived'[r][i] = arrived[r][i]
           /\ arrived'[r][Len(arrived[r]) + 1] = e
           /\ \A i \in 1..Len(arrived'[r]) : i \in 1..Len(arrived[r]) \/ i = Len(arrived[r]) + 1
           /\ \A x \in Labels : x # r => arrived'[x] = arrived[x]
<1>1. arrived \in [Labels -> Seq(Events)] /\ arrived[r] \in Seq(Events)
  BY DEF SdkTypes
<1>2. /\ Append(arrived[r], e) \in Seq(Events)
      /\ Len(arrived[r]) \in Nat /\ Len(Append(arrived[r], e)) = Len(arrived[r]) + 1
      /\ \A i \in 1..Len(arrived[r]) : Append(arrived[r], e)[i] = arrived[r][i]
      /\ Append(arrived[r], e)[Len(arrived[r]) + 1] = e
  BY <1>1, AppendProperties, LenProperties
<1>3. /\ arrived'[r] = Append(arrived[r], e)
      /\ \A x \in Labels : x # r => arrived'[x] = arrived[x]
      /\ arrived' \in [Labels -> Seq(Events)]
  BY <1>1, <1>2 DEF Arrives
<1>4. \A i \in 1..Len(Append(arrived[r], e)) : i \in 1..Len(arrived[r]) \/ i = Len(arrived[r]) + 1
  BY <1>2
<1> QED BY <1>2, <1>3, <1>4

\* What reaches irimi in a step: nothing, a post, a request or a tool call.
RequestArrives(c, i) ==
    /\ c \in alive /\ at[c] = "body" /\ Arrives(LabelOn(c, i), Event("request", c, BlockRun(c)))
    /\ UNCHANGED <<contextVars, postVars, patchVars, runVars, calls>>
ToolArrives(t) ==
    /\ t \in calls /\ Arrives(t.run, t.event) /\ calls' = calls \ {t}
    /\ UNCHANGED <<contextVars, posts, patchVars, runVars>>
PostArrives(p) ==
    /\ p \in posts /\ Arrives(p.run, PostEvent(p)) /\ posts' = posts \ {p}
    /\ UNCHANGED <<contextVars, patchVars, runVars, calls>>

\* What can arrive: an event its context filed, or what a post says.
LEMMA ArrivalSteps ==
    ASSUME [Next]_vars
    PROVE  \/ arrived' = arrived
           \/ \E c \in Contexts, i \in 1..Len(Transports) : RequestArrives(c, i)
           \/ \E t \in calls : ToolArrives(t)
           \/ \E p \in posts : PostArrives(p)
<1> USE DEF contextVars, postVars, patchVars, runVars, workVars
<1>1. ASSUME NEW c \in Contexts, NEW i \in 1..Len(Transports), Request(c, i)
      PROVE  RequestArrives(c, i)
  BY <1>1 DEF Request, RequestArrives
<1>2. ASSUME NEW t \in calls, FinishTool(t) PROVE arrived' = arrived \/ ToolArrives(t)
  BY <1>2 DEF FinishTool, ToolArrives
<1>3. ASSUME NEW p \in posts, HandlePost(p) \/ LosePost(p) PROVE arrived' = arrived \/ PostArrives(p)
  <2>1. CASE HandlePost(p)
    BY <2>1 DEF HandlePost, PostArrives
  <2>2. CASE LosePost(p)
    BY <2>2 DEF LosePost, PostArrives
  <2> QED BY <1>3, <2>1, <2>2
<1>4. ASSUME NEW c \in Contexts, Blocks(c) \/ StartPosted(c) \/ EndPosted(c) \/ Labelling(c) \/ Hooking(c) \/ CallTool(c)
      PROVE  arrived' = arrived
  BY <1>4
  DEF Blocks, StartPosted, EndPosted, Labelling, CallTool, Join, Adopt, Mint, LeaveJoined,
      LeaveAdopted, Leave, CancelStart, CancelEnd, HandOff, Await, Spawn, Labelled,
      LabelledInHook, BeginPatching, EndPatching, Hooking, Instrument, RunHook, EndHook
<1>5. CASE ResumePosts \/ UNCHANGED vars
  BY <1>5 DEF ResumePosts, vars
<1> QED BY <1>1, <1>2, <1>3, <1>4, <1>5 DEF Next, Posting, PostingLate

\* The block a context's code is in is a run, or none.
LEMMA BlockRunType ==
    ASSUME SdkTypes, NEW c \in Contexts
    PROVE  BlockRun(c) \in Labels
<1>1. blocks[c] \in Seq(Runs)
  BY DEF SdkTypes
<1>2. blocks[c] # <<>> => Last(blocks[c]) \in Runs
  BY <1>1, FrontFacts
<1> QED BY <1>2, LabelFacts DEF BlockRun

\* A label is a run or none.
LEMMA LabelOnType ==
    ASSUME SdkTypes, NEW c \in Contexts, NEW i \in 1..Len(Transports)
    PROVE  LabelOn(c, i) \in Labels
<1> QED BY LabelFacts DEF LabelOn, SdkTypes

\* Every step keeps the types.
LEMMA TypesStep ==
    ASSUME SdkTypes, NestInv, PlaceInv, [Next]_vars
    PROVE  SdkTypes'
<1> USE DEF contextVars, postVars, patchVars, runVars, workVars
<1>1. entries' \in [Contexts -> Seq(Entry)] /\ current' \in [Contexts -> Labels]
      /\ blocks' \in [Contexts -> Seq(Runs)]
  <2>0. entries \in [Contexts -> Seq(Entry)] /\ current \in [Contexts -> Labels]
        /\ blocks \in [Contexts -> Seq(Runs)]
    BY DEF SdkTypes
  <2>1. CASE UNCHANGED <<alive, current, entries, blocks>>
    BY <2>0, <2>1
  <2>2. ASSUME NEW c \in Contexts, JoinsOne(c)
        PROVE  entries' \in [Contexts -> Seq(Entry)] /\ current' = current /\ blocks' = blocks
    BY <2>2, JoinedEntry, PushFacts DEF JoinsOne
  <2>3. ASSUME NEW c \in Contexts, LeavesJoined(c)
        PROVE  entries' \in [Contexts -> Seq(Entry)] /\ current' = current /\ blocks' = blocks
    BY <2>3, PopFacts DEF LeavesJoined
  <2>4. ASSUME NEW c \in Contexts, ClosesOne(c)
        PROVE  entries' \in [Contexts -> Seq(Entry)] /\ current' \in [Contexts -> Labels]
               /\ blocks' \in [Contexts -> Seq(Runs)]
    BY <2>4, PopFacts, CloseFacts DEF ClosesOne
  <2>5. ASSUME NEW c \in Contexts, NEW r \in Runs, OpensOne(c, r)
        PROVE  entries' \in [Contexts -> Seq(Entry)] /\ current' \in [Contexts -> Labels]
               /\ blocks' \in [Contexts -> Seq(Runs)]
    BY <2>5, PushFacts, OpenFacts DEF OpensOne
  <2>6. ASSUME NEW c \in Contexts, NEW d \in Contexts, SpawnsOne(c, d)
        PROVE  entries' \in [Contexts -> Seq(Entry)] /\ current' \in [Contexts -> Labels]
               /\ blocks' \in [Contexts -> Seq(Runs)]
    BY <2>6, SpawnFacts DEF SpawnsOne
  <2> QED BY <2>0, <2>1, <2>2, <2>3, <2>4, <2>5, <2>6, ContextSteps
<1>2. arrived' \in [Labels -> Seq(Events)]
  <2>1. arrived \in [Labels -> Seq(Events)] /\ posts \subseteq Post
        /\ calls \subseteq [run : Labels, event : Events]
    BY DEF SdkTypes
  <2>2. ASSUME NEW c \in Contexts, NEW i \in 1..Len(Transports), RequestArrives(c, i)
        PROVE  arrived' \in [Labels -> Seq(Events)]
    BY <2>2, ArrivesFacts, EventTypes, BlockRunType, LabelOnType DEF RequestArrives
  <2>3. ASSUME NEW t \in calls, ToolArrives(t) PROVE arrived' \in [Labels -> Seq(Events)]
    BY <2>1, <2>3, ArrivesFacts DEF ToolArrives
  <2>4. ASSUME NEW p \in posts, PostArrives(p) PROVE arrived' \in [Labels -> Seq(Events)]
    BY <2>1, <2>4, ArrivesFacts, EventTypes DEF PostArrives
  <2> QED BY <2>1, <2>2, <2>3, <2>4, ArrivalSteps
<1>3. ASSUME NEW c \in Contexts, Blocks(c)
      PROVE  /\ replaying' = replaying /\ alive' \subseteq Contexts /\ at' \in [Contexts -> Places]
             /\ minted' \subseteq RunIds /\ handed' \subseteq Runs
             /\ tried' \subseteq RunIds /\ cancelled' \subseteq RunIds
             /\ posts' \subseteq Post /\ UNCHANGED <<paused, faults, patchVars, workVars>>
  <2>0. /\ alive \subseteq Contexts /\ at \in [Contexts -> Places]
        /\ minted \subseteq RunIds /\ handed \subseteq Runs
        /\ tried \subseteq RunIds /\ cancelled \subseteq RunIds /\ posts \subseteq Post
    BY DEF SdkTypes
  <2>1. \A r \in RunIds : \A action \in {"start", "end"} :
           [run |-> r, action |-> action, late |-> FALSE] \in Post
    BY DEF Post
  <2>2. CASE Join(c) \/ Adopt(c)
    BY <2>0, <2>2 DEF Join, Adopt, Places
  <2>3. CASE Mint(c)
    BY <2>0, <2>1, <2>3, FreshIsNew DEF Mint, Places, Send
  <2>4. CASE LeaveJoined(c) \/ LeaveAdopted(c) \/ CancelEnd(c)
    BY <2>0, <2>4 DEF LeaveJoined, LeaveAdopted, CancelEnd, Places
  <2>5. CASE Leave(c)
    BY <2>0, <2>1, <2>5 DEF Leave, Places, Send
  <2>6. CASE CancelStart(c)
    BY <2>0, <2>6 DEF CancelStart, Places, PlaceInv, Placed
  <2>7. CASE HandOff(c)
    BY <2>0, <2>7 DEF HandOff
  <2>8. CASE \E r \in Runs : Await(c, r)
    BY <2>0, <2>8 DEF Await
  <2>9. CASE \E d \in Contexts : Spawn(c, d)
    BY <2>0, <2>9 DEF Spawn
  <2> QED BY <1>3, <2>2, <2>3, <2>4, <2>5, <2>6, <2>7, <2>8, <2>9 DEF Blocks
<1>4. ASSUME NEW c \in Contexts, StartPosted(c) \/ EndPosted(c) \/ Labelled(c)
      PROVE  /\ at' \in [Contexts -> Places]
             /\ UNCHANGED <<replaying, alive, postVars, patchVars, runVars, workVars>>
  BY <1>4 DEF StartPosted, EndPosted, Labelled, GoToBody, Places, SdkTypes
<1>5. ASSUME NEW c \in Contexts, BeginPatching(c) \/ EndPatching(c) \/ LabelledInHook(c)
             \/ Instrument(c) \/ RunHook(c) \/ EndHook(c)
      PROVE  /\ at' \in [Contexts -> Places] /\ patcher' \subseteq Contexts
             /\ patches' \in [1..Len(Transports) -> Nat] /\ installed' \in BOOLEAN
             /\ wrapped' \in Nat /\ depth' \in Nat /\ hooked' \subseteq Runs
             /\ UNCHANGED <<replaying, alive, postVars, runVars, workVars>>
  <2>0. /\ at \in [Contexts -> Places] /\ patches \in [1..Len(Transports) -> Nat]
        /\ patcher \subseteq Contexts /\ installed \in BOOLEAN
        /\ wrapped \in Nat /\ depth \in Nat /\ hooked \subseteq Runs
        /\ Len(entries[c]) \in Nat
    BY LenProperties DEF SdkTypes
  <2>1. {blocks[c][n] : n \in 1..Len(blocks[c])} \subseteq Runs
    <3>1. blocks[c] \in Seq(Runs)
      BY DEF SdkTypes
    <3> QED BY <3>1, ElementOfSeq
  <2>2. CASE BeginPatching(c)
    BY <2>0, <2>2 DEF BeginPatching
  <2>3. CASE EndPatching(c)
    BY <2>0, <2>3 DEF EndPatching, GoToBody, Places
  <2>4. CASE LabelledInHook(c)
    BY <2>0, <2>1, <2>4 DEF LabelledInHook, GoToBody, Hooked, Places
  <2>5. CASE RunHook(c)
    <3>1. /\ patches' = [patches EXCEPT ![1] = @ + 1] /\ wrapped' = 1
          /\ UNCHANGED <<replaying, alive, postVars, patcher, depth, installed, runVars, workVars>>
      BY <2>5 DEF RunHook
    <3>2. patches' \in [1..Len(Transports) -> Nat]
      <4> DEFINE D == 1..Len(Transports)
      <4>1. patches \in [D -> Nat] /\ patches' = [patches EXCEPT ![1] = patches[1] + 1]
        BY <2>0, <3>1
      <4> HIDE DEF D
      <4>2. ASSUME 1 \in D PROVE patches' \in [D -> Nat]
        <5>1. patches[1] + 1 \in Nat
          BY <4>1, <4>2
        <5> QED BY <4>1, <5>1
      <4>3. ASSUME 1 \notin D PROVE patches' \in [D -> Nat]
        BY <4>1, <4>3
      <4>4. patches' \in [D -> Nat]
        BY <4>2, <4>3
      <4> QED BY <4>4 DEF D
    <3>3. at' \in [Contexts -> Places] /\ hooked' \subseteq Runs
      BY <2>0, <2>1, <2>5 DEF RunHook, GoToBody, Hooked, Places
    <3> QED BY <2>0, <3>1, <3>2, <3>3
  <2>6. CASE Instrument(c) \/ EndHook(c)
    BY <2>0, <2>6 DEF Instrument, EndHook, Places
  <2> QED BY <1>5, <2>2, <2>3, <2>4, <2>5, <2>6
<1>6. ASSUME NEW c \in Contexts, CallTool(c) \/ \E i \in 1..Len(Transports) : Request(c, i)
      PROVE  /\ work' \in Nat /\ calls' \subseteq [run : Labels, event : Events]
             /\ UNCHANGED <<replaying, alive, at, postVars, patchVars, runVars>>
  <2>1. work \in Nat /\ calls \subseteq [run : Labels, event : Events] /\ current[c] \in Labels
        /\ Event("tool", c, BlockRun(c)) \in Events
    BY EventTypes, BlockRunType DEF SdkTypes
  <2> QED BY <1>6, <2>1 DEF CallTool, Request
<1>7. ASSUME (\E t \in calls : FinishTool(t)) \/ Posting \/ PostingLate \/ ResumePosts
             \/ UNCHANGED vars
      PROVE  /\ posts' \subseteq Post /\ paused' \in BOOLEAN /\ faults' \in Nat
             /\ work' = work /\ calls' \subseteq calls
             /\ UNCHANGED <<replaying, alive, at, patchVars, runVars>>
  <2>0. /\ posts \subseteq Post /\ paused \in BOOLEAN /\ faults \in Nat
        /\ \A p \in Post : [p EXCEPT !.late = TRUE] \in Post
    BY DEF SdkTypes, Post
  <2>1. CASE \E t \in calls : FinishTool(t)
    <3>1. PICK t \in calls : FinishTool(t)
      BY <2>1
    <3>2. paused' = paused \/ paused' = TRUE
      BY <3>1, Zenon DEF FinishTool
    <3>3. /\ faults' = faults \/ faults' = faults + 1
          /\ calls' = calls \ {t} /\ UNCHANGED <<posts, work, replaying, alive, at, patchVars, runVars>>
      BY <3>1 DEF FinishTool
    <3>4. paused' \in BOOLEAN
      BY <2>0, <3>2, Zenon
    <3>5. posts' \subseteq Post /\ faults' \in Nat
      BY <2>0, <3>3
    <3> QED BY <3>3, <3>4, <3>5
  <2>2. CASE \E p \in posts : HandlePost(p)
    BY <2>0, <2>2 DEF HandlePost
  <2>3. CASE \E p \in posts : LosePost(p)
    <3>1. PICK p \in posts : LosePost(p)
      BY <2>3
    <3>2. p \in Post /\ [p EXCEPT !.late = TRUE] \in Post
      BY <2>0
    <3>3. posts' \subseteq Post
      BY <2>0, <3>1, <3>2 DEF LosePost
    <3>4. paused' = TRUE /\ faults' = faults + 1
          /\ UNCHANGED <<work, calls, replaying, alive, at, patchVars, runVars>>
      BY <3>1 DEF LosePost
    <3> QED BY <2>0, <3>3, <3>4
  <2>4. CASE ResumePosts \/ UNCHANGED vars
    BY <2>0, <2>4 DEF ResumePosts, vars
  <2>5. (\E t \in calls : FinishTool(t)) \/ (\E p \in posts : HandlePost(p))
        \/ (\E p \in posts : LosePost(p)) \/ ResumePosts \/ UNCHANGED vars
    BY <1>7 DEF Posting, PostingLate
  <2> QED BY <2>1, <2>2, <2>3, <2>4, <2>5
<1>8. /\ replaying \in BOOLEAN /\ alive \subseteq Contexts /\ at \in [Contexts -> Places]
      /\ minted \subseteq RunIds /\ handed \subseteq Runs
      /\ tried \subseteq RunIds /\ cancelled \subseteq RunIds
      /\ posts \subseteq Post /\ paused \in BOOLEAN /\ faults \in Nat
      /\ patcher \subseteq Contexts /\ patches \in [1..Len(Transports) -> Nat]
      /\ installed \in BOOLEAN /\ wrapped \in Nat /\ depth \in Nat /\ hooked \subseteq Runs
      /\ work \in Nat
      /\ calls \subseteq [run : Labels, event : Events]
  BY DEF SdkTypes
<1>9. /\ replaying' \in BOOLEAN /\ alive' \subseteq Contexts /\ at' \in [Contexts -> Places]
      /\ minted' \subseteq RunIds /\ handed' \subseteq Runs
      /\ tried' \subseteq RunIds /\ cancelled' \subseteq RunIds
      /\ posts' \subseteq Post /\ paused' \in BOOLEAN /\ faults' \in Nat
      /\ patcher' \subseteq Contexts /\ patches' \in [1..Len(Transports) -> Nat]
      /\ installed' \in BOOLEAN /\ wrapped' \in Nat /\ depth' \in Nat /\ hooked' \subseteq Runs
      /\ work' \in Nat
      /\ calls' \subseteq [run : Labels, event : Events]
  <2>1. CASE \E c \in Contexts : Blocks(c)
    BY <1>3, <1>8, <2>1
  <2>2. CASE \E c \in Contexts : StartPosted(c) \/ EndPosted(c) \/ Labelled(c)
    BY <1>4, <1>8, <2>2
  <2>3. CASE \E c \in Contexts : BeginPatching(c) \/ EndPatching(c) \/ LabelledInHook(c)
                \/ Instrument(c) \/ RunHook(c) \/ EndHook(c)
    BY <1>5, <1>8, <2>3
  <2>4. CASE \E c \in Contexts : CallTool(c) \/ \E i \in 1..Len(Transports) : Request(c, i)
    BY <1>6, <1>8, <2>4
  <2>5. CASE (\E t \in calls : FinishTool(t)) \/ Posting \/ PostingLate \/ ResumePosts
             \/ UNCHANGED vars
    BY <1>7, <1>8, <2>5
  <2> QED BY <2>1, <2>2, <2>3, <2>4, <2>5 DEF Next, Labelling, Hooking
<1> QED BY <1>1, <1>2, <1>9 DEF SdkTypes

-----------------------------------------------------------------------------
(* Where the contexts are. *)

\* A context whose blocks stay keeps its place, or leaves a post behind.
LEMMA PlacedKept ==
    ASSUME PlaceInv, NEW d \in Contexts, alive \subseteq alive', tried \subseteq tried',
           entries'[d] = entries[d],
           at'[d] = at[d] \/ at'[d] = "body" \/ (at'[d] = "labelling" /\ d \in alive)
    PROVE  Placed(d)'
<1>1. /\ d \notin alive => at[d] = "body" /\ entries[d] = <<>>
      /\ at[d] \in {"starting", "ending"} =>
            /\ entries[d] # <<>> /\ Last(entries[d]).home = d
            /\ Last(entries[d]).run \in RunIds
      /\ at[d] = "starting" => Last(entries[d]).before = NoRun
      /\ at[d] = "ending" => Last(entries[d]).run \in tried
      /\ \A i \in 1..Len(entries[d]) : entries[d][i].home \in alive
  BY DEF PlaceInv, Placed, InBlock, Innermost
<1>2. /\ d \notin alive' => at'[d] = "body" /\ entries'[d] = <<>>
      /\ at'[d] \in {"starting", "ending"} =>
            /\ entries'[d] # <<>> /\ Last(entries'[d]).home = d
            /\ Last(entries'[d]).run \in RunIds
      /\ at'[d] = "starting" => Last(entries'[d]).before = NoRun
      /\ at'[d] = "ending" => Last(entries'[d]).run \in tried'
      /\ \A i \in 1..Len(entries'[d]) : entries'[d][i].home \in alive'
  BY <1>1
<1> QED BY <1>2 DEF Placed, InBlock, Innermost

\* A context that enters a block is at its post, or past it.
LEMMA PlacedPush ==
    ASSUME SdkTypes, PlaceInv, NEW c \in Contexts, NEW e \in Entry, Pushed(c, e), e.home = c,
           c \in alive, alive' = alive,
           at'[c] = "body" \/ at'[c] = "labelling"
           \/ (at'[c] = "starting" /\ e.run \in RunIds /\ e.before = NoRun)
    PROVE  Placed(c)'
<1>1. /\ Len(entries[c]) \in Nat /\ Len(entries'[c]) = Len(entries[c]) + 1
      /\ entries'[c] # <<>> /\ entries'[c][Len(entries[c]) + 1] = e
      /\ Last(entries'[c]) = e
      /\ \A i \in 1..Len(entries[c]) : entries'[c][i] = entries[c][i]
  BY PushFacts
<1>2. \A i \in 1..Len(entries[c]) : entries[c][i].home \in alive
  BY DEF PlaceInv, Placed
<1>3. \A i \in 1..Len(entries'[c]) : entries'[c][i].home \in alive'
  <2>1. \A i \in 1..Len(entries'[c]) : i \in 1..Len(entries[c]) \/ i = Len(entries[c]) + 1
    BY <1>1
  <2> QED BY <1>1, <1>2, <2>1
<1> QED BY <1>1, <1>3 DEF Placed, InBlock, Innermost

\* A context that leaves one is back in a body.
LEMMA PlacedPop ==
    ASSUME SdkTypes, PlaceInv, NEW c \in Contexts, entries[c] # <<>>, Popped(c), alive' = alive,
           at'[c] = "body"
    PROVE  Placed(c)'
<1>1. \A i \in 1..Len(entries'[c]) : i \in 1..Len(entries[c]) /\ entries'[c][i] = entries[c][i]
  BY PopFacts
<1>2. c \in alive /\ \A i \in 1..Len(entries[c]) : entries[c][i].home \in alive
  BY DEF PlaceInv, Placed
<1> QED BY <1>1, <1>2 DEF Placed

\* The ids tried only grow, and so do the contexts.
LEMMA Grows ==
    ASSUME [Next]_vars
    PROVE  alive \subseteq alive' /\ tried \subseteq tried' /\ minted \subseteq minted'
           /\ cancelled \subseteq cancelled'
<1> USE DEF contextVars, postVars, patchVars, runVars, workVars
<1>1. ASSUME NEW c \in Contexts, Blocks(c)
      PROVE  alive \subseteq alive' /\ tried \subseteq tried' /\ minted \subseteq minted'
             /\ cancelled \subseteq cancelled'
  BY <1>1
  DEF Blocks, Join, Adopt, Mint, LeaveJoined, LeaveAdopted, Leave, CancelStart, CancelEnd,
      HandOff, Await, Spawn
<1>2. ASSUME NEW c \in Contexts,
             StartPosted(c) \/ EndPosted(c) \/ Labelling(c) \/ Hooking(c) \/ CallTool(c)
             \/ \E i \in 1..Len(Transports) : Request(c, i)
      PROVE  UNCHANGED <<alive, tried, minted, cancelled>>
  BY <1>2
  DEF StartPosted, EndPosted, Labelling, Labelled, LabelledInHook, BeginPatching, EndPatching,
      Hooking, Instrument, RunHook, EndHook, CallTool, Request
<1>3. CASE (\E t \in calls : FinishTool(t)) \/ Posting \/ PostingLate \/ ResumePosts
           \/ UNCHANGED vars
  BY <1>3 DEF FinishTool, Posting, PostingLate, HandlePost, LosePost, ResumePosts, vars
<1> QED BY <1>1, <1>2, <1>3 DEF Next

\* Every step leaves each context at a block of its own.
LEMMA PlaceStep ==
    ASSUME SdkTypes, NestInv, PlaceInv, [Next]_vars
    PROVE  PlaceInv'
<1> USE DEF contextVars, postVars, patchVars, runVars, workVars
<1> SUFFICES ASSUME NEW d \in Contexts PROVE Placed(d)'
  BY DEF PlaceInv
<1>0. /\ at \in [Contexts -> Places] /\ alive \subseteq alive' /\ tried \subseteq tried'
      /\ minted \subseteq RunIds
  BY Grows DEF SdkTypes
<1>1. ASSUME NEW c \in Contexts, Join(c) PROVE Placed(d)'
  <2>1. PICK e \in Entry : e = [run |-> NoRun, before |-> NoRun, home |-> c] /\ e.home = c
    BY JoinedEntry
  <2>2. Pushed(c, e) /\ c \in alive /\ at' = at /\ at'[c] = "body" /\ alive' = alive
    BY <1>1, <2>1 DEF Join, MayEnter, Pushed
  <2>3. CASE d = c
    BY <2>1, <2>2, <2>3, PlacedPush
  <2>4. CASE d # c
    BY <1>0, <2>2, <2>4, PushFacts, PlacedKept
  <2> QED BY <2>3, <2>4
<1>2. ASSUME NEW c \in Contexts, NEW r \in Runs, (Adopt(c) /\ r = ReplayRun) \/ Await(c, r)
      PROVE  Placed(d)'
  <2>1. Open(c, r) /\ c \in alive /\ alive' = alive
        /\ (at'[c] = "body" \/ at'[c] = "labelling") /\ (d # c => at'[d] = at[d])
    BY <1>0, <1>2 DEF Adopt, Await, MayEnter
  <2>2. PICK e \in Entry : e.home = c /\ Pushed(c, e)
    BY <2>1, OpenFacts
  <2>3. CASE d = c
    BY <2>1, <2>2, <2>3, PlacedPush
  <2>4. CASE d # c
    BY <1>0, <2>1, <2>2, <2>4, PushFacts, PlacedKept
  <2> QED BY <2>3, <2>4
<1>3. ASSUME NEW c \in Contexts, Mint(c) PROVE Placed(d)'
  <2>1. Open(c, FreshRun) /\ c \in alive /\ alive' = alive /\ current[c] = NoRun
        /\ at'[c] = "starting" /\ (d # c => at'[d] = at[d]) /\ FreshRun \in RunIds
        /\ FreshRun \in Runs
    BY <1>0, <1>3, FreshIsNew, LabelFacts DEF Mint, MayEnter
  <2>2. PICK e \in Entry : e.home = c /\ e.run = FreshRun /\ e.before = current[c] /\ Pushed(c, e)
    BY <2>1, OpenFacts
  <2>3. CASE d = c
    BY <2>1, <2>2, <2>3, PlacedPush
  <2>4. CASE d # c
    BY <1>0, <2>1, <2>2, <2>4, PushFacts, PlacedKept
  <2> QED BY <2>3, <2>4
<1>4. ASSUME NEW c \in Contexts,
             LeaveJoined(c) \/ LeaveAdopted(c) \/ HandOff(c)
             \/ EndPosted(c) \/ CancelStart(c) \/ CancelEnd(c)
      PROVE  Placed(d)'
  <2>1. entries[c] # <<>>
    BY <1>4
    DEF LeaveJoined, LeaveAdopted, HandOff, EndPosted, CancelStart, CancelEnd, InBlock, PlaceInv,
        Placed
  <2>2. Popped(c) /\ alive' = alive /\ at'[c] = "body" /\ (d # c => at'[d] = at[d])
    BY <1>0, <1>4
    DEF LeaveJoined, LeaveAdopted, HandOff, EndPosted, CancelStart, CancelEnd, Close, Popped
  <2>3. CASE d = c
    BY <2>1, <2>2, <2>3, PlacedPop
  <2>4. CASE d # c
    BY <1>0, <2>1, <2>2, <2>4, PopFacts, PlacedKept
  <2> QED BY <2>3, <2>4
<1>5. ASSUME NEW c \in Contexts, Leave(c) PROVE Placed(d)'
  <2>1. /\ entries' = entries /\ alive' = alive /\ InBlock(c) /\ Innermost(c).run \in RunIds
        /\ at'[c] = "ending" /\ (d # c => at'[d] = at[d]) /\ Innermost(c).run \in tried'
    BY <1>0, <1>5 DEF Leave
  <2>2. CASE d = c
    <3>1. /\ c \notin alive => entries[c] = <<>>
          /\ \A i \in 1..Len(entries[c]) : entries[c][i].home \in alive
      BY DEF PlaceInv, Placed
    <3>2. entries'[c] = entries[c] /\ c \in alive
      BY <2>1, <3>1 DEF InBlock
    <3> QED BY <2>1, <2>2, <3>1, <3>2 DEF Placed, InBlock, Innermost
  <2>3. CASE d # c
    BY <1>0, <2>1, <2>3, PlacedKept
  <2> QED BY <2>2, <2>3
<1>6. ASSUME NEW c \in Contexts, NEW x \in Contexts, Spawn(c, x) PROVE Placed(d)'
  <2>1. /\ x \in alive' /\ at' = at /\ entries'[x] = entries[c] /\ at[x] = "body"
        /\ (d # x => entries'[d] = entries[d])
    BY <1>6, SpawnFacts
  <2>2. \A i \in 1..Len(entries[c]) : entries[c][i].home \in alive
    BY DEF PlaceInv, Placed
  <2>3. CASE d = x
    BY <1>0, <2>1, <2>2, <2>3 DEF Placed
  <2>4. CASE d # x
    BY <1>0, <2>1, <2>4, PlacedKept
  <2> QED BY <2>3, <2>4
<1>7. ASSUME NEW c \in Contexts, StartPosted(c) \/ Labelling(c) \/ Hooking(c) PROVE Placed(d)'
  <2>1. at[c] # "body" => c \in alive
    BY DEF PlaceInv, Placed
  <2>2. /\ entries' = entries
        /\ at'[d] = at[d] \/ at'[d] = "body" \/ (at'[d] = "labelling" /\ d \in alive)
    BY <1>0, <1>7, <2>1
    DEF StartPosted, Labelling, Labelled, LabelledInHook, BeginPatching, EndPatching, Hooking,
        Instrument, RunHook, EndHook, GoToBody
  <2> QED BY <1>0, <2>2, PlacedKept
<1>8. ASSUME (\E c \in Contexts : CallTool(c) \/ \E i \in 1..Len(Transports) : Request(c, i))
             \/ (\E t \in calls : FinishTool(t)) \/ Posting \/ PostingLate \/ ResumePosts
             \/ UNCHANGED vars
      PROVE  Placed(d)'
  <2>1. entries' = entries /\ at' = at
    BY <1>8
    DEF CallTool, Request, FinishTool, Posting, PostingLate, HandlePost, LosePost, ResumePosts, vars
  <2> QED BY <1>0, <2>1, PlacedKept
<1> QED
  BY <1>1, <1>2, <1>3, <1>4, <1>5, <1>6, <1>7, <1>8, LabelFacts DEF Next, Blocks

-----------------------------------------------------------------------------
(* Patches. *)

\* Which steps mint, end and hand over a run, and which call a tool.
LEMMA IdSteps ==
    ASSUME [Next]_vars
    PROVE  /\ minted' = minted \/ \E c \in Contexts : Mint(c)
           /\ tried' = tried \/ \E c \in Contexts : Leave(c)
           /\ handed' \subseteq handed \/ \E c \in Contexts : HandOff(c)
           /\ calls' \subseteq calls \/ \E c \in Contexts : CallTool(c)
<1> USE DEF contextVars, postVars, patchVars, runVars, workVars
<1>1. ASSUME NEW c \in Contexts, Blocks(c)
      PROVE  /\ minted' = minted \/ Mint(c)
             /\ tried' = tried \/ Leave(c)
             /\ handed' \subseteq handed \/ HandOff(c)
             /\ calls' = calls
  BY <1>1
  DEF Blocks, Join, Adopt, Mint, LeaveJoined, LeaveAdopted, Leave, CancelStart, CancelEnd,
      HandOff, Await, Spawn
<1>2. ASSUME NEW c \in Contexts,
             StartPosted(c) \/ EndPosted(c) \/ Labelling(c) \/ Hooking(c)
             \/ \E i \in 1..Len(Transports) : Request(c, i)
      PROVE  UNCHANGED <<minted, tried, handed, calls>>
  BY <1>2
  DEF StartPosted, EndPosted, Labelling, Labelled, LabelledInHook, BeginPatching, EndPatching,
      Hooking, Instrument, RunHook, EndHook, Request
<1>3. ASSUME NEW c \in Contexts, CallTool(c) PROVE UNCHANGED <<minted, tried, handed>>
  BY <1>3 DEF CallTool
<1>4. ASSUME (\E t \in calls : FinishTool(t)) \/ Posting \/ PostingLate \/ ResumePosts
             \/ UNCHANGED vars
      PROVE  UNCHANGED <<minted, tried, handed>> /\ calls' \subseteq calls
  BY <1>4 DEF FinishTool, Posting, PostingLate, HandlePost, LosePost, ResumePosts, vars
<1> QED BY <1>1, <1>2, <1>3, <1>4 DEF Next

\* What is wrapped stays so, and an import hook's runs are remembered.
LEMMA PatchesKept ==
    ASSUME [Next]_vars
    PROVE  /\ UNCHANGED patchVars
              \/ \E c \in Contexts : LabelledInHook(c) \/ BeginPatching(c) \/ EndPatching(c) \/ RunHook(c)
           /\ hooked \subseteq hooked'
<1> USE DEF contextVars, postVars, patchVars, runVars, workVars
<1>1. ASSUME NEW c \in Contexts, Blocks(c) PROVE UNCHANGED patchVars
  BY <1>1
  DEF Blocks, Join, Adopt, Mint, LeaveJoined, LeaveAdopted, Leave, CancelStart, CancelEnd,
      HandOff, Await, Spawn
<1>2. ASSUME NEW c \in Contexts,
             StartPosted(c) \/ EndPosted(c) \/ Labelled(c) \/ Instrument(c) \/ EndHook(c)
             \/ CallTool(c) \/ \E i \in 1..Len(Transports) : Request(c, i)
      PROVE  UNCHANGED patchVars
  BY <1>2 DEF StartPosted, EndPosted, Labelled, Instrument, EndHook, CallTool, Request
<1>3. ASSUME NEW c \in Contexts,
             LabelledInHook(c) \/ BeginPatching(c) \/ EndPatching(c) \/ RunHook(c)
      PROVE  hooked \subseteq hooked'
  BY <1>3 DEF LabelledInHook, BeginPatching, EndPatching, RunHook, Hooked
<1>4. ASSUME (\E t \in calls : FinishTool(t)) \/ Posting \/ PostingLate \/ ResumePosts
             \/ UNCHANGED vars
      PROVE  UNCHANGED patchVars
  BY <1>4 DEF FinishTool, Posting, PostingLate, HandlePost, LosePost, ResumePosts, vars
<1> QED BY <1>1, <1>2, <1>3, <1>4 DEF Next, Labelling, Hooking

\* Until the wrapping ended, a context that is in the body of a block, or leaves it, is
\* in an import hook's block.
LEMMA BodyIsHooked ==
    ASSUME SdkTypes, PatchInv, ~installed, NEW c \in Contexts, at[c] \in {"body", "ending"}
    PROVE  /\ \A n \in 1..Len(blocks[c]) : blocks[c][n] \in hooked
           /\ BlockRun(c) # NoRun => BlockRun(c) \in hooked
<1>1. \A n \in 1..Len(blocks[c]) : blocks[c][n] \in hooked
  BY DEF PatchInv, HooksOrEntered, Entering
<1>2. CASE blocks[c] = <<>>
  BY <1>1, <1>2 DEF BlockRun
<1>3. CASE blocks[c] # <<>>
  <2>1. blocks[c] \in Seq(Runs)
    BY DEF SdkTypes
  <2>2. /\ Len(blocks[c]) \in Nat /\ Len(blocks[c]) > 0
        /\ Last(blocks[c]) = blocks[c][Len(blocks[c])]
    BY <1>3, <2>1, FrontFacts
  <2>3. Len(blocks[c]) \in 1..Len(blocks[c])
    BY <2>2
  <2> QED BY <1>1, <1>3, <2>2, <2>3 DEF BlockRun
<1> QED BY <1>2, <1>3

\* The invariant says of the transports and the bodies what the SDK promises.
LEMMA WrappedFirst ==
    ASSUME SdkTypes, PatchInv
    PROVE  WrappedOnceFirst
<1>1. \A i \in 1..Len(Transports) : patches[i] <= 1
  BY DEF PatchInv
<1>2. ASSUME NEW c \in alive, at[c] = "body", blocks[c] # <<>>, ~installed
      PROVE  BlockRun(c) \in hooked
  <2>1. c \in Contexts /\ blocks[c] \in Seq(Runs)
    BY DEF SdkTypes
  <2>2. BlockRun(c) # NoRun
    BY <1>2, <2>1, FrontFacts, LabelFacts DEF BlockRun
  <2> QED BY <1>2, <2>1, <2>2, BodyIsHooked
<1> QED BY <1>1, <1>2 DEF WrappedOnceFirst

\* What has no label is from an import hook's block, from after the wrapping, or from
\* outside every block.
LEMMA UnlabelledStep ==
    ASSUME SdkTypes, NestInv, PlaceInv, PatchInv, FiledInv, [Next]_vars,
           NEW k \in 1..Len(arrived'[NoRun]), arrived'[NoRun][k].block # NoRun
    PROVE  installed \/ arrived'[NoRun][k].block \in hooked
<1>0. /\ posts \subseteq Post /\ calls \subseteq [run : Labels, event : Events]
      /\ NoRun \in Labels /\ NoRun \notin RunIds
      /\ \A i \in 1..Len(arrived[NoRun]) :
            arrived[NoRun][i].block # NoRun => installed \/ arrived[NoRun][i].block \in hooked
  BY LabelFacts DEF SdkTypes, PatchInv
<1>1. CASE arrived' = arrived
  BY <1>0, <1>1
<1>2. ASSUME NEW r \in Labels, NEW e \in Events, Arrives(r, e),
             r = NoRun /\ e.block # NoRun => installed \/ e.block \in hooked
      PROVE  installed \/ arrived'[NoRun][k].block \in hooked
  <2>1. /\ \A i \in 1..Len(arrived[r]) : arrived'[r][i] = arrived[r][i]
        /\ arrived'[r][Len(arrived[r]) + 1] = e
        /\ \A i \in 1..Len(arrived'[r]) : i \in 1..Len(arrived[r]) \/ i = Len(arrived[r]) + 1
        /\ \A x \in Labels : x # r => arrived'[x] = arrived[x]
    BY <1>2, ArrivesFacts
  <2>2. CASE r = NoRun
    BY <1>0, <1>2, <2>1, <2>2
  <2>3. CASE r # NoRun
    BY <1>0, <2>1, <2>3
  <2> QED BY <2>2, <2>3
<1>3. ASSUME NEW c \in Contexts, NEW i \in 1..Len(Transports), RequestArrives(c, i)
      PROVE  installed \/ arrived'[NoRun][k].block \in hooked
  <2>1. /\ LabelOn(c, i) \in Labels /\ Event("request", c, BlockRun(c)) \in Events
        /\ Event("request", c, BlockRun(c)).block = BlockRun(c)
    BY LabelOnType, BlockRunType, EventTypes
  <2>2. BlockRun(c) # NoRun => installed \/ BlockRun(c) \in hooked
    BY <1>3, BodyIsHooked DEF RequestArrives
  <2> QED BY <1>2, <1>3, <2>1, <2>2 DEF RequestArrives
<1>4. ASSUME NEW t \in calls, ToolArrives(t)
      PROVE  installed \/ arrived'[NoRun][k].block \in hooked
  <2>1. t.run \in Labels /\ t.event \in Events /\ t.event.block = t.run
    BY <1>0 DEF FiledInv
  <2> QED BY <1>2, <1>4, <2>1 DEF ToolArrives
<1>5. ASSUME NEW p \in posts, PostArrives(p)
      PROVE  installed \/ arrived'[NoRun][k].block \in hooked
  <2>1. p.run \in Labels /\ PostEvent(p) \in Events /\ p.run # NoRun
    BY <1>0, EventTypes
  <2> QED BY <1>2, <1>5, <2>1 DEF PostArrives
<1> QED BY <1>1, <1>3, <1>4, <1>5, ArrivalSteps

\* A context whose blocks stay is where it was, enters a block still, or was in a body.
LEMMA HookedKept ==
    ASSUME NEW d \in Contexts, HooksOrEntered(d), hooked \subseteq hooked', blocks'[d] = blocks[d],
           \/ at'[d] = at[d]
           \/ at'[d] \in {"starting", "labelling"}
           \/ at[d] \notin {"starting", "labelling"}
    PROVE  HooksOrEntered(d)'
<1> QED BY DEF HooksOrEntered, Entering

\* All of the blocks that the import hook's code is in are its own.
LEMMA HookedAll ==
    ASSUME NEW c \in Contexts, Hooked(c), blocks' = blocks
    PROVE  HooksOrEntered(c)'
<1>1. \A n \in 1..Len(blocks[c]) : blocks[c][n] \in hooked'
  BY DEF Hooked
<1> QED BY <1>1 DEF HooksOrEntered

\* The runs of a context's blocks are an import hook's until the wrapping ended, or it
\* still enters the innermost.
LEMMA HookedStep ==
    ASSUME SdkTypes, NestInv, PlaceInv, PatchInv, [Next]_vars, ~installed, ~installed',
           NEW d \in Contexts
    PROVE  HooksOrEntered(d)'
<1> USE DEF contextVars, postVars, patchVars, runVars, workVars
<1>0. /\ at \in [Contexts -> Places] /\ HooksOrEntered(d) /\ hooked \subseteq hooked'
      /\ handed \subseteq hooked
  BY PatchesKept DEF SdkTypes, PatchInv
<1>1. ASSUME NEW c \in Contexts, Join(c) \/ LeaveJoined(c) PROVE HooksOrEntered(d)'
  BY <1>0, <1>1, HookedKept DEF Join, LeaveJoined
<1>2. ASSUME NEW c \in Contexts, NEW r \in Runs, Open(c, r),
             at'[c] \in {"starting", "labelling"} \/ r \in hooked, at[c] = "body",
             \A x \in Contexts : x # c => at'[x] = at[x]
      PROVE  HooksOrEntered(d)'
  <2>1. /\ blocks[c] \in Seq(Runs) /\ blocks'[c] = Append(blocks[c], r)
        /\ \A x \in Contexts : x # c => blocks'[x] = blocks[x]
    BY <1>2, OpenFacts DEF SdkTypes
  <2>2. /\ Len(blocks[c]) \in Nat /\ Len(blocks'[c]) = Len(blocks[c]) + 1
        /\ blocks'[c][Len(blocks[c]) + 1] = r
        /\ \A n \in 1..Len(blocks[c]) : blocks'[c][n] = blocks[c][n]
    BY <2>1, AppendProperties, LenProperties
  <2>3. \A n \in 1..Len(blocks[c]) : blocks[c][n] \in hooked
    BY <1>2, BodyIsHooked
  <2>4. \A n \in 1..Len(blocks'[c]) : n \in 1..Len(blocks[c]) \/ n = Len(blocks[c]) + 1
    BY <2>2
  <2>5. CASE d = c
    BY <1>0, <1>2, <2>2, <2>3, <2>4, <2>5 DEF HooksOrEntered, Entering
  <2>6. CASE d # c
    BY <1>0, <1>2, <2>1, <2>6, HookedKept
  <2> QED BY <2>5, <2>6
<1>3. ASSUME NEW c \in Contexts, Adopt(c) PROVE HooksOrEntered(d)'
  <2>1. /\ Open(c, ReplayRun) /\ at[c] = "body" /\ at'[c] = "labelling" /\ ReplayRun \in Runs
        /\ \A x \in Contexts : x # c => at'[x] = at[x]
    BY <1>0, <1>3, LabelFacts DEF Adopt, MayEnter
  <2> QED BY <1>2, <2>1
<1>4. ASSUME NEW c \in Contexts, Mint(c) PROVE HooksOrEntered(d)'
  <2>0. minted \subseteq RunIds
    BY DEF SdkTypes
  <2>1. /\ Open(c, FreshRun) /\ at[c] = "body" /\ at'[c] = "starting" /\ FreshRun \in Runs
        /\ \A x \in Contexts : x # c => at'[x] = at[x]
    BY <1>0, <1>4, <2>0, FreshIsNew, LabelFacts DEF Mint, MayEnter
  <2> QED BY <1>2, <2>1
<1>5. ASSUME NEW c \in Contexts, NEW r \in Runs, Await(c, r) PROVE HooksOrEntered(d)'
  <2>1. /\ Open(c, r) /\ at[c] = "body" /\ r \in hooked
        /\ \A x \in Contexts : x # c => at'[x] = at[x]
    BY <1>0, <1>5 DEF Await, MayEnter
  <2> QED BY <1>2, <2>1
<1>6. ASSUME NEW c \in Contexts,
             LeaveAdopted(c) \/ EndPosted(c) \/ CancelStart(c) \/ CancelEnd(c) \/ HandOff(c)
      PROVE  HooksOrEntered(d)'
  <2>1. /\ Close(c) /\ InBlock(c) /\ Innermost(c).run \in Runs /\ HooksOrEntered(c)
        /\ \A x \in Contexts : x # c => at'[x] = at[x]
    BY <1>0, <1>6, LabelFacts
    DEF LeaveAdopted, EndPosted, CancelStart, CancelEnd, HandOff, PlaceInv, Placed, PatchInv
  <2>2. /\ blocks'[c] = Front(blocks[c]) /\ blocks[c] \in Seq(Runs) /\ blocks[c] # <<>>
        /\ \A x \in Contexts : x # c => blocks'[x] = blocks[x]
    BY <2>1, CloseFacts DEF SdkTypes
  <2>3. /\ Len(blocks[c]) \in Nat /\ Len(blocks'[c]) = Len(blocks[c]) - 1
        /\ \A n \in 1..Len(blocks'[c]) : blocks'[c][n] = blocks[c][n]
    BY <2>2, FrontFacts
  <2>4. CASE d = c
    BY <1>0, <2>1, <2>3, <2>4 DEF HooksOrEntered
  <2>5. CASE d # c
    BY <1>0, <2>1, <2>2, <2>5, HookedKept
  <2> QED BY <2>4, <2>5
<1>7. ASSUME NEW c \in Contexts, NEW x \in Contexts, Spawn(c, x) PROVE HooksOrEntered(d)'
  <2>1. /\ at[c] = "body" /\ blocks'[x] = blocks[c] /\ at' = at
        /\ \A y \in Contexts : y # x => blocks'[y] = blocks[y]
    BY <1>7, SpawnFacts
  <2>2. \A n \in 1..Len(blocks[c]) : blocks[c][n] \in hooked
    BY <2>1, BodyIsHooked
  <2>3. CASE d = x
    BY <1>0, <2>1, <2>2, <2>3 DEF HooksOrEntered
  <2>4. CASE d # x
    BY <1>0, <2>1, <2>4, HookedKept
  <2> QED BY <2>3, <2>4
<1>8. ASSUME NEW c \in Contexts,
             Leave(c) \/ StartPosted(c) \/ Instrument(c) \/ EndHook(c) \/ BeginPatching(c)
      PROVE  HooksOrEntered(d)'
  <2>1. blocks' = blocks /\ \A x \in Contexts : x # c => at'[x] = at[x]
    BY <1>0, <1>8 DEF Leave, StartPosted, Instrument, EndHook, BeginPatching
  <2>2. at'[c] = at[c] \/ at'[c] \in {"starting", "labelling"} \/ at[c] \notin {"starting", "labelling"}
    BY <1>0, <1>8 DEF Leave, StartPosted, Instrument, EndHook, BeginPatching
  <2> QED BY <1>0, <2>1, <2>2, HookedKept
<1>9. ASSUME NEW c \in Contexts, LabelledInHook(c) \/ RunHook(c) PROVE HooksOrEntered(d)'
  <2>1. blocks' = blocks /\ Hooked(c) /\ \A x \in Contexts : x # c => at'[x] = at[x]
    BY <1>0, <1>9 DEF LabelledInHook, RunHook, GoToBody
  <2>2. CASE d = c
    BY <2>1, <2>2, HookedAll
  <2>3. CASE d # c
    BY <1>0, <2>1, <2>3, HookedKept
  <2> QED BY <2>2, <2>3
<1>10. ASSUME NEW c \in Contexts, Labelled(c) \/ EndPatching(c) PROVE FALSE
  BY <1>10 DEF Labelled, EndPatching
<1>11. ASSUME (\E c \in Contexts : CallTool(c) \/ \E i \in 1..Len(Transports) : Request(c, i))
              \/ (\E t \in calls : FinishTool(t)) \/ Posting \/ PostingLate \/ ResumePosts
              \/ UNCHANGED vars
       PROVE  HooksOrEntered(d)'
  <2>1. at' = at /\ blocks' = blocks
    BY <1>11
    DEF CallTool, Request, FinishTool, Posting, PostingLate, HandlePost, LosePost, ResumePosts, vars
  <2> QED BY <1>0, <2>1, HookedKept
<1> QED
  BY <1>1, <1>3, <1>4, <1>5, <1>6, <1>7, <1>8, <1>9, <1>10, <1>11 DEF Next, Blocks, Labelling, Hooking

\* A run that is moved before the wrapping ended is an import hook's.
LEMMA HandedStep ==
    ASSUME SdkTypes, NestInv, PatchInv, [Next]_vars, ~installed
    PROVE  handed' \subseteq hooked'
<1>0. handed \subseteq hooked /\ hooked \subseteq hooked'
  BY PatchesKept DEF PatchInv
<1>1. CASE handed' \subseteq handed
  BY <1>0, <1>1
<1>2. ASSUME NEW c \in Contexts, HandOff(c) PROVE handed' \subseteq hooked'
  <2>1. /\ at[c] = "body" /\ entries[c] # <<>> /\ Innermost(c).run # NoRun
        /\ handed' = handed \cup {Innermost(c).run}
    BY <1>2, LabelFacts DEF HandOff, InBlock
  <2>2. PICK where : Nested(entries[c], blocks[c], where)
    BY DEF NestInv
  <2>3. blocks[c] # <<>> /\ Innermost(c).run = Last(blocks[c])
    BY <2>1, <2>2, InnermostBlock
  <2>4. Innermost(c).run \in hooked
    BY <2>1, <2>3, BodyIsHooked DEF BlockRun
  <2> QED BY <1>0, <2>1, <2>4
<1> QED BY <1>1, <1>2, IdSteps

\* Every step keeps PatchInv: only a context at the patches wraps, and no body of a
\* block but an import hook's is reached before that.
LEMMA PatchStep ==
    ASSUME SdkTypes, NestInv, PlaceInv, PatchInv, FiledInv, [Next]_vars
    PROVE  PatchInv'
<1> USE DEF contextVars, postVars, patchVars, runVars, workVars
<1>0. /\ patches \in [1..Len(Transports) -> Nat] /\ Len(Transports) \in Nat /\ wrapped \in Nat
      /\ patcher # {} => ~installed
      /\ patcher = {} => wrapped = 0
      /\ ~installed => \A i \in 1..Len(Transports) : patches[i] = IF i <= wrapped THEN 1 ELSE 0
      /\ \A i \in 1..Len(Transports) : patches[i] <= 1
  <2>1. Len(Transports) \in Nat
    BY SdkAssumption
  <2> QED BY <2>1 DEF SdkTypes, PatchInv
<1>1. \A i \in 1..Len(arrived'[NoRun]) :
         arrived'[NoRun][i].block # NoRun => installed \/ arrived'[NoRun][i].block \in hooked'
  BY UnlabelledStep, PatchesKept
<1>2. ~installed /\ ~installed' => handed' \subseteq hooked' /\ \A c \in Contexts : HooksOrEntered(c)'
  BY HookedStep, HandedStep
<1>3. /\ patcher' # {} => ~installed'
      /\ patcher' = {} => wrapped' = 0
      /\ ~installed' => \A i \in 1..Len(Transports) : patches'[i] = IF i <= wrapped' THEN 1 ELSE 0
      /\ \A i \in 1..Len(Transports) : patches'[i] <= 1
      /\ installed => installed'
  <2>1. CASE UNCHANGED patchVars
    BY <1>0, <2>1
  <2>2. CASE \E c \in Contexts : LabelledInHook(c)
    BY <1>0, <2>2 DEF LabelledInHook
  <2>3. CASE \E c \in Contexts : BeginPatching(c)
    BY <1>0, <2>3 DEF BeginPatching
  <2>4. CASE \E c \in Contexts : RunHook(c)
    <3>1. PICK c \in Contexts : RunHook(c)
      BY <2>4
    <3>2. ~installed /\ patcher # {}
      BY <1>0, <3>1 DEF RunHook, Patching
    <3>3. /\ wrapped = 0 /\ wrapped' = 1 /\ patches' = [patches EXCEPT ![1] = @ + 1]
          /\ patcher' = patcher /\ installed' = installed
      BY <3>1 DEF RunHook
    <3>4. \A i \in 1..Len(Transports) : patches'[i] = IF i <= 1 THEN 1 ELSE 0
      BY <1>0, <3>2, <3>3
    <3> QED BY <3>2, <3>3, <3>4
  <2>5. CASE \E c \in Contexts : EndPatching(c)
    <3>1. PICK c \in Contexts : EndPatching(c)
      BY <2>5
    <3>2. ~installed
      BY <1>0, <3>1 DEF EndPatching, Patching
    <3>3. patcher' = {} /\ wrapped' = 0 /\ installed' = TRUE
      BY <3>1 DEF EndPatching
    <3>4. PICK k \in wrapped..Len(Transports) :
             patches' = [i \in 1..Len(Transports) |->
                            IF wrapped < i /\ i <= k THEN patches[i] + 1 ELSE patches[i]]
      BY <3>1 DEF EndPatching
    <3>5. \A i \in 1..Len(Transports) : patches'[i] <= 1
      BY <1>0, <3>2, <3>4
    <3> QED BY <3>3, <3>5
  <2> QED BY <2>1, <2>2, <2>3, <2>4, <2>5, PatchesKept
<1> QED BY <1>1, <1>2, <1>3 DEF PatchInv

-----------------------------------------------------------------------------
(* What is filed where. *)

\* An event is filed under its block, or was a request that no label could be put on.
Filed(r, e) ==
    \/ e.block = r
    \/ r = NoRun /\ e.what = "request" /\ (Unpatched # {} \/ e.block \in hooked)

\* Every step keeps each event under the block its context was in.
LEMMA FiledStep ==
    ASSUME SdkTypes, NestInv, PlaceInv, PatchInv, FiledInv, NestInv', SdkTypes', [Next]_vars
    PROVE  FiledInv'
<1> USE DEF contextVars, postVars, patchVars, runVars, workVars
<1>0. /\ posts \subseteq Post /\ calls \subseteq [run : Labels, event : Events]
      /\ NoRun \in Labels /\ NoRun \notin RunIds
      /\ \A c \in Contexts : current[c] = BlockRun(c)
      /\ \A r \in Labels : \A i \in 1..Len(arrived[r]) : Filed(r, arrived[r][i])
      /\ \A t \in calls : t.event.block = t.run /\ t.event.what = "tool"
  BY LabelFacts DEF SdkTypes, FiledInv, FiledUnderItsBlock, NestInv, Filed
<1>1. \A c \in alive' : current'[c] = BlockRun(c)'
  BY DEF NestInv, SdkTypes
<1>2. \A t \in calls' : t.event.block = t.run /\ t.event.what = "tool"
  <2>1. ASSUME NEW c \in Contexts, CallTool(c)
        PROVE  \A t \in calls' : t.event.block = t.run /\ t.event.what = "tool"
    <3>1. Event("tool", c, BlockRun(c)).what = "tool"
          /\ Event("tool", c, BlockRun(c)).block = BlockRun(c)
      BY BlockRunType, EventTypes
    <3>2. calls' = calls \cup {[run |-> current[c], event |-> Event("tool", c, BlockRun(c))]}
      BY <2>1 DEF CallTool
    <3> QED BY <1>0, <3>1, <3>2
  <2>2. ASSUME NEW c \in Contexts,
               Blocks(c) \/ StartPosted(c) \/ EndPosted(c) \/ Labelling(c) \/ Hooking(c)
               \/ \E i \in 1..Len(Transports) : Request(c, i)
        PROVE  calls' = calls
    BY <2>2
    DEF Blocks, StartPosted, EndPosted, Labelling, Join, Adopt, Mint, LeaveJoined, LeaveAdopted,
        Leave, CancelStart, CancelEnd, HandOff, Await, Spawn, Labelled, LabelledInHook,
        BeginPatching, EndPatching, Hooking, Instrument, RunHook, EndHook, Request
  <2>3. ASSUME (\E t \in calls : FinishTool(t)) \/ Posting \/ PostingLate \/ ResumePosts
               \/ UNCHANGED vars
        PROVE  calls' \subseteq calls
    BY <2>3 DEF FinishTool, Posting, PostingLate, HandlePost, LosePost, ResumePosts, vars
  <2> QED BY <1>0, <2>1, <2>2, <2>3 DEF Next
<1>3. ASSUME NEW r \in Labels, NEW k \in 1..Len(arrived'[r])
      PROVE  Filed(r, arrived'[r][k])
  <2>1. CASE arrived' = arrived
    BY <1>0, <2>1
  <2>2. ASSUME NEW x \in Labels, NEW e \in Events, Arrives(x, e),
               Filed(x, e)
        PROVE  Filed(r, arrived'[r][k])
    <3>1. /\ \A i \in 1..Len(arrived[x]) : arrived'[x][i] = arrived[x][i]
          /\ arrived'[x][Len(arrived[x]) + 1] = e
          /\ \A i \in 1..Len(arrived'[x]) : i \in 1..Len(arrived[x]) \/ i = Len(arrived[x]) + 1
          /\ \A y \in Labels : y # x => arrived'[y] = arrived[y]
      BY <2>2, ArrivesFacts
    <3>2. CASE r = x
      BY <1>0, <2>2, <3>1, <3>2
    <3>3. CASE r # x
      BY <1>0, <3>1, <3>3
    <3> QED BY <3>2, <3>3
  <2>3. ASSUME NEW c \in Contexts, NEW i \in 1..Len(Transports), RequestArrives(c, i)
        PROVE  Filed(r, arrived'[r][k])
    <3>1. /\ LabelOn(c, i) \in Labels /\ Event("request", c, BlockRun(c)) \in Events
          /\ Event("request", c, BlockRun(c)).block = BlockRun(c)
          /\ Event("request", c, BlockRun(c)).what = "request"
      BY LabelOnType, BlockRunType, EventTypes
    <3>2. LabelOn(c, i) = BlockRun(c) \/ (LabelOn(c, i) = NoRun /\ Unpatched # {})
      BY <1>0 DEF LabelOn, Unpatched
    <3> QED BY <2>2, <2>3, <3>1, <3>2 DEF RequestArrives, Filed
  <2>4. ASSUME NEW t \in calls, ToolArrives(t)
        PROVE  Filed(r, arrived'[r][k])
    BY <1>0, <2>2, <2>4 DEF ToolArrives, Filed
  <2>5. ASSUME NEW p \in posts, PostArrives(p)
        PROVE  Filed(r, arrived'[r][k])
    BY <1>0, <2>2, <2>5, EventTypes DEF PostArrives, Filed
  <2> QED BY <2>1, <2>3, <2>4, <2>5, ArrivalSteps
<1>4. ASSUME NEW k \in 1..Len(arrived'[NoRun]), arrived'[NoRun][k].block # NoRun, Unpatched # {}
      PROVE  Unpatched' # {} \/ arrived'[NoRun][k].block \in hooked'
  <2>1. installed \/ arrived'[NoRun][k].block \in hooked'
    BY <1>4, UnlabelledStep, PatchesKept
  <2>2. ASSUME installed PROVE patches' = patches
    <3>1. patcher = {}
      BY <2>2 DEF PatchInv
    <3>2. ASSUME NEW c \in Contexts, LabelledInHook(c) \/ BeginPatching(c) \/ EndPatching(c) \/ RunHook(c)
          PROVE  FALSE
      BY <2>2, <3>1, <3>2 DEF LabelledInHook, BeginPatching, EndPatching, RunHook, Patching
    <3> QED BY <3>2, PatchesKept
  <2> QED BY <1>4, <2>1, <2>2 DEF Unpatched
<1>5. \A r \in Labels : \A i \in 1..Len(arrived'[r]) :
         \/ arrived'[r][i].block = r
         \/ /\ r = NoRun /\ arrived'[r][i].what = "request"
            /\ Unpatched' # {} \/ arrived'[r][i].block \in hooked'
  BY <1>3, <1>4, PatchesKept DEF Filed
<1> QED BY <1>1, <1>2, <1>5 DEF FiledInv, FiledUnderItsBlock

-----------------------------------------------------------------------------
(* What a step does to ids, entries and posts. *)

\* Posts on their way were, or are those of a run that starts or ends, or one that
\* its caller has given up.
StartsPost(c, p) == Mint(c) /\ p = [run |-> FreshRun, action |-> "start", late |-> FALSE]
EndsPost(c, p) == Leave(c) /\ ~paused /\ p = [run |-> Innermost(c).run, action |-> "end", late |-> FALSE]
GivesUp(q, p) ==
    /\ q \in posts /\ ~q.late /\ q \notin posts' /\ p = [q EXCEPT !.late = TRUE]
    /\ arrived' = arrived

\* Where a post comes from: it was there, its context sent it, or its caller gave up.
LEMMA PostSteps ==
    ASSUME [Next]_vars, NEW p \in posts'
    PROVE  \/ p \in posts
           \/ \E c \in Contexts : StartsPost(c, p) \/ EndsPost(c, p)
           \/ \E q \in posts : GivesUp(q, p)
<1> USE DEF contextVars, postVars, patchVars, runVars, workVars
<1>1. ASSUME NEW c \in Contexts, Mint(c) PROVE p \in posts \/ StartsPost(c, p)
  BY <1>1 DEF Mint, Send, StartsPost
<1>2. ASSUME NEW c \in Contexts, Leave(c) PROVE p \in posts \/ EndsPost(c, p)
  BY <1>2 DEF Leave, Send, EndsPost
<1>3. ASSUME NEW c \in Contexts,
             Join(c) \/ Adopt(c) \/ LeaveJoined(c) \/ LeaveAdopted(c) \/ CancelStart(c)
             \/ CancelEnd(c) \/ HandOff(c) \/ (\E r \in Runs : Await(c, r))
             \/ (\E d \in Contexts : Spawn(c, d)) \/ CallTool(c)
             \/ (\E i \in 1..Len(Transports) : Request(c, i))
             \/ StartPosted(c) \/ EndPosted(c) \/ Labelling(c) \/ Hooking(c)
      PROVE  posts' = posts
  BY <1>3
  DEF Join, Adopt, LeaveJoined, LeaveAdopted, CancelStart, CancelEnd, HandOff, Await, Spawn,
      CallTool, Request, StartPosted, EndPosted, Labelling, Labelled, LabelledInHook,
      BeginPatching, EndPatching, Hooking, Instrument, RunHook, EndHook
<1>4. ASSUME NEW q \in posts, LosePost(q) PROVE p \in posts \/ GivesUp(q, p)
  <2>1. ~q.late /\ (posts' = posts \ {q}
                    \/ (posts' = (posts \ {q}) \cup {[q EXCEPT !.late = TRUE]} /\ arrived' = arrived))
    BY <1>4 DEF LosePost
  <2>2. CASE posts' = posts \ {q}
    BY <2>2
  <2>3. CASE posts' = (posts \ {q}) \cup {[q EXCEPT !.late = TRUE]} /\ arrived' = arrived
    <3>1. q = [q EXCEPT !.late = TRUE] \/ q \notin posts'
      BY <2>3
    <3>2. CASE q = [q EXCEPT !.late = TRUE]
      BY <2>3, <3>2
    <3> QED BY <2>1, <2>3, <3>1, <3>2 DEF GivesUp
  <2> QED BY <2>1, <2>2, <2>3
<1>5. ASSUME (\E t \in calls : FinishTool(t)) \/ (\E q \in posts : HandlePost(q)) \/ ResumePosts
             \/ UNCHANGED vars
      PROVE  posts' \subseteq posts
  BY <1>5 DEF FinishTool, HandlePost, ResumePosts, vars
<1> QED BY <1>1, <1>2, <1>3, <1>4, <1>5 DEF Next, Blocks, Posting, PostingLate

\* An entry was known, or a spawned task inherits it, or it joins a run or adopts the
\* replay's, or its context enters a run that is new or was moved.
EntryKept(d, i) == i \in 1..Len(entries[d]) /\ entries'[d][i] = entries[d][i]
EntryInherited(d, i) ==
    /\ entries'[d][i].home # d
    /\ \E x \in Contexts : at[x] = "body" /\ i \in 1..Len(entries[x]) /\ entries'[d][i] = entries[x][i]
EntryOpened(c, r, d, i) ==
    /\ d = c /\ i = Len(entries[c]) + 1 /\ i = Len(entries'[c])
    /\ r \in RunIds /\ entries'[d][i].run = r /\ entries'[d][i].home = c

\* Where an entry comes from: it was there, or one context entered it.
LEMMA EntrySteps ==
    ASSUME SdkTypes, NestInv, PlaceInv, [Next]_vars
    PROVE  \E c \in Contexts, r \in Labels :
              /\ r \in RunIds => (Mint(c) /\ r = FreshRun) \/ Await(c, r)
              /\ \A d \in Contexts : \A i \in 1..Len(entries'[d]) :
                    \/ EntryKept(d, i) \/ EntryInherited(d, i)
                    \/ entries'[d][i].run \notin RunIds \/ EntryOpened(c, r, d, i)
<1> USE DEF contextVars, postVars, patchVars, runVars, workVars
<1>0. NoRun \in Labels /\ NoRun \notin RunIds /\ Root \in Contexts
  BY LabelFacts
<1>1. CASE entries' = entries
  <2>1. \A d \in Contexts : \A i \in 1..Len(entries'[d]) : EntryKept(d, i)
    BY <1>1 DEF EntryKept
  <2> QED BY <1>0, <2>1
<1>2. ASSUME NEW c \in Contexts, NEW r \in Runs, NEW e \in Entry, Pushed(c, e), e.run = r, e.home = c,
             r \in RunIds => (Mint(c) /\ r = FreshRun) \/ Await(c, r)
      PROVE  \A d \in Contexts : \A i \in 1..Len(entries'[d]) :
                \/ EntryKept(d, i)
                \/ entries'[d][i].run \notin RunIds \/ EntryOpened(c, r, d, i)
  <2>1. /\ Len(entries[c]) \in Nat /\ Len(entries'[c]) = Len(entries[c]) + 1
        /\ entries'[c][Len(entries[c]) + 1] = e
        /\ \A i \in 1..Len(entries[c]) : entries'[c][i] = entries[c][i]
        /\ \A d \in Contexts : d # c => entries'[d] = entries[d]
    BY <1>2, PushFacts
  <2> TAKE d \in Contexts
  <2>2. CASE d # c
    BY <2>1, <2>2 DEF EntryKept
  <2>3. CASE d = c
    <3> TAKE i \in 1..Len(entries'[d])
    <3>1. i \in 1..Len(entries[c]) \/ i = Len(entries[c]) + 1
      BY <2>1, <2>3
    <3>2. CASE i \in 1..Len(entries[c])
      BY <2>1, <2>3, <3>2 DEF EntryKept
    <3>3. CASE i = Len(entries[c]) + 1
      BY <1>2, <2>1, <2>3, <3>3 DEF EntryOpened
    <3> QED BY <3>1, <3>2, <3>3
  <2> QED BY <2>2, <2>3
<1>3. ASSUME NEW c \in Contexts, Join(c)
      PROVE  \A d \in Contexts : \A i \in 1..Len(entries'[d]) :
                EntryKept(d, i) \/ entries'[d][i].run \notin RunIds
  <2>1. PICK e \in Entry : e = [run |-> NoRun, before |-> NoRun, home |-> c] /\ e.run = NoRun
    BY JoinedEntry
  <2>2. Pushed(c, e)
    BY <1>3, <2>1 DEF Join, Pushed
  <2>3. /\ Len(entries[c]) \in Nat /\ Len(entries'[c]) = Len(entries[c]) + 1
        /\ entries'[c][Len(entries[c]) + 1] = e
        /\ \A i \in 1..Len(entries[c]) : entries'[c][i] = entries[c][i]
        /\ \A d \in Contexts : d # c => entries'[d] = entries[d]
    BY <2>2, PushFacts
  <2> TAKE d \in Contexts
  <2>4. CASE d # c
    BY <2>3, <2>4 DEF EntryKept
  <2>5. CASE d = c
    <3> TAKE i \in 1..Len(entries'[d])
    <3>1. i \in 1..Len(entries[c]) \/ i = Len(entries[c]) + 1
      BY <2>3, <2>5
    <3> QED BY <1>0, <2>1, <2>3, <2>5, <3>1 DEF EntryKept
  <2> QED BY <2>4, <2>5
<1>4. ASSUME NEW c \in Contexts, NEW r \in Runs,
             (Adopt(c) /\ r = ReplayRun) \/ (Mint(c) /\ r = FreshRun) \/ Await(c, r)
      PROVE  /\ r \in RunIds => (Mint(c) /\ r = FreshRun) \/ Await(c, r)
             /\ \A d \in Contexts : \A i \in 1..Len(entries'[d]) :
                   \/ EntryKept(d, i)
                   \/ entries'[d][i].run \notin RunIds \/ EntryOpened(c, r, d, i)
  <2>1. Open(c, r)
    BY <1>4 DEF Adopt, Mint, Await
  <2>2. PICK e \in Entry : e.run = r /\ e.home = c /\ Pushed(c, e)
    BY <2>1, OpenFacts
  <2>3. r \in RunIds => (Mint(c) /\ r = FreshRun) \/ Await(c, r)
    BY <1>4, LabelFacts
  <2> QED BY <1>2, <2>2, <2>3
<1>5. ASSUME NEW c \in Contexts,
             LeaveJoined(c) \/ LeaveAdopted(c) \/ HandOff(c)
             \/ EndPosted(c) \/ CancelStart(c) \/ CancelEnd(c)
      PROVE  \A d \in Contexts : \A i \in 1..Len(entries'[d]) : EntryKept(d, i)
  <2>1. entries[c] # <<>>
    BY <1>5
    DEF LeaveJoined, LeaveAdopted, HandOff, EndPosted, CancelStart, CancelEnd, InBlock, PlaceInv,
        Placed
  <2>2. Popped(c)
    BY <1>5
    DEF LeaveJoined, LeaveAdopted, HandOff, EndPosted, CancelStart, CancelEnd, Close, Popped
  <2> QED BY <2>1, <2>2, PopFacts DEF EntryKept
<1>6. ASSUME NEW c \in Contexts, NEW x \in Contexts, Spawn(c, x)
      PROVE  \A d \in Contexts : \A i \in 1..Len(entries'[d]) : EntryKept(d, i) \/ EntryInherited(d, i)
  <2>1. /\ entries'[x] = entries[c] /\ at[c] = "body"
        /\ \A d \in Contexts : d # x => entries'[d] = entries[d]
        /\ \A i \in 1..Len(entries[c]) : entries[c][i].home # x
    BY <1>6, SpawnFacts
  <2> QED BY <2>1 DEF EntryKept, EntryInherited
<1>7. ASSUME (\E c \in Contexts : StartPosted(c) \/ Leave(c) \/ Labelling(c) \/ Hooking(c) \/ CallTool(c)
                  \/ \E i \in 1..Len(Transports) : Request(c, i))
             \/ (\E t \in calls : FinishTool(t)) \/ Posting \/ PostingLate \/ ResumePosts
             \/ UNCHANGED vars
      PROVE  entries' = entries
  BY <1>7
  DEF StartPosted, Leave, Labelling, Labelled, LabelledInHook, BeginPatching, EndPatching,
      Hooking, Instrument, RunHook, EndHook, CallTool, Request, FinishTool, Posting,
      PostingLate, HandlePost, LosePost, ResumePosts, vars
<1>8. CASE \E c \in Contexts : Join(c)
  BY <1>0, <1>3, <1>8
<1>9. CASE \E c \in Contexts : Adopt(c)
  BY <1>4, <1>9, LabelFacts
<1>10. CASE \E c \in Contexts : Mint(c)
  <2>1. FreshRun \in Runs /\ FreshRun \in Labels
    BY <1>10, FreshIsNew, LabelFacts DEF Mint, SdkTypes
  <2> QED BY <1>4, <1>10, <2>1
<1>11. CASE \E c \in Contexts, r \in Runs : Await(c, r)
  BY <1>4, <1>11, LabelFacts
<1>12. CASE \E c \in Contexts : LeaveJoined(c) \/ LeaveAdopted(c) \/ HandOff(c)
                \/ EndPosted(c) \/ CancelStart(c) \/ CancelEnd(c)
  BY <1>0, <1>5, <1>12
<1>13. CASE \E c, x \in Contexts : Spawn(c, x)
  BY <1>0, <1>6, <1>13
<1> QED
  BY <1>1, <1>7, <1>8, <1>9, <1>10, <1>11, <1>12, <1>13 DEF Next, Blocks

\* A context waits for its post at the block it entered until it is done.
LEMMA WaitingSteps ==
    ASSUME SdkTypes, NestInv, PlaceInv, PatchInv, [Next]_vars, NEW d \in Contexts,
           at[d] \in {"starting", "ending"}
    PROVE  \/ at'[d] = at[d] /\ entries'[d] = entries[d]
           \/ at[d] = "starting" /\ StartPosted(d)
           \/ \A i \in 1..Len(entries'[d]) : i # Len(entries[d])
<1> USE DEF contextVars, postVars, patchVars, runVars, workVars
<1>0. /\ at \in [Contexts -> Places] /\ entries \in [Contexts -> Seq(Entry)]
      /\ entries[d] # <<>> /\ d \in alive
  BY DEF SdkTypes, PlaceInv, Placed, InBlock, PatchInv
<1>1. ASSUME NEW c \in Contexts,
             Join(c) \/ Adopt(c) \/ Mint(c) \/ (\E r \in Runs : Await(c, r))
      PROVE  at'[d] = at[d] /\ entries'[d] = entries[d]
  BY <1>0, <1>1 DEF Join, Adopt, Mint, Await, MayEnter, Open
<1>2. ASSUME NEW c \in Contexts, EndPosted(c) \/ CancelStart(c) \/ CancelEnd(c)
      PROVE  \/ at'[d] = at[d] /\ entries'[d] = entries[d]
             \/ \A i \in 1..Len(entries'[d]) : i # Len(entries[d])
  <2>1. Popped(c) /\ at'[c] = "body" /\ \A x \in Contexts : x # c => at'[x] = at[x]
    BY <1>0, <1>2 DEF EndPosted, CancelStart, CancelEnd, Close, Popped
  <2>2. CASE d = c
    BY <1>0, <2>1, <2>2, PopFacts
  <2>3. CASE d # c
    BY <1>0, <2>1, <2>3 DEF Popped
  <2> QED BY <2>2, <2>3
<1>3. ASSUME NEW c \in Contexts, LeaveJoined(c) \/ LeaveAdopted(c) \/ HandOff(c)
      PROVE  at'[d] = at[d] /\ entries'[d] = entries[d]
  BY <1>0, <1>3 DEF LeaveJoined, LeaveAdopted, HandOff, Close
<1>4. ASSUME NEW c \in Contexts, Leave(c) \/ Labelling(c) \/ Hooking(c)
      PROVE  at'[d] = at[d] /\ entries'[d] = entries[d]
  BY <1>0, <1>4 DEF Leave, Labelling, Labelled, LabelledInHook, BeginPatching, EndPatching,
      Hooking, Instrument, RunHook, EndHook, GoToBody, Patching
<1>5. ASSUME NEW c \in Contexts, StartPosted(c)
      PROVE  (at'[d] = at[d] /\ entries'[d] = entries[d]) \/ (at[d] = "starting" /\ StartPosted(d))
  <2>1. CASE c = d
    BY <1>5, <2>1 DEF StartPosted
  <2>2. CASE c # d
    BY <1>0, <1>5, <2>2 DEF StartPosted
  <2> QED BY <2>1, <2>2
<1>6. ASSUME NEW c \in Contexts, NEW x \in Contexts, Spawn(c, x)
      PROVE  at'[d] = at[d] /\ entries'[d] = entries[d]
  BY <1>0, <1>6 DEF Spawn
<1>7. ASSUME (\E c \in Contexts : CallTool(c) \/ \E i \in 1..Len(Transports) : Request(c, i))
             \/ (\E t \in calls : FinishTool(t)) \/ Posting \/ PostingLate \/ ResumePosts
             \/ UNCHANGED vars
      PROVE  at' = at /\ entries' = entries
  BY <1>7
  DEF CallTool, Request, FinishTool, Posting, PostingLate, HandlePost, LosePost, ResumePosts, vars
<1> QED BY <1>1, <1>2, <1>3, <1>4, <1>5, <1>6, <1>7 DEF Next, Blocks

-----------------------------------------------------------------------------
(* Who has entered a run. *)

\* The innermost block, if its context entered it, is an entry that it owns.
LEMMA InnermostOwned ==
    ASSUME SdkTypes, NEW c \in Contexts, InBlock(c)
    PROVE  /\ Len(entries[c]) \in 1..Len(entries[c])
           /\ Innermost(c) = entries[c][Len(entries[c])]
           /\ Innermost(c).run \in RunIds => Owned(c, Len(entries[c]))
<1>1. entries[c] # <<>> /\ Innermost(c).home = c
  BY DEF InBlock
<1>2. /\ Innermost(c) = entries[c][Len(entries[c])]
      /\ Len(entries[c]) \in Nat /\ Len(entries[c]) > 0
  BY <1>1, InnermostFacts
<1> QED BY <1>1, <1>2 DEF Owned

\* The run a context's code is in has been minted, and one that a body is in and its
\* context entered is not tried, nor moved.
LEMMA BodyRunFacts ==
    ASSUME SdkTypes, NestInv, OwnerInv, NEW c \in Contexts
    PROVE  /\ current[c] = BlockRun(c) /\ BlockRun(c) \in Labels
           /\ BlockRun(c) \in RunIds =>
                 BlockRun(c) \in minted
                 /\ \E i \in 1..Len(entries[c]) : entries[c][i].run = BlockRun(c)
<1>1. current[c] = BlockRun(c) /\ BlockRun(c) \in Labels
  BY BlockRunType DEF NestInv
<1>2. ASSUME BlockRun(c) \in RunIds
      PROVE  BlockRun(c) \in minted
             /\ \E i \in 1..Len(entries[c]) : entries[c][i].run = BlockRun(c)
  <2>1. \E i \in 1..Len(entries[c]) : entries[c][i].run = BlockRun(c)
    BY <1>2, BlockIsEntered, LabelFacts
  <2> QED BY <1>2, <2>1 DEF OwnerInv
<1> QED BY <1>1, <1>2

\* A run that a step opens was nobody's.
LEMMA OpenedRunFacts ==
    ASSUME SdkTypes, OwnerInv, NEW c \in Contexts, NEW r \in RunIds,
           (Mint(c) /\ r = FreshRun) \/ Await(c, r)
    PROVE  /\ r \notin tried' /\ tried' = tried /\ r \notin handed' /\ handed' \subseteq handed
           /\ r \in minted'
           /\ \A d \in Contexts : \A i \in 1..Len(entries[d]) : Owned(d, i) => entries[d][i].run # r
           /\ r \in minted => Await(c, r) /\ r \in handed
<1>1. CASE Mint(c) /\ r = FreshRun
  <2>1. /\ r \notin minted /\ minted' = minted \cup {r} /\ tried' = tried /\ handed' = handed
    BY <1>1, FreshIsNew DEF Mint, SdkTypes, runVars
  <2> QED BY <2>1 DEF OwnerInv, Owned
<1>2. CASE Await(c, r)
  <2>1. /\ r \in handed /\ minted' = minted /\ tried' = tried /\ handed' = handed \ {r}
    BY <1>2 DEF Await
  <2> QED BY <1>2, <2>1 DEF OwnerInv
<1> QED BY <1>1, <1>2

\* Every step leaves a minted run with one owner.
LEMMA OwnerStep ==
    ASSUME SdkTypes, NestInv, PlaceInv, PatchInv, OwnerInv, [Next]_vars, SdkTypes'
    PROVE  OwnerInv'
<1>0. /\ \A c, d \in Contexts : \A i \in 1..Len(entries[c]), j \in 1..Len(entries[d]) :
            Owned(c, i) /\ Owned(d, j) /\ entries[c][i].run = entries[d][j].run => c = d /\ i = j
      /\ \A c \in Contexts : \A i \in 1..Len(entries[c]) :
            /\ entries[c][i].run \in RunIds => entries[c][i].run \in minted
            /\ Owned(c, i) => entries[c][i].run \notin handed
            /\ Owned(c, i) /\ entries[c][i].run \in tried => at[c] = "ending" /\ i = Len(entries[c])
      /\ handed \cap RunIds \subseteq minted
      /\ handed \cap tried = {}
      /\ tried \subseteq minted
      /\ \A p \in posts : p.run \in minted
      /\ \A r \in RunIds \ minted : arrived[r] = <<>> /\ \A t \in calls : t.run # r
  BY DEF OwnerInv
<1>1. PICK c \in Contexts, r \in Labels :
         /\ r \in RunIds => (Mint(c) /\ r = FreshRun) \/ Await(c, r)
         /\ \A d \in Contexts : \A i \in 1..Len(entries'[d]) :
               \/ EntryKept(d, i) \/ EntryInherited(d, i)
               \/ entries'[d][i].run \notin RunIds \/ EntryOpened(c, r, d, i)
  BY EntrySteps
<1>2. ASSUME r \in RunIds
      PROVE  /\ r \notin tried' /\ r \notin handed' /\ r \in minted'
             /\ \A d \in Contexts : \A i \in 1..Len(entries[d]) : Owned(d, i) => entries[d][i].run # r
  BY <1>1, <1>2, OpenedRunFacts
<1>3. ASSUME NEW d \in Contexts, NEW i \in 1..Len(entries'[d]),
             entries'[d][i].home = d, entries'[d][i].run \in RunIds
      PROVE  \/ i \in 1..Len(entries[d]) /\ Owned(d, i) /\ entries'[d][i] = entries[d][i]
             \/ EntryOpened(c, r, d, i)
  BY <1>1, <1>3 DEF EntryKept, EntryInherited, Owned
<1>4. ASSUME NEW x \in Contexts, Leave(x) \/ HandOff(x)
      PROVE  /\ InBlock(x) /\ at[x] = "body" /\ Len(entries[x]) \in 1..Len(entries[x])
             /\ Innermost(x).run = entries[x][Len(entries[x])].run
             /\ Innermost(x).run \in RunIds =>
                   /\ Owned(x, Len(entries[x])) /\ Innermost(x).run \in minted
                   /\ Innermost(x).run \notin handed /\ Innermost(x).run \notin tried
  <2>1. InBlock(x) /\ at[x] = "body"
    BY <1>4 DEF Leave, HandOff
  <2>2. /\ Len(entries[x]) \in 1..Len(entries[x])
        /\ Innermost(x) = entries[x][Len(entries[x])]
        /\ Innermost(x).run \in RunIds => Owned(x, Len(entries[x]))
    BY <2>1, InnermostOwned
  <2> QED BY <1>0, <2>1, <2>2
<1>5. ASSUME NEW d \in Contexts, NEW x \in Contexts, NEW i \in 1..Len(entries'[d]),
             NEW j \in 1..Len(entries'[x]),
             entries'[d][i].home = d, entries'[d][i].run \in RunIds,
             entries'[x][j].home = x, entries'[x][j].run \in RunIds,
             entries'[d][i].run = entries'[x][j].run
      PROVE  d = x /\ i = j
  <2>1. CASE EntryOpened(c, r, d, i)
    <3>1. r \in RunIds /\ entries'[x][j].run = r
      BY <1>5, <2>1 DEF EntryOpened
    <3>2. EntryOpened(c, r, x, j)
      BY <1>2, <1>3, <1>5, <3>1
    <3> QED BY <2>1, <3>2 DEF EntryOpened
  <2>2. CASE i \in 1..Len(entries[d]) /\ Owned(d, i) /\ entries'[d][i] = entries[d][i]
    <3>1. ~EntryOpened(c, r, x, j)
      BY <1>2, <1>5, <2>2 DEF EntryOpened
    <3>2. j \in 1..Len(entries[x]) /\ Owned(x, j) /\ entries'[x][j] = entries[x][j]
      BY <1>3, <1>5, <3>1
    <3> QED BY <1>0, <1>5, <2>2, <3>2
  <2> QED BY <1>3, <1>5, <2>1, <2>2
<1>6. ASSUME NEW d \in Contexts, NEW i \in 1..Len(entries'[d]), entries'[d][i].run \in RunIds
      PROVE  entries'[d][i].run \in minted'
  <2>1. minted \subseteq minted'
    BY Grows
  <2> QED BY <1>0, <1>1, <1>2, <1>6, <2>1 DEF EntryKept, EntryInherited, EntryOpened
<1>7. ASSUME NEW d \in Contexts, NEW i \in 1..Len(entries'[d]),
             entries'[d][i].home = d, entries'[d][i].run \in RunIds
      PROVE  entries'[d][i].run \notin handed'
  <2>1. CASE EntryOpened(c, r, d, i)
    BY <1>2, <2>1 DEF EntryOpened
  <2>2. CASE i \in 1..Len(entries[d]) /\ Owned(d, i) /\ entries'[d][i] = entries[d][i]
    <3>1. CASE handed' \subseteq handed
      BY <1>0, <2>2, <3>1
    <3>2. ASSUME NEW x \in Contexts, HandOff(x), entries[d][i].run = Innermost(x).run PROVE FALSE
      <4>1. Owned(x, Len(entries[x])) /\ Len(entries[x]) \in 1..Len(entries[x])
            /\ entries[d][i].run = entries[x][Len(entries[x])].run
        BY <1>4, <1>7, <2>2, <3>2
      <4>2. d = x /\ i = Len(entries[x])
        BY <1>0, <2>2, <4>1
      <4>3. Popped(x) /\ entries[x] # <<>>
        BY <3>2 DEF HandOff, Close, Popped, InBlock
      <4>4. \A k \in 1..Len(entries'[x]) : k # Len(entries[x])
        BY <4>3, PopFacts
      <4> QED BY <4>2, <4>4
    <3>3. ASSUME NEW x \in Contexts, HandOff(x) PROVE entries'[d][i].run \notin handed'
      <4>1. handed' = handed \cup {Innermost(x).run}
        BY <3>3 DEF HandOff
      <4> QED BY <1>0, <2>2, <3>2, <3>3, <4>1
    <3> QED BY <3>1, <3>3, IdSteps
  <2> QED BY <1>3, <1>7, <2>1, <2>2
<1>8. ASSUME NEW d \in Contexts, NEW i \in 1..Len(entries'[d]),
             entries'[d][i].home = d, entries'[d][i].run \in RunIds, entries'[d][i].run \in tried'
      PROVE  at'[d] = "ending" /\ i = Len(entries'[d])
  <2>1. i \in 1..Len(entries[d]) /\ Owned(d, i) /\ entries'[d][i] = entries[d][i]
    BY <1>2, <1>3, <1>8 DEF EntryOpened
  <2>2. CASE entries[d][i].run \in tried
    <3>1. at[d] = "ending" /\ i = Len(entries[d])
      BY <1>0, <2>1, <2>2
    <3>2. at'[d] = at[d] /\ entries'[d] = entries[d]
      BY <3>1, WaitingSteps
    <3> QED BY <3>1, <3>2
  <2>3. CASE entries[d][i].run \notin tried
    <3>1. PICK x \in Contexts : Leave(x)
      BY <1>8, <2>1, <2>3, IdSteps
    <3>2. tried' = tried \cup {Innermost(x).run} /\ entries' = entries /\ at'[x] = "ending"
      BY <3>1 DEF Leave, SdkTypes
    <3>3. entries[d][i].run = Innermost(x).run
      BY <1>8, <2>1, <2>3, <3>2
    <3>4. Owned(x, Len(entries[x])) /\ Len(entries[x]) \in 1..Len(entries[x])
          /\ entries[d][i].run = entries[x][Len(entries[x])].run
      BY <1>4, <1>8, <2>1, <3>1, <3>3
    <3>5. d = x /\ i = Len(entries[x])
      BY <1>0, <2>1, <3>4
    <3> QED BY <3>2, <3>5
  <2> QED BY <2>2, <2>3
<1>9. handed' \cap RunIds \subseteq minted'
  <2>1. minted \subseteq minted'
    BY Grows
  <2>2. CASE handed' \subseteq handed
    BY <1>0, <2>1, <2>2
  <2>3. ASSUME NEW x \in Contexts, HandOff(x) PROVE handed' \cap RunIds \subseteq minted'
    <3>1. handed' = handed \cup {Innermost(x).run}
      BY <2>3 DEF HandOff
    <3> QED BY <1>0, <1>4, <2>1, <2>3, <3>1
  <2> QED BY <2>2, <2>3, IdSteps
<1>10. handed' \cap tried' = {} /\ tried' \subseteq minted'
  <2>0. minted \subseteq minted' /\ tried \subseteq RunIds
    BY Grows DEF SdkTypes
  <2>1. ASSUME NEW x \in Contexts, HandOff(x) PROVE handed' \cap tried' = {} /\ tried' \subseteq minted'
    <3>1. handed' = handed \cup {Innermost(x).run} /\ tried' = tried
      BY <2>1 DEF HandOff
    <3>2. Innermost(x).run \notin tried
      BY <1>4, <2>0, <2>1
    <3> QED BY <1>0, <2>0, <3>1, <3>2
  <2>2. ASSUME NEW x \in Contexts, Leave(x) PROVE handed' \cap tried' = {} /\ tried' \subseteq minted'
    <3>1. handed' = handed /\ tried' = tried \cup {Innermost(x).run} /\ Innermost(x).run \in RunIds
      BY <2>2 DEF Leave
    <3> QED BY <1>0, <1>4, <2>0, <2>2, <3>1
  <2>3. CASE tried' = tried /\ handed' \subseteq handed
    BY <1>0, <2>0, <2>3
  <2> QED BY <2>1, <2>2, <2>3, IdSteps
<1>11. ASSUME NEW p \in posts' PROVE p.run \in minted'
  <2>0. minted \subseteq minted'
    BY Grows
  <2>1. CASE p \in posts
    BY <1>0, <2>0, <2>1
  <2>2. ASSUME NEW x \in Contexts, StartsPost(x, p) PROVE p.run \in minted'
    BY <2>2 DEF StartsPost, Mint
  <2>3. ASSUME NEW x \in Contexts, EndsPost(x, p) PROVE p.run \in minted'
    <3>1. Innermost(x).run \in RunIds /\ Leave(x) /\ p.run = Innermost(x).run
      BY <2>3 DEF EndsPost, Leave
    <3> QED BY <1>4, <2>0, <3>1
  <2>4. ASSUME NEW q \in posts, GivesUp(q, p) PROVE p.run \in minted'
    <3>1. p.run = q.run
      BY <2>4 DEF GivesUp, SdkTypes, Post
    <3> QED BY <1>0, <2>0, <3>1
  <2> QED BY <2>1, <2>2, <2>3, <2>4, PostSteps
<1>12. ASSUME NEW x \in RunIds \ minted' PROVE arrived'[x] = <<>> /\ \A t \in calls' : t.run # x
  <2>0. /\ x \in RunIds /\ x \notin minted /\ x \in Labels /\ arrived[x] = <<>>
        /\ \A t \in calls : t.run # x
        /\ posts \subseteq Post /\ calls \subseteq [run : Labels, event : Events]
        /\ NoRun \notin RunIds
    BY <1>0, Grows, LabelFacts DEF SdkTypes
  <2>1. arrived'[x] = <<>>
    <3>1. ASSUME NEW y \in Labels, NEW e \in Events, Arrives(y, e), y # x PROVE arrived'[x] = <<>>
      BY <2>0, <3>1, ArrivesFacts
    <3>2. ASSUME NEW d \in Contexts, NEW i \in 1..Len(Transports), RequestArrives(d, i)
          PROVE  arrived'[x] = <<>>
      <4>1. LabelOn(d, i) \in Labels /\ Event("request", d, BlockRun(d)) \in Events
        BY LabelOnType, BlockRunType, EventTypes
      <4>2. LabelOn(d, i) # x
        BY <2>0, BodyRunFacts DEF LabelOn
      <4> QED BY <3>1, <3>2, <4>1, <4>2 DEF RequestArrives
    <3>3. ASSUME NEW t \in calls, ToolArrives(t) PROVE arrived'[x] = <<>>
      BY <2>0, <3>1, <3>3 DEF ToolArrives
    <3>4. ASSUME NEW p \in posts, PostArrives(p) PROVE arrived'[x] = <<>>
      BY <1>0, <2>0, <3>1, <3>4, EventTypes DEF PostArrives
    <3> QED BY <2>0, <3>2, <3>3, <3>4, ArrivalSteps
  <2>2. \A t \in calls' : t.run # x
    <3>1. CASE calls' \subseteq calls
      BY <2>0, <3>1
    <3>2. ASSUME NEW d \in Contexts, CallTool(d) PROVE \A t \in calls' : t.run # x
      <4>1. current[d] # x
        BY <2>0, BodyRunFacts
      <4>2. calls' = calls \cup {[run |-> current[d], event |-> Event("tool", d, BlockRun(d))]}
        BY <3>2 DEF CallTool
      <4> QED BY <2>0, <4>1, <4>2
    <3> QED BY <3>1, <3>2, IdSteps
  <2> QED BY <2>1, <2>2
<1>13. /\ \A d, x \in Contexts : \A i \in 1..Len(entries'[d]), j \in 1..Len(entries'[x]) :
             /\ entries'[d][i].home = d /\ entries'[d][i].run \in RunIds
             /\ entries'[x][j].home = x /\ entries'[x][j].run \in RunIds
             /\ entries'[d][i].run = entries'[x][j].run
             => d = x /\ i = j
       /\ \A d \in Contexts : \A i \in 1..Len(entries'[d]) :
             /\ entries'[d][i].run \in RunIds => entries'[d][i].run \in minted'
             /\ entries'[d][i].home = d /\ entries'[d][i].run \in RunIds =>
                   /\ entries'[d][i].run \notin handed'
                   /\ entries'[d][i].run \in tried' => at'[d] = "ending" /\ i = Len(entries'[d])
  BY <1>5, <1>6, <1>7, <1>8
<1> QED BY <1>9, <1>10, <1>11, <1>12, <1>13 DEF OwnerInv, Owned

-----------------------------------------------------------------------------
(* Starts and ends. *)

\* What arrives of a minted run is a post of it, a request made in its block, or a
\* call made there.
LEMMA ArrivalOf ==
    ASSUME SdkTypes, NestInv, FiledInv, [Next]_vars, NEW r \in RunIds,
           arrived'[r] # arrived[r]
    PROVE  \E e \in Events :
              /\ Arrives(r, e)
              /\ \/ \E p \in posts : PostArrives(p) /\ p.run = r /\ e = PostEvent(p)
                 \/ \E c \in Contexts : /\ c \in alive /\ at[c] = "body" /\ BlockRun(c) = r
                                        /\ e = Event("request", c, r) /\ posts' = posts
                 \/ \E t \in calls : t.run = r /\ e = t.event /\ e.what = "tool" /\ posts' = posts
<1> USE DEF contextVars, postVars, patchVars, runVars, workVars
<1>0. /\ posts \subseteq Post /\ calls \subseteq [run : Labels, event : Events]
      /\ r \in Labels /\ r # NoRun
      /\ \A t \in calls : t.event.what = "tool"
  BY LabelFacts DEF SdkTypes, FiledInv
<1>1. ASSUME NEW x \in Labels, NEW e \in Events, Arrives(x, e) PROVE x = r
  BY <1>0, <1>1, ArrivesFacts
<1>2. ASSUME NEW c \in Contexts, NEW i \in 1..Len(Transports), RequestArrives(c, i)
      PROVE  /\ c \in alive /\ at[c] = "body" /\ BlockRun(c) = r /\ posts' = posts
             /\ Event("request", c, r) \in Events /\ Arrives(r, Event("request", c, r))
  <2>1. LabelOn(c, i) \in Labels /\ Event("request", c, BlockRun(c)) \in Events
    BY LabelOnType, BlockRunType, EventTypes
  <2>2. LabelOn(c, i) = r
    BY <1>1, <1>2, <2>1 DEF RequestArrives
  <2>3. BlockRun(c) = r
    BY <1>0, <2>2 DEF LabelOn, NestInv
  <2> QED BY <1>2, <2>1, <2>2, <2>3 DEF RequestArrives
<1>3. ASSUME NEW t \in calls, ToolArrives(t)
      PROVE  t.run = r /\ t.event \in Events /\ Arrives(r, t.event) /\ t.event.what = "tool"
             /\ posts' = posts
  <2>1. t.run \in Labels /\ t.event \in Events
    BY <1>0
  <2> QED BY <1>0, <1>1, <1>3, <2>1 DEF ToolArrives
<1>4. ASSUME NEW p \in posts, PostArrives(p)
      PROVE  p.run = r /\ PostEvent(p) \in Events /\ Arrives(r, PostEvent(p))
  <2>1. p.run \in Labels /\ PostEvent(p) \in Events
    BY <1>0, EventTypes
  <2> QED BY <1>1, <1>4, <2>1 DEF PostArrives
<1> QED BY <1>2, <1>3, <1>4, ArrivalSteps

\* Nothing of a run arrives while its caller waits for the start.
LEMMA NothingBeforeStart ==
    ASSUME SdkTypes, NestInv, FiledInv, OwnerInv, StartInv, EndInv, [Next]_vars,
           NEW p \in posts, p.action = "start", ~p.late, p \in posts'
    PROVE  arrived'[p.run] = <<>>
<1>0. /\ posts \subseteq Post /\ p.run \in RunIds /\ arrived[p.run] = <<>>
      /\ p.run \notin tried /\ \A t \in calls : t.run # p.run
      /\ \A c \in Contexts : \A i \in 1..Len(entries[c]) :
            entries[c][i].run = p.run => at[c] = "starting"
      /\ \A q \in posts : q.run = p.run /\ q.action = "start" => q = p
      /\ \A q \in posts : q.action = "end" => q.run \in tried
  BY EventTypes DEF SdkTypes, StartInv, EndInv
<1>1. SUFFICES ASSUME arrived'[p.run] # arrived[p.run] PROVE FALSE
  BY <1>0
<1>2. ASSUME NEW q \in posts, PostArrives(q), q.run = p.run PROVE FALSE
  <2>1. q.action = "start" \/ q.action = "end"
    BY <1>0, EventTypes
  <2>2. q = p
    BY <1>0, <1>2, <2>1
  <2> QED BY <1>2, <2>2 DEF PostArrives
<1>3. ASSUME NEW c \in Contexts, at[c] = "body", BlockRun(c) = p.run PROVE FALSE
  BY <1>0, <1>3, BodyRunFacts
<1> QED BY <1>0, <1>1, <1>2, <1>3, ArrivalOf

\* A start that arrives was on its way.
LEMMA StartArrives ==
    ASSUME SdkTypes, NestInv, FiledInv, [Next]_vars, NEW r \in RunIds, NEW what \in {"start", "end"},
           NEW k \in 1..Len(arrived'[r]), arrived'[r][k].what = what
    PROVE  \/ k \in 1..Len(arrived[r]) /\ arrived[r][k].what = what
           \/ \E p \in posts : p.run = r /\ p.action = what /\ PostArrives(p)
<1>0. r \in Labels /\ posts \subseteq Post
  BY LabelFacts DEF SdkTypes
<1>1. CASE arrived'[r] = arrived[r]
  BY <1>1
<1>2. CASE arrived'[r] # arrived[r]
  <2>1. PICK e \in Events :
           /\ Arrives(r, e)
           /\ \/ \E p \in posts : PostArrives(p) /\ p.run = r /\ e = PostEvent(p)
              \/ \E c \in Contexts : /\ c \in alive /\ at[c] = "body" /\ BlockRun(c) = r
                                     /\ e = Event("request", c, r) /\ posts' = posts
              \/ \E t \in calls : t.run = r /\ e = t.event /\ e.what = "tool" /\ posts' = posts
    BY <1>2, ArrivalOf
  <2>2. /\ \A i \in 1..Len(arrived[r]) : arrived'[r][i] = arrived[r][i]
        /\ arrived'[r][Len(arrived[r]) + 1] = e
        /\ k \in 1..Len(arrived[r]) \/ k = Len(arrived[r]) + 1
    BY <1>0, <2>1, ArrivesFacts
  <2>3. CASE k \in 1..Len(arrived[r])
    BY <2>2, <2>3
  <2>4. CASE k = Len(arrived[r]) + 1
    <3>1. e.what = what
      BY <2>2, <2>4
    <3>2. \A c \in Contexts : Event("request", c, r).what = "request"
      BY <1>0, EventTypes
    <3>3. PICK p \in posts : PostArrives(p) /\ p.run = r /\ e = PostEvent(p)
      BY <2>1, <3>1, <3>2
    <3>4. p.action = what
      BY <1>0, <3>1, <3>3, EventTypes
    <3> QED BY <3>3, <3>4
  <2> QED BY <2>2, <2>3, <2>4
<1> QED BY <1>1, <1>2

\* Giving a post up keeps whose it is.
LEMMA GivenUpFacts ==
    ASSUME SdkTypes, NEW q \in posts, NEW p, GivesUp(q, p)
    PROVE  /\ p.run = q.run /\ p.action = q.action /\ p.late = TRUE
           /\ q \notin posts' /\ arrived' = arrived
<1>1. q \in Post
  BY DEF SdkTypes
<1> QED BY <1>1 DEF GivesUp, Post

\* A run has one start and one end on their way, if a post that is made has none.
LEMMA OnePost ==
    ASSUME SdkTypes, [Next]_vars, NEW what,
           \A p, q \in posts : p.action = what /\ q.action = what /\ q.run = p.run => q = p,
           \A p \in posts' : p.action = what /\ (\E c \in Contexts : StartsPost(c, p) \/ EndsPost(c, p))
                              => \A q \in posts : q.action = what => q.run # p.run
    PROVE  \A p, q \in posts' : p.action = what /\ q.action = what /\ q.run = p.run => q = p
<1> DEFINE New(p) == \E c \in Contexts : StartsPost(c, p) \/ EndsPost(c, p)
<1>1. ASSUME NEW p \in posts', p.action = what
      PROVE  p \in posts \/ New(p) \/ \E x \in posts : GivesUp(x, p) /\ x.action = what /\ x.run = p.run
  BY <1>1, PostSteps, GivenUpFacts
<1>2. ASSUME NEW p \in posts', NEW q \in posts', p.action = what, q.action = what, q.run = p.run, New(p)
      PROVE  q = p
  <2>1. \A x \in posts : x.action = what => x.run # q.run
    BY <1>2
  <2>2. New(q)
    BY <1>1, <1>2, <2>1
  <2>3. PICK x, action : p = [run |-> x, action |-> action, late |-> FALSE]
    BY <1>2 DEF StartsPost, EndsPost
  <2>4. PICK y, other : q = [run |-> y, action |-> other, late |-> FALSE]
    BY <2>2 DEF StartsPost, EndsPost
  <2>5. x = y /\ action = other
    BY <1>2, <2>3, <2>4
  <2> QED BY <2>3, <2>4, <2>5
<1>3. ASSUME NEW p \in posts', NEW q \in posts', p.action = what, q.action = what, q.run = p.run,
             NEW x \in posts, GivesUp(x, p), x.action = what, x.run = p.run
      PROVE  q = p
  <2>1. CASE q \in posts
    <3>1. q = x
      BY <1>3, <2>1
    <3> QED BY <1>3, <3>1, GivenUpFacts
  <2>2. CASE New(q)
    BY <1>2, <1>3, <2>2
  <2>3. ASSUME NEW y \in posts, GivesUp(y, q), y.action = what, y.run = q.run PROVE q = p
    <3>1. x = y
      BY <1>3, <2>3
    <3>2. p = [x EXCEPT !.late = TRUE]
      BY <1>3 DEF GivesUp
    <3>3. q = [y EXCEPT !.late = TRUE]
      BY <2>3 DEF GivesUp
    <3> QED BY <3>1, <3>2, <3>3
  <2> QED BY <1>1, <1>3, <2>1, <2>2, <2>3
<1>4. ASSUME NEW p \in posts', NEW q \in posts', p.action = what, q.action = what, q.run = p.run
      PROVE  q = p
  <2>1. CASE New(p) \/ New(q)
    BY <1>2, <1>4, <2>1
  <2>2. CASE p \in posts /\ q \in posts
    BY <1>4, <2>2
  <2>3. CASE \E x \in posts : GivesUp(x, p) /\ x.action = what /\ x.run = p.run
    BY <1>3, <1>4, <2>3
  <2>4. CASE \E x \in posts : GivesUp(x, q) /\ x.action = what /\ x.run = q.run
    BY <1>3, <1>4, <2>4
  <2> QED BY <1>1, <1>4, <2>1, <2>2, <2>3, <2>4
<1> QED BY <1>4

\* Every step keeps the one start of each run.
LEMMA StartStep ==
    ASSUME SdkTypes, NestInv, PlaceInv, PatchInv, FiledInv, OwnerInv, StartInv, EndInv,
           [Next]_vars, SdkTypes'
    PROVE  StartInv'
<1>0. /\ posts \subseteq Post /\ posts' \subseteq Post /\ RunIds \subseteq Labels
      /\ \A p \in posts : p.run \in minted
      /\ \A p \in posts : p.action = "start" =>
            /\ \A q \in posts : q.run = p.run /\ q.action = "start" => q = p
            /\ \A i \in 1..Len(arrived[p.run]) : arrived[p.run][i].what # "start"
            /\ ~p.late =>
                  /\ arrived[p.run] = <<>>
                  /\ p.run \notin handed \cup tried
                  /\ \A t \in calls : t.run # p.run
                  /\ \A c \in Contexts : \A i \in 1..Len(entries[c]) :
                        entries[c][i].run = p.run =>
                            at[c] = "starting" /\ entries[c][i].home = c /\ i = Len(entries[c])
  BY LabelFacts DEF SdkTypes, OwnerInv, StartInv
<1>1. ASSUME NEW c \in Contexts, NEW p, StartsPost(c, p)
      PROVE  /\ p.action = "start" /\ p.run = FreshRun /\ p.run \in RunIds /\ p.run \notin minted
             /\ minted' = minted \cup {p.run} /\ arrived' = arrived /\ arrived[p.run] = <<>>
             /\ handed' = handed /\ tried' = tried /\ calls' = calls
             /\ p.run \notin handed /\ p.run \notin tried /\ \A t \in calls : t.run # p.run
             /\ at'[c] = "starting" /\ Mint(c)
  <2>1. Mint(c) /\ p = [run |-> FreshRun, action |-> "start", late |-> FALSE]
    BY <1>1 DEF StartsPost
  <2>2. FreshRun \in RunIds /\ FreshRun \notin minted
    BY <2>1, FreshIsNew DEF Mint, SdkTypes
  <2>3. /\ minted' = minted \cup {FreshRun} /\ arrived' = arrived /\ handed' = handed
        /\ tried' = tried /\ calls' = calls /\ at'[c] = "starting"
    BY <2>1 DEF Mint, workVars, SdkTypes
  <2> QED BY <2>1, <2>2, <2>3 DEF OwnerInv
<1>2. ASSUME NEW p \in posts', p.action = "start"
      PROVE  \/ p \in posts
             \/ \E c \in Contexts : StartsPost(c, p)
             \/ \E q \in posts : GivesUp(q, p) /\ q.action = "start"
  <2>1. ASSUME NEW c \in Contexts, EndsPost(c, p) PROVE FALSE
    BY <1>2, <2>1 DEF EndsPost
  <2> QED BY <1>2, <2>1, PostSteps, GivenUpFacts
<1>3. \A p, q \in posts' : p.action = "start" /\ q.action = "start" /\ q.run = p.run => q = p
  <2>1. \A p, q \in posts : p.action = "start" /\ q.action = "start" /\ q.run = p.run => q = p
    BY <1>0
  <2>2. ASSUME NEW p \in posts', p.action = "start", NEW c \in Contexts, StartsPost(c, p) \/ EndsPost(c, p)
        PROVE  \A q \in posts : q.run # p.run
    <3>1. StartsPost(c, p)
      BY <2>2 DEF EndsPost
    <3> QED BY <1>0, <1>1, <3>1
  <2> QED BY <2>1, <2>2, OnePost
<1>4. ASSUME NEW p \in posts', p.action = "start", NEW i \in 1..Len(arrived'[p.run])
      PROVE  arrived'[p.run][i].what # "start"
  <2>1. ASSUME NEW c \in Contexts, StartsPost(c, p) PROVE arrived'[p.run][i].what # "start"
    <3>1. arrived'[p.run] = <<>>
      BY <1>1, <2>1
    <3> QED BY <3>1
  <2>2. ASSUME NEW q \in posts, GivesUp(q, p), q.action = "start"
        PROVE  arrived'[p.run][i].what # "start"
    <3>1. p.run = q.run /\ arrived' = arrived
      BY <2>2, GivenUpFacts
    <3> QED BY <1>0, <2>2, <3>1
  <2>3. ASSUME p \in posts, arrived'[p.run][i].what = "start" PROVE FALSE
    <3>1. p.run \in RunIds
      BY <1>0, <2>3, EventTypes
    <3>2. PICK q \in posts : q.run = p.run /\ q.action = "start" /\ PostArrives(q)
      BY <1>0, <1>4, <2>3, <3>1, StartArrives
    <3>3. q = p
      BY <1>0, <1>4, <2>3, <3>2
    <3> QED BY <3>2, <3>3 DEF PostArrives
  <2> QED BY <1>2, <1>4, <2>1, <2>2, <2>3
<1>5. ASSUME NEW p \in posts', p.action = "start", ~p.late
      PROVE  p \in posts \/ \E c \in Contexts : StartsPost(c, p)
  BY <1>2, <1>5, GivenUpFacts
<1>6. ASSUME NEW p \in posts', p.action = "start", ~p.late, p \in posts
      PROVE  /\ arrived'[p.run] = <<>>
             /\ p.run \notin handed' \cup tried'
             /\ \A t \in calls' : t.run # p.run
             /\ \A c \in Contexts : \A i \in 1..Len(entries'[c]) :
                   entries'[c][i].run = p.run =>
                       at'[c] = "starting" /\ entries'[c][i].home = c /\ i = Len(entries'[c])
  <2>0. /\ p.run \in RunIds /\ p.run \in minted /\ p.run \notin handed /\ p.run \notin tried
        /\ \A c \in Contexts : \A i \in 1..Len(entries[c]) :
              entries[c][i].run = p.run =>
                  at[c] = "starting" /\ entries[c][i].home = c /\ i = Len(entries[c])
        /\ \A t \in calls : t.run # p.run
    BY <1>0, <1>6, EventTypes
  <2>1. arrived'[p.run] = <<>>
    BY <1>6, NothingBeforeStart
  <2>2. ASSUME NEW c \in Contexts, InBlock(c), at[c] = "body" PROVE Innermost(c).run # p.run
    BY <2>0, <2>2, InnermostOwned
  <2>3. p.run \notin handed'
    <3>1. ASSUME NEW c \in Contexts, HandOff(c) PROVE p.run \notin handed'
      <4>1. InBlock(c) /\ at[c] = "body" /\ handed' = handed \cup {Innermost(c).run}
        BY <3>1 DEF HandOff
      <4> QED BY <2>0, <2>2, <4>1
    <3> QED BY <2>0, <3>1, IdSteps
  <2>4. p.run \notin tried'
    <3>1. ASSUME NEW c \in Contexts, Leave(c) PROVE p.run \notin tried'
      <4>1. InBlock(c) /\ at[c] = "body" /\ tried' = tried \cup {Innermost(c).run}
        BY <3>1 DEF Leave
      <4> QED BY <2>0, <2>2, <4>1
    <3> QED BY <2>0, <3>1, IdSteps
  <2>5. \A t \in calls' : t.run # p.run
    <3>1. ASSUME NEW c \in Contexts, CallTool(c) PROVE \A t \in calls' : t.run # p.run
      <4>1. at[c] = "body" /\ calls' = calls \cup {[run |-> current[c], event |-> Event("tool", c, BlockRun(c))]}
        BY <3>1 DEF CallTool
      <4>2. current[c] # p.run
        BY <2>0, <4>1, BodyRunFacts
      <4> QED BY <2>0, <4>1, <4>2
    <3> QED BY <2>0, <3>1, IdSteps
  <2>6. ASSUME NEW d \in Contexts, NEW i \in 1..Len(entries'[d]), entries'[d][i].run = p.run
        PROVE  at'[d] = "starting" /\ entries'[d][i].home = d /\ i = Len(entries'[d])
    <3>1. PICK c \in Contexts, r \in Labels :
             /\ r \in RunIds => (Mint(c) /\ r = FreshRun) \/ Await(c, r)
             /\ \A x \in Contexts : \A k \in 1..Len(entries'[x]) :
                   \/ EntryKept(x, k) \/ EntryInherited(x, k)
                   \/ entries'[x][k].run \notin RunIds \/ EntryOpened(c, r, x, k)
      BY EntrySteps
    <3>2. ~EntryInherited(d, i)
      BY <2>0, <2>6 DEF EntryInherited
    <3>3. ~EntryOpened(c, r, d, i)
      <4>1. SUFFICES ASSUME r \in RunIds, r = p.run PROVE FALSE
        BY <2>6 DEF EntryOpened
      <4>2. r \in handed
        BY <2>0, <3>1, <4>1, OpenedRunFacts
      <4> QED BY <2>0, <4>1, <4>2
    <3>4. i \in 1..Len(entries[d]) /\ entries'[d][i] = entries[d][i]
      BY <2>0, <2>6, <3>1, <3>2, <3>3 DEF EntryKept
    <3>5. at[d] = "starting" /\ entries[d][i].home = d /\ i = Len(entries[d])
      BY <2>0, <2>6, <3>4
    <3>6. ~StartPosted(d)
      <4>1. Innermost(d) = entries[d][i]
        BY <3>5 DEF Innermost, Last
      <4> QED BY <1>6, <2>6, <3>4, <4>1 DEF StartPosted, Waiting
    <3>7. at'[d] = at[d] /\ entries'[d] = entries[d]
      BY <3>5, <3>6, WaitingSteps
    <3> QED BY <3>4, <3>5, <3>7
  <2> QED BY <2>1, <2>3, <2>4, <2>5, <2>6
<1>7. ASSUME NEW p \in posts', NEW c \in Contexts, StartsPost(c, p)
      PROVE  /\ arrived'[p.run] = <<>>
             /\ p.run \notin handed' \cup tried'
             /\ \A t \in calls' : t.run # p.run
             /\ \A d \in Contexts : \A i \in 1..Len(entries'[d]) :
                   entries'[d][i].run = p.run =>
                       at'[d] = "starting" /\ entries'[d][i].home = d /\ i = Len(entries'[d])
  <2>1. /\ p.run \in RunIds /\ p.run \notin minted /\ p.run = FreshRun /\ Mint(c)
        /\ arrived'[p.run] = <<>> /\ p.run \notin handed' \cup tried'
        /\ (\A t \in calls' : t.run # p.run) /\ at'[c] = "starting"
    BY <1>1, <1>7
  <2>2. ASSUME NEW d \in Contexts, NEW i \in 1..Len(entries'[d]), entries'[d][i].run = p.run
        PROVE  at'[d] = "starting" /\ entries'[d][i].home = d /\ i = Len(entries'[d])
    <3>1. PICK x \in Contexts, r \in Labels :
             /\ r \in RunIds => (Mint(x) /\ r = FreshRun) \/ Await(x, r)
             /\ \A y \in Contexts : \A k \in 1..Len(entries'[y]) :
                   \/ EntryKept(y, k) \/ EntryInherited(y, k)
                   \/ entries'[y][k].run \notin RunIds \/ EntryOpened(x, r, y, k)
      BY EntrySteps
    <3>2. \A y \in Contexts : \A k \in 1..Len(entries[y]) : entries[y][k].run # p.run
      BY <2>1 DEF OwnerInv
    <3>3. EntryOpened(x, r, d, i)
      BY <2>1, <2>2, <3>1, <3>2 DEF EntryKept, EntryInherited
    <3>4. r \in RunIds /\ r = p.run /\ d = x /\ i = Len(entries'[x]) /\ entries'[d][i].home = x
      BY <2>2, <3>3 DEF EntryOpened
    <3>5. Mint(x)
      <4>1. ~Await(x, r)
        BY <2>1, <3>4 DEF Await, OwnerInv
      <4> QED BY <3>1, <3>4, <4>1
    <3>6. at'[x] = "starting"
      BY <3>5 DEF Mint, SdkTypes
    <3> QED BY <3>4, <3>6
  <2> QED BY <2>1, <2>2
<1> QED BY <1>3, <1>4, <1>5, <1>6, <1>7 DEF StartInv

\* Every step keeps the one end of each run.
LEMMA EndStep ==
    ASSUME SdkTypes, NestInv, PlaceInv, FiledInv, OwnerInv, StartInv, EndInv,
           [Next]_vars, SdkTypes'
    PROVE  EndInv'
<1> USE DEF contextVars, postVars, patchVars, runVars, workVars
<1>0. /\ posts \subseteq Post /\ posts' \subseteq Post /\ RunIds \subseteq Labels
      /\ tried \subseteq tried'
      /\ \A p \in posts : p.action = "end" =>
            /\ p.run \in tried
            /\ \A q \in posts : q.run = p.run /\ q.action = "end" => q = p
            /\ \A i \in 1..Len(arrived[p.run]) : arrived[p.run][i].what # "end"
      /\ \A r \in RunIds : \A i \in 1..Len(arrived[r]) : arrived[r][i].what = "end" => r \in tried
  BY LabelFacts, Grows DEF SdkTypes, EndInv
<1>1. ASSUME NEW c \in Contexts, NEW p, EndsPost(c, p)
      PROVE  /\ p.action = "end" /\ p.run = Innermost(c).run /\ p.run \in RunIds
             /\ p.run \notin tried /\ p.run \in tried' /\ arrived' = arrived /\ Leave(c)
  <2>1. Leave(c) /\ p = [run |-> Innermost(c).run, action |-> "end", late |-> FALSE]
    BY <1>1 DEF EndsPost
  <2>2. /\ InBlock(c) /\ at[c] = "body" /\ Innermost(c).run \in RunIds
        /\ tried' = tried \cup {Innermost(c).run} /\ arrived' = arrived
    BY <2>1 DEF Leave
  <2>3. Innermost(c).run \notin tried
    BY <2>2, InnermostOwned DEF OwnerInv
  <2> QED BY <2>1, <2>2, <2>3
<1>2. ASSUME NEW p \in posts', p.action = "end"
      PROVE  \/ p \in posts
             \/ \E c \in Contexts : EndsPost(c, p)
             \/ \E q \in posts : GivesUp(q, p) /\ q.action = "end"
  <2>1. ASSUME NEW c \in Contexts, StartsPost(c, p) PROVE FALSE
    BY <1>2, <2>1 DEF StartsPost
  <2> QED BY <1>2, <2>1, PostSteps, GivenUpFacts
<1>3. \A p, q \in posts' : p.action = "end" /\ q.action = "end" /\ q.run = p.run => q = p
  <2>1. \A p, q \in posts : p.action = "end" /\ q.action = "end" /\ q.run = p.run => q = p
    BY <1>0
  <2>2. ASSUME NEW p \in posts', p.action = "end", NEW c \in Contexts, StartsPost(c, p) \/ EndsPost(c, p)
        PROVE  \A q \in posts : q.action = "end" => q.run # p.run
    <3>1. EndsPost(c, p)
      BY <2>2 DEF StartsPost
    <3> QED BY <1>0, <1>1, <3>1
  <2> QED BY <2>1, <2>2, OnePost
<1>4. ASSUME NEW p \in posts', p.action = "end", NEW i \in 1..Len(arrived'[p.run])
      PROVE  p.run \in tried' /\ arrived'[p.run][i].what # "end"
  <2>1. ASSUME NEW c \in Contexts, EndsPost(c, p) PROVE p.run \in tried' /\ arrived'[p.run][i].what # "end"
    BY <1>0, <1>1, <2>1
  <2>2. ASSUME NEW q \in posts, GivesUp(q, p), q.action = "end"
        PROVE  p.run \in tried' /\ arrived'[p.run][i].what # "end"
    <3>1. p.run = q.run /\ arrived' = arrived
      BY <2>2, GivenUpFacts
    <3> QED BY <1>0, <2>2, <3>1
  <2>3. ASSUME p \in posts, arrived'[p.run][i].what = "end" PROVE FALSE
    <3>1. p.run \in RunIds
      BY <1>0, <2>3, EventTypes
    <3>2. PICK q \in posts : q.run = p.run /\ q.action = "end" /\ PostArrives(q)
      BY <1>0, <1>4, <2>3, <3>1, StartArrives
    <3>3. q = p
      BY <1>0, <1>4, <2>3, <3>2
    <3> QED BY <3>2, <3>3 DEF PostArrives
  <2> QED BY <1>0, <1>2, <1>4, <2>1, <2>2, <2>3
<1>5. ASSUME NEW p \in posts', p.action = "end" PROVE p.run \in tried'
  BY <1>0, <1>1, <1>2, <1>5, GivenUpFacts
<1>6. ASSUME NEW r \in RunIds, NEW i \in 1..Len(arrived'[r]), arrived'[r][i].what = "end"
      PROVE  r \in tried'
  BY <1>0, <1>6, StartArrives
<1>7. paused' => faults' > 0
  <2>0. faults \in Nat /\ (paused => faults > 0)
    BY DEF SdkTypes, EndInv
  <2>1. ASSUME NEW t \in calls, FinishTool(t)
        PROVE  (paused' = paused /\ faults' = faults) \/ faults' = faults + 1
    BY <2>1 DEF FinishTool
  <2>2. ASSUME NEW p \in posts, LosePost(p) PROVE faults' = faults + 1
    BY <2>2 DEF LosePost
  <2>3. CASE ResumePosts
    BY <2>3 DEF ResumePosts
  <2>4. ASSUME (\E c \in Contexts : Blocks(c) \/ StartPosted(c) \/ EndPosted(c) \/ Labelling(c) \/ Hooking(c)
                    \/ CallTool(c) \/ \E i \in 1..Len(Transports) : Request(c, i))
               \/ (\E p \in posts : HandlePost(p)) \/ UNCHANGED vars
        PROVE  paused' = paused /\ faults' = faults
    BY <2>4
    DEF Blocks, Join, Adopt, Mint, LeaveJoined, LeaveAdopted, Leave, CancelStart, CancelEnd,
        HandOff, Await, Spawn, CallTool, Request, StartPosted, EndPosted, Labelling, Labelled,
        LabelledInHook, BeginPatching, EndPatching, Hooking, Instrument, RunHook, EndHook,
        HandlePost, vars
  <2>5. CASE faults' = faults + 1
    BY <2>0, <2>5
  <2>6. CASE paused' = paused /\ faults' = faults
    BY <2>0, <2>6, Zenon
  <2> QED BY <2>1, <2>2, <2>3, <2>4, <2>5, <2>6 DEF Next, Posting, PostingLate
<1> QED BY <1>3, <1>4, <1>5, <1>6, <1>7 DEF EndInv

-----------------------------------------------------------------------------
(* The posts bracket the requests, and no run is forgotten. *)

\* Every step keeps the posts around the requests of their run.
LEMMA BracketStep ==
    ASSUME SdkTypes, NestInv, FiledInv, OwnerInv, StartInv, EndInv, PostsBracketRequests,
           [Next]_vars
    PROVE  PostsBracketRequests'
<1> SUFFICES ASSUME NEW r \in RunIds
             PROVE  \A i, j \in 1..Len(arrived'[r]) :
                       /\ arrived'[r][i].what = arrived'[r][j].what
                          /\ arrived'[r][i].what \in {"start", "end"} => i = j
                       /\ i < j /\ arrived'[r][j].what = "start" => arrived'[r][j].outlives
                       /\ i < j /\ arrived'[r][i].what = "end" /\ arrived'[r][j].what = "request"
                          => arrived'[r][j].outlives
  BY DEF PostsBracketRequests
<1>0. /\ posts \subseteq Post /\ r \in Labels /\ r # NoRun
      /\ \A i, j \in 1..Len(arrived[r]) :
            /\ arrived[r][i].what = arrived[r][j].what
               /\ arrived[r][i].what \in {"start", "end"} => i = j
            /\ i < j /\ arrived[r][j].what = "start" => arrived[r][j].outlives
            /\ i < j /\ arrived[r][i].what = "end" /\ arrived[r][j].what = "request"
               => arrived[r][j].outlives
  BY LabelFacts DEF SdkTypes, PostsBracketRequests
<1>1. CASE arrived'[r] = arrived[r]
  BY <1>0, <1>1
<1>2. CASE arrived'[r] # arrived[r]
  <2>1. PICK e \in Events :
           /\ Arrives(r, e)
           /\ \/ \E p \in posts : PostArrives(p) /\ p.run = r /\ e = PostEvent(p)
              \/ \E c \in Contexts : /\ c \in alive /\ at[c] = "body" /\ BlockRun(c) = r
                                     /\ e = Event("request", c, r) /\ posts' = posts
              \/ \E t \in calls : t.run = r /\ e = t.event /\ e.what = "tool" /\ posts' = posts
    BY <1>2, ArrivalOf
  <2>2. /\ \A i \in 1..Len(arrived[r]) :
              /\ e.what \in {"start", "end"} => arrived[r][i].what # e.what
              /\ e.what = "start" => e.outlives
              /\ e.what = "request" /\ arrived[r][i].what = "end" => e.outlives
    <3>1. ASSUME NEW p \in posts, p.run = r, e = PostEvent(p), NEW i \in 1..Len(arrived[r])
          PROVE  /\ arrived[r][i].what # e.what /\ e.what # "request"
                 /\ e.what = "start" => e.outlives
      <4>1. /\ e.what = p.action /\ e.outlives = p.late /\ p.action \in {"start", "end"}
        BY <1>0, <3>1, EventTypes
      <4>2. CASE p.action = "start"
        <5>1. arrived[r][i].what # "start" /\ p.late
          BY <3>1, <4>2 DEF StartInv
        <5> QED BY <4>1, <4>2, <5>1
      <4>3. CASE p.action = "end"
        BY <3>1, <4>1, <4>3 DEF EndInv
      <4> QED BY <4>1, <4>2, <4>3
    <3>2. ASSUME NEW c \in Contexts, at[c] = "body", BlockRun(c) = r,
                 e = Event("request", c, r), NEW i \in 1..Len(arrived[r])
          PROVE  /\ e.what = "request"
                 /\ arrived[r][i].what = "end" => e.outlives
      <4>1. e.what = "request"
        BY <1>0, <3>2, EventTypes
      <4>2. ASSUME arrived[r][i].what = "end" PROVE e.outlives
        <5>1. r \in tried
          BY <4>2 DEF EndInv
        <5>2. PICK k \in 1..Len(entries[c]) : entries[c][k].run = r
          BY <3>2, BodyRunFacts
        <5>3. entries[c][k].home # c
          BY <3>2, <5>1, <5>2 DEF OwnerInv, Owned
        <5>4. \E n \in 1..Len(entries[c]) : entries[c][n].run = r /\ entries[c][n].home # c
          BY <5>2, <5>3
        <5>5. e.outlives = (\E n \in 1..Len(entries[c]) :
                               entries[c][n].run = r /\ entries[c][n].home # c)
          BY <3>2 DEF Event
        <5> QED BY <5>4, <5>5
      <4> QED BY <4>1, <4>2
    <3> QED BY <2>1, <3>1, <3>2
  <2>3. /\ Len(arrived[r]) \in Nat /\ Len(arrived'[r]) = Len(arrived[r]) + 1
        /\ \A i \in 1..Len(arrived[r]) : arrived'[r][i] = arrived[r][i]
        /\ arrived'[r][Len(arrived[r]) + 1] = e
        /\ \A i \in 1..Len(arrived'[r]) : i \in 1..Len(arrived[r]) \/ i = Len(arrived[r]) + 1
    BY <1>0, <2>1, ArrivesFacts
  <2> TAKE i, j \in 1..Len(arrived'[r])
  <2>4. CASE i \in 1..Len(arrived[r]) /\ j \in 1..Len(arrived[r])
    BY <1>0, <2>3, <2>4
  <2>5. CASE i \in 1..Len(arrived[r]) /\ j = Len(arrived[r]) + 1
    BY <2>2, <2>3, <2>5
  <2>6. CASE i = Len(arrived[r]) + 1 /\ j \in 1..Len(arrived[r])
    <3>1. ~(i < j)
      BY <2>3, <2>6
    <3> QED BY <2>2, <2>3, <2>6, <3>1
  <2>7. CASE i = Len(arrived[r]) + 1 /\ j = Len(arrived[r]) + 1
    BY <2>3, <2>7
  <2> QED BY <2>3, <2>4, <2>5, <2>6, <2>7
<1> QED BY <1>1, <1>2

\* A run somewhere: in a block of a context that exists, moved, tried or cancelled.
Held(r) ==
    \/ \E c \in alive : \E i \in 1..Len(entries[c]) : entries[c][i].run = r /\ entries[c][i].home = c
    \/ r \in handed \cup tried \cup cancelled
Told(r) ==
    \/ r \notin tried \/ faults > 0
    \/ \E p \in posts : p.run = r /\ p.action = "end"
    \/ \E i \in 1..Len(arrived[r]) : arrived[r][i].what = "end"

\* A run that was held still is.
LEMMA HeldStep ==
    ASSUME SdkTypes, NestInv, PlaceInv, [Next]_vars, NEW r \in RunIds, Held(r)
    PROVE  Held(r)'
<1> USE DEF contextVars, postVars, patchVars, runVars, workVars
<1>0. /\ alive \subseteq alive' /\ tried \subseteq tried' /\ cancelled \subseteq cancelled'
      /\ alive \subseteq Contexts /\ r # ReplayRun /\ r # NoRun /\ r \in Runs
  BY Grows, LabelFacts DEF SdkTypes
<1>1. CASE r \in tried \cup cancelled
  BY <1>0, <1>1 DEF Held
<1>2. CASE r \in handed
  <2>1. CASE r \in handed'
    BY <2>1 DEF Held
  <2>2. CASE r \notin handed'
    <3>1. PICK c \in Contexts : Await(c, r)
      <4>1. ASSUME NEW c \in Contexts, NEW x \in Runs, Await(c, x) PROVE r = x
        BY <1>2, <2>2, <4>1 DEF Await
      <4>2. ASSUME NEW c \in Contexts,
                   Join(c) \/ Adopt(c) \/ Mint(c) \/ LeaveJoined(c) \/ LeaveAdopted(c) \/ Leave(c)
                   \/ CancelStart(c) \/ CancelEnd(c) \/ HandOff(c)
                   \/ (\E d \in Contexts : Spawn(c, d)) \/ CallTool(c)
                   \/ (\E i \in 1..Len(Transports) : Request(c, i))
                   \/ StartPosted(c) \/ EndPosted(c) \/ Labelling(c) \/ Hooking(c)
            PROVE  handed \subseteq handed'
        BY <4>2
        DEF Join, Adopt, Mint, LeaveJoined, LeaveAdopted, Leave, CancelStart, CancelEnd,
            HandOff, Spawn, CallTool, Request, StartPosted, EndPosted, Labelling, Labelled,
            LabelledInHook, BeginPatching, EndPatching, Hooking, Instrument, RunHook, EndHook
      <4>3. ASSUME (\E t \in calls : FinishTool(t)) \/ Posting \/ PostingLate \/ ResumePosts
                   \/ UNCHANGED vars
            PROVE  handed' = handed
        BY <4>3 DEF FinishTool, Posting, PostingLate, HandlePost, LosePost, ResumePosts, vars
      <4> QED BY <1>2, <2>2, <4>1, <4>2, <4>3 DEF Next, Blocks
    <3>2. c \in alive /\ Open(c, r)
      BY <3>1 DEF Await, MayEnter
    <3>3. PICK e \in Entry : e.run = r /\ e.home = c /\ Pushed(c, e)
      BY <1>0, <3>2, OpenFacts
    <3>4. /\ Len(entries[c]) \in Nat /\ Len(entries'[c]) = Len(entries[c]) + 1
          /\ entries'[c][Len(entries[c]) + 1] = e
      BY <3>3, PushFacts
    <3>5. Len(entries[c]) + 1 \in 1..Len(entries'[c])
      BY <3>4
    <3> QED BY <1>0, <3>2, <3>3, <3>4, <3>5 DEF Held
  <2> QED BY <2>1, <2>2
<1>3. ASSUME NEW c \in alive, NEW i \in 1..Len(entries[c]),
             entries[c][i].run = r, entries[c][i].home = c
      PROVE  Held(r)'
  <2>0. c \in Contexts /\ c \in alive'
    BY <1>0
  <2>1. CASE i \in 1..Len(entries'[c]) /\ entries'[c][i] = entries[c][i]
    BY <1>3, <2>0, <2>1 DEF Held
  <2>2. ASSUME NEW d \in Contexts, NEW e \in Entry, Pushed(d, e)
        PROVE  i \in 1..Len(entries'[c]) /\ entries'[c][i] = entries[c][i]
    <3>1. /\ Len(entries[d]) \in Nat /\ Len(entries'[d]) = Len(entries[d]) + 1
          /\ \A k \in 1..Len(entries[d]) : entries'[d][k] = entries[d][k]
          /\ \A x \in Contexts : x # d => entries'[x] = entries[x]
      BY <2>2, PushFacts
    <3>2. CASE c = d
      BY <3>1, <3>2
    <3>3. CASE c # d
      BY <2>0, <3>1, <3>3
    <3> QED BY <3>2, <3>3
  <2>3. ASSUME NEW d \in Contexts, entries[d] # <<>>, Popped(d), d = c => Innermost(c).run # r
        PROVE  i \in 1..Len(entries'[c]) /\ entries'[c][i] = entries[c][i]
    <3>1. /\ Len(entries[d]) \in Nat /\ Len(entries'[d]) = Len(entries[d]) - 1
          /\ \A k \in 1..Len(entries'[d]) : entries'[d][k] = entries[d][k]
          /\ \A x \in Contexts : x # d => entries'[x] = entries[x]
      BY <2>3, PopFacts
    <3>2. CASE c = d
      <4>1. Innermost(c) = entries[c][Len(entries[c])]
        BY DEF Innermost, Last
      <4>2. i # Len(entries[c])
        BY <1>3, <2>3, <3>2, <4>1
      <4> QED BY <3>1, <3>2, <4>2
    <3>3. CASE c # d
      BY <2>0, <3>1, <3>3
    <3> QED BY <3>2, <3>3
  <2>4. ASSUME NEW d \in Contexts, Join(d) PROVE Held(r)'
    <3>1. PICK e \in Entry : e = [run |-> NoRun, before |-> NoRun, home |-> d]
      BY JoinedEntry
    <3>2. Pushed(d, e)
      BY <2>4, <3>1 DEF Join, Pushed
    <3> QED BY <2>1, <2>2, <3>2
  <2>5. ASSUME NEW d \in Contexts, NEW x \in Runs, Open(d, x) PROVE Held(r)'
    <3>1. \E e \in Entry : Pushed(d, e)
      BY <2>5, OpenFacts
    <3> QED BY <2>1, <2>2, <3>1
  <2>6. ASSUME NEW d \in Contexts, Adopt(d) \/ Mint(d) \/ \E x \in Runs : Await(d, x) PROVE Held(r)'
    <3>1. \E x \in Runs : Open(d, x)
      BY <2>6, FreshIsNew, LabelFacts DEF Adopt, Mint, Await, SdkTypes
    <3> QED BY <2>5, <3>1
  <2>7. ASSUME NEW d \in Contexts, LeaveJoined(d) \/ LeaveAdopted(d) PROVE Held(r)'
    <3>1. entries[d] # <<>> /\ Popped(d) /\ Innermost(d).run # r
      BY <1>0, <2>7 DEF LeaveJoined, LeaveAdopted, InBlock, Close, Popped
    <3> QED BY <2>1, <2>3, <3>1
  <2>8. ASSUME NEW d \in Contexts, EndPosted(d) \/ CancelEnd(d) PROVE Held(r)'
    <3>1. entries[d] # <<>> /\ Popped(d) /\ Innermost(d).run \in tried
      BY <2>8 DEF EndPosted, CancelEnd, InBlock, Close, Popped, PlaceInv, Placed
    <3>2. CASE Innermost(d).run = r
      BY <1>0, <3>1, <3>2 DEF Held
    <3>3. CASE Innermost(d).run # r
      BY <2>1, <2>3, <3>1, <3>3
    <3> QED BY <3>2, <3>3
  <2>9. ASSUME NEW d \in Contexts, CancelStart(d) PROVE Held(r)'
    <3>1. entries[d] # <<>> /\ Popped(d) /\ Innermost(d).run \in cancelled'
      BY <2>9 DEF CancelStart, InBlock, Close, Popped, PlaceInv, Placed
    <3>2. CASE Innermost(d).run = r
      BY <3>1, <3>2 DEF Held
    <3>3. CASE Innermost(d).run # r
      BY <2>1, <2>3, <3>1, <3>3
    <3> QED BY <3>2, <3>3
  <2>10. ASSUME NEW d \in Contexts, HandOff(d) PROVE Held(r)'
    <3>1. entries[d] # <<>> /\ Popped(d) /\ Innermost(d).run \in handed'
      BY <2>10 DEF HandOff, InBlock, Close, Popped
    <3>2. CASE Innermost(d).run = r
      BY <3>1, <3>2 DEF Held
    <3>3. CASE Innermost(d).run # r
      BY <2>1, <2>3, <3>1, <3>3
    <3> QED BY <3>2, <3>3
  <2>11. ASSUME NEW x \in Contexts, NEW d \in Contexts, Spawn(x, d) PROVE Held(r)'
    <3>1. d \notin alive /\ \A y \in Contexts : y # d => entries'[y] = entries[y]
      BY <2>11, SpawnFacts
    <3> QED BY <2>0, <2>1, <3>1
  <2>12. ASSUME (\E d \in Contexts : StartPosted(d) \/ Leave(d) \/ Labelling(d) \/ Hooking(d) \/ CallTool(d)
                     \/ \E k \in 1..Len(Transports) : Request(d, k))
                \/ (\E t \in calls : FinishTool(t)) \/ Posting \/ PostingLate \/ ResumePosts
                \/ UNCHANGED vars
         PROVE  Held(r)'
    <3>1. entries' = entries
      BY <2>12
      DEF StartPosted, Leave, Labelling, Labelled, LabelledInHook, BeginPatching, EndPatching,
          Hooking, Instrument, RunHook, EndHook, CallTool, Request, FinishTool, Posting,
          PostingLate, HandlePost, LosePost, ResumePosts, vars
    <3> QED BY <2>1, <3>1
  <2> QED
    BY <2>4, <2>6, <2>7, <2>8, <2>9, <2>10, <2>11, <2>12 DEF Next, Blocks
<1> QED BY <1>1, <1>2, <1>3 DEF Held

\* An end that was posted is on its way, arrived, or lost to a fault.
LEMMA ToldStep ==
    ASSUME SdkTypes, EndInv, [Next]_vars, NEW r \in RunIds, Told(r)
    PROVE  Told(r)'
<1> USE DEF contextVars, postVars, patchVars, runVars, workVars
<1>0. /\ posts \subseteq Post /\ faults \in Nat /\ tried \subseteq tried'
      /\ (paused => faults > 0) /\ r \in Labels /\ calls \subseteq [run : Labels, event : Events]
  BY Grows, LabelFacts DEF SdkTypes, EndInv
<1>1. ASSUME NEW x \in Labels, NEW e \in Events, Arrives(x, e), NEW i \in 1..Len(arrived[r])
      PROVE  i \in 1..Len(arrived'[r]) /\ arrived'[r][i] = arrived[r][i]
  BY <1>0, <1>1, ArrivesFacts
<1>2. ASSUME NEW i \in 1..Len(arrived[r])
      PROVE  i \in 1..Len(arrived'[r]) /\ arrived'[r][i] = arrived[r][i]
  <2>1. ASSUME NEW c \in Contexts, NEW k \in 1..Len(Transports), RequestArrives(c, k)
        PROVE  i \in 1..Len(arrived'[r]) /\ arrived'[r][i] = arrived[r][i]
    BY <1>1, <2>1, EventTypes, BlockRunType, LabelOnType DEF RequestArrives
  <2>2. ASSUME NEW t \in calls, ToolArrives(t)
        PROVE  i \in 1..Len(arrived'[r]) /\ arrived'[r][i] = arrived[r][i]
    BY <1>0, <1>1, <2>2 DEF ToolArrives
  <2>3. ASSUME NEW p \in posts, PostArrives(p)
        PROVE  i \in 1..Len(arrived'[r]) /\ arrived'[r][i] = arrived[r][i]
    BY <1>0, <1>1, <2>3, EventTypes DEF PostArrives
  <2> QED BY <2>1, <2>2, <2>3, ArrivalSteps
<1>3. faults' = faults \/ faults' = faults + 1
  <2>1. ASSUME NEW c \in Contexts,
               Blocks(c) \/ StartPosted(c) \/ EndPosted(c) \/ Labelling(c) \/ Hooking(c)
               \/ CallTool(c) \/ \E i \in 1..Len(Transports) : Request(c, i)
        PROVE  faults' = faults
    BY <2>1
    DEF Blocks, Join, Adopt, Mint, LeaveJoined, LeaveAdopted, Leave, CancelStart, CancelEnd,
        HandOff, Await, Spawn, CallTool, Request, StartPosted, EndPosted, Labelling, Labelled,
        LabelledInHook, BeginPatching, EndPatching, Hooking, Instrument, RunHook, EndHook
  <2>2. ASSUME (\E t \in calls : FinishTool(t)) \/ Posting \/ PostingLate \/ ResumePosts
               \/ UNCHANGED vars
        PROVE  faults' = faults \/ faults' = faults + 1
    BY <2>2 DEF FinishTool, Posting, PostingLate, HandlePost, LosePost, ResumePosts, vars
  <2> QED BY <2>1, <2>2 DEF Next
<1>4. CASE faults' > 0
  BY <1>4 DEF Told
<1>5. CASE faults = 0 /\ faults' = 0
  <2>1. CASE \E i \in 1..Len(arrived[r]) : arrived[r][i].what = "end"
    BY <1>2, <2>1 DEF Told
  <2>2. ASSUME NEW p \in posts, p.run = r, p.action = "end" PROVE Told(r)'
    <3>1. CASE p \in posts'
      BY <2>2, <3>1 DEF Told
    <3>2. CASE p \notin posts'
      <4>1. HandlePost(p)
        <5>1. ASSUME NEW q \in posts, LosePost(q) PROVE FALSE
          BY <1>0, <1>5, <5>1 DEF LosePost
        <5>2. ASSUME NEW q \in posts, HandlePost(q) PROVE q = p
          BY <2>2, <3>2, <5>2 DEF HandlePost
        <5>3. ASSUME NEW c \in Contexts,
                     Blocks(c) \/ StartPosted(c) \/ EndPosted(c) \/ Labelling(c) \/ Hooking(c)
                     \/ CallTool(c) \/ \E i \in 1..Len(Transports) : Request(c, i)
              PROVE  posts \subseteq posts'
          BY <5>3
          DEF Blocks, Join, Adopt, Mint, LeaveJoined, LeaveAdopted, Leave, CancelStart,
              CancelEnd, HandOff, Await, Spawn, CallTool, Request, StartPosted, EndPosted,
              Labelling, Labelled, LabelledInHook, BeginPatching, EndPatching, Hooking,
              Instrument, RunHook, EndHook, Send
        <5>4. ASSUME (\E t \in calls : FinishTool(t)) \/ ResumePosts \/ UNCHANGED vars
              PROVE  posts' = posts
          BY <5>4 DEF FinishTool, ResumePosts, vars
        <5> QED BY <2>2, <3>2, <5>1, <5>2, <5>3, <5>4 DEF Next, Posting, PostingLate
      <4>2. /\ Arrives(r, PostEvent(p)) /\ PostEvent(p) \in Events /\ PostEvent(p).what = "end"
        BY <1>0, <2>2, <4>1, EventTypes DEF HandlePost
      <4>3. /\ Len(arrived[r]) \in Nat /\ Len(arrived'[r]) = Len(arrived[r]) + 1
            /\ arrived'[r][Len(arrived[r]) + 1] = PostEvent(p)
        BY <1>0, <4>2, ArrivesFacts
      <4>4. Len(arrived[r]) + 1 \in 1..Len(arrived'[r])
        BY <4>3
      <4> QED BY <4>2, <4>3, <4>4 DEF Told
    <3> QED BY <3>1, <3>2
  <2>3. CASE r \notin tried
    <3>1. CASE r \notin tried'
      BY <3>1 DEF Told
    <3>2. CASE r \in tried'
      <4>1. PICK c \in Contexts : Leave(c)
        BY <2>3, <3>2, IdSteps
      <4>2. /\ tried' = tried \cup {Innermost(c).run} /\ ~paused
            /\ Send(Innermost(c).run, "end")
        BY <1>0, <1>5, <4>1 DEF Leave
      <4>3. r = Innermost(c).run
        BY <2>3, <3>2, <4>2
      <4>4. [run |-> r, action |-> "end", late |-> FALSE] \in posts'
        BY <4>2, <4>3 DEF Send
      <4> QED BY <4>4 DEF Told
    <3> QED BY <3>1, <3>2
  <2> QED BY <1>5, <2>1, <2>2, <2>3 DEF Told
<1> QED BY <1>0, <1>3, <1>4, <1>5

\* Every step keeps each started run accounted for.
LEMMA ForgottenStep ==
    ASSUME SdkTypes, NestInv, PlaceInv, OwnerInv, EndInv, NoRunForgotten, [Next]_vars
    PROVE  NoRunForgotten'
<1>1. minted \subseteq RunIds
  BY DEF SdkTypes
<1>2. ASSUME NEW r \in minted PROVE Held(r)' /\ Told(r)'
  <2>1. Held(r) /\ Told(r)
    BY DEF NoRunForgotten, Held, Told
  <2> QED BY <1>1, <2>1, HeldStep, ToldStep
<1>3. ASSUME NEW c \in Contexts, Mint(c), NEW r \in minted', r \notin minted PROVE Held(r)' /\ Told(r)'
  <2>1. /\ r = FreshRun /\ r \in Runs /\ Open(c, r) /\ c \in alive /\ alive' = alive /\ tried' = tried
        /\ r \notin tried
    BY <1>1, <1>3, FreshIsNew, LabelFacts DEF Mint, MayEnter, OwnerInv
  <2>2. PICK e \in Entry : e.run = r /\ e.home = c /\ Pushed(c, e)
    BY <2>1, OpenFacts
  <2>3. /\ Len(entries[c]) \in Nat /\ Len(entries'[c]) = Len(entries[c]) + 1
        /\ entries'[c][Len(entries[c]) + 1] = e
    BY <2>2, PushFacts
  <2>4. Len(entries[c]) + 1 \in 1..Len(entries'[c])
    BY <2>3
  <2>5. Held(r)'
    BY <2>1, <2>2, <2>3, <2>4 DEF Held
  <2> QED BY <2>1, <2>5 DEF Told
<1>4. \A r \in minted' : Held(r)' /\ Told(r)'
  BY <1>2, <1>3, IdSteps
<1> QED BY <1>4 DEF NoRunForgotten, Held, Told

-----------------------------------------------------------------------------
(* Theorems. *)

\* The invariant holds of a process that has opened nothing.
LEMMA SdkInit == Init => SdkInv
<1> SUFFICES ASSUME Init PROVE SdkInv
  OBVIOUS
<1>0. /\ \A c \in Contexts : entries[c] = <<>> /\ blocks[c] = <<>> /\ at[c] = "body"
                             /\ current[c] = NoRun
      /\ \A r \in Labels : arrived[r] = <<>>
      /\ minted = {} /\ handed = {} /\ posts = {} /\ paused = FALSE /\ faults = 0 /\ patcher = {}
      /\ installed = FALSE /\ calls = {} /\ tried = {} /\ cancelled = {} /\ alive = {Root}
      /\ wrapped = 0 /\ depth = 0 /\ hooked = {}
      /\ \A i \in 1..Len(Transports) : patches[i] = 0
      /\ NoRun \in Labels /\ RunIds \subseteq Labels
  BY LabelFacts DEF Init
<1>1. SdkTypes
  <2>1. /\ <<>> \in Seq(Entry) /\ <<>> \in Seq(Runs) /\ <<>> \in Seq(Events)
        /\ Root \in Contexts
    BY LabelFacts
  <2>2. /\ replaying \in BOOLEAN /\ alive \subseteq Contexts /\ at \in [Contexts -> Places]
        /\ current \in [Contexts -> Labels]
    BY <1>0, <2>1 DEF Init, Places
  <2>3. entries \in [Contexts -> Seq(Entry)] /\ blocks \in [Contexts -> Seq(Runs)]
    BY <2>1 DEF Init
  <2>4. patches \in [1..Len(Transports) -> Nat] /\ arrived \in [Labels -> Seq(Events)] /\ work \in Nat
    BY <2>1 DEF Init
  <2> QED BY <1>0, <2>2, <2>3, <2>4 DEF SdkTypes
<1>2. NestInv
  <2>1. Nested(<<>>, <<>>, [n \in 1..Len(<<>>) |-> 1])
    BY DEF Nested
  <2> QED BY <1>0, <2>1 DEF NestInv, BlockRun
<1>3. PlaceInv
  BY <1>0 DEF PlaceInv, Placed
<1>4. PatchInv
  BY <1>0 DEF PatchInv, HooksOrEntered
<1>5. FiledInv
  <2>1. Root \in Contexts
    BY LabelFacts
  <2> QED BY <1>0, <2>1 DEF FiledInv, FiledUnderItsBlock, BlockRun
<1>6. OwnerInv
  BY <1>0 DEF OwnerInv
<1>7. StartInv /\ EndInv
  BY <1>0 DEF StartInv, EndInv
<1>8. PostsBracketRequests
  BY <1>0 DEF PostsBracketRequests
<1>9. NoRunForgotten
  BY <1>0 DEF NoRunForgotten
<1> QED BY <1>1, <1>2, <1>3, <1>4, <1>5, <1>6, <1>7, <1>8, <1>9 DEF SdkInv

\* And every step keeps it.
LEMMA SdkStep == SdkInv /\ [Next]_vars => SdkInv'
<1> SUFFICES ASSUME SdkTypes, NestInv, PlaceInv, PatchInv, FiledInv, OwnerInv, StartInv, EndInv,
                    PostsBracketRequests, NoRunForgotten, [Next]_vars
             PROVE  SdkInv'
  BY DEF SdkInv
<1>1. SdkTypes' /\ NestInv' /\ PlaceInv' /\ PatchInv'
  BY TypesStep, NestStep, PlaceStep, PatchStep
<1>2. FiledInv' /\ OwnerInv'
  BY <1>1, FiledStep, OwnerStep
<1>3. StartInv' /\ EndInv'
  BY <1>1, StartStep, EndStep
<1>4. PostsBracketRequests' /\ NoRunForgotten'
  BY BracketStep, ForgottenStep
<1> QED BY <1>1, <1>2, <1>3, <1>4 DEF SdkInv

\* The invariant of the SDK's blocks, posts and patches, for any contexts and runs.
THEOREM SdkInvariant == Spec => []SdkInv
<1> QED BY SdkInit, SdkStep, PTL DEF Spec

\* What a task sends is filed under the innermost block its code is in, by transports
\* that were wrapped once, before any body ran but those of the blocks an import hook
\* of the wrapping was in (RunScope, run, instrument).
THEOREM RequestsAreLabelled == Spec => []RequestsLabelled
<1>1. SdkInv => RequestsLabelled
  BY WrappedFirst DEF SdkInv, FiledInv, RequestsLabelled
<1> QED BY <1>1, SdkInvariant, PTL

\* The start and the end of a run bracket its requests, but for those that outlive
\* their caller or their block (RunScope: "Posts are synchronous").
THEOREM PostsBracket == Spec => []PostsBracketRequests
<1>1. SdkInv => PostsBracketRequests
  BY DEF SdkInv
<1> QED BY <1>1, SdkInvariant, PTL

\* A run that was started is open somewhere, moved, ended or cancelled, and a posted
\* end is lost only to a post that got no answer (RunScope.close, _adopt).
THEOREM RunsAreRemembered == Spec => []NoRunForgotten
<1>1. SdkInv => NoRunForgotten
  BY DEF SdkInv
<1> QED BY <1>1, SdkInvariant, PTL

=============================================================================
