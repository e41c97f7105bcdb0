--------------------------- MODULE Replays_proofs ---------------------------
(***************************************************************************)
(* Proofs about Replays for every set of stored runs, of requests, of keys *)
(* and of services: what a replay answers is what was recorded, and how    *)
(* requests whose lookups interleave share it; and what the summary of a   *)
(* run says of its events.                                                 *)
(***************************************************************************)
EXTENDS Replays, SequenceTheorems, FiniteSetTheorems, WellFoundedInduction, TLAPS

(* The index of a stored run: the inductive invariant, part by part. *)

\* What is known of a request at each place.
Placed(f) ==
    /\ pc[f] = "unsent" => after[f] = {}
    /\ pc[f] # "unsent" => want[f] \in Matches
    /\ pc[f] \in {"unsent", "sent", "ready"} => took[f] = 0
    /\ pc[f] \in {"sent", "missed", "found", "shadow"} => Kind(f) = "write"
    /\ pc[f] = "found" => served[f] # 0
    /\ pc[f] \in {"missed", "shadow"} => served[f] = 0
PlaceInv == \A f \in Live : Placed(f)

\* What was answered before a request was sent stays answered.
PastInv == \A f \in Live : \A g \in after[f] : pc[g] = "done"

\* An answer is the entry that was taken, if that can be served, and it matches.
Matched(f) ==
    /\ took[f] = 0 => served[f] = 0
    /\ took[f] # 0 =>
          /\ rec[took[f]].match = want[f] /\ rec[took[f]].standing = standing[f]
          /\ served[f] = IF rec[took[f]].servable THEN took[f] ELSE 0
MatchInv == \A f \in Live : Matched(f)

\* What is used up was taken by somebody, and no entry was passed over.
UsedInv ==
    /\ \A f \in Live : took[f] # 0 =>
          /\ UsedUp(took[f]) \subseteq consumed
          /\ \A i \in DOMAIN rec :
                i < took[f] /\ rec[i].match = want[f] /\ rec[i].standing = standing[f]
                    => i \in consumed
    /\ \A i \in consumed \cap Exchanges : \E f \in Live : i \in TakenBy(f)

\* A write that the recording did not answer has diverged the replay before it
\* is answered.
DivergedInv ==
    \A f \in Live :
        pc[f] \in {"shadow", "done"} /\ Kind(f) = "write" /\ served[f] = 0 => diverged

\* A key whose write was answered is held, and whoever uses it afterwards knows.
KeyInv ==
    /\ \A f \in Live : pc[f] = "done" /\ Keyed(f) => held[want[f].key] # NoMatch
    /\ \A f \in Live : \A g \in after[f] :
          /\ Keyed(f) /\ Keyed(g) /\ want[f].key = want[g].key
          /\ pc[f] \notin {"unsent", "sent"}
          => standing[f] # ""

IndexInv ==
    /\ TypeOK /\ PlaceInv /\ PastInv /\ MatchInv /\ UsedInv /\ DivergedInv /\ KeyInv
    /\ AnswersOnceInOrder /\ NothingServedPastAMiss /\ ServedBehindItsWrites

-----------------------------------------------------------------------------
(* Lemmas about what is recorded. *)

\* A set of numbers that is not empty has a least one.
LEMMA LeastExists ==
    ASSUME NEW S, S \subseteq Nat, S # {}
    PROVE  Least(S) \in S /\ \A j \in S : Least(S) <= j
<1>1. PICK i \in S : \A j \in S : ~ (<<j, i>> \in OpToRel(<, Nat))
  BY NatLessThanWellFounded, WFMin
<1>2. ASSUME NEW j \in S PROVE i <= j
  <2>1. CASE j < i
    <3>1. <<j, i>> \in OpToRel(<, Nat)
      BY <2>1 DEF OpToRel
    <3> QED BY <1>1, <3>1
  <2> QED BY <2>1
<1> QED BY <1>2 DEF Least

\* What a stored run consists of.
LEMMA RecordedFacts ==
    ASSUME TypeOK
    PROVE  /\ Len(rec) \in Nat /\ DOMAIN rec = 1..Len(rec) /\ DOMAIN rec \subseteq Nat
           /\ 0 \notin DOMAIN rec /\ IsFiniteSet(DOMAIN rec)
           /\ \A i \in DOMAIN rec : /\ rec[i] \in EventSet /\ rec[i].match \in Matches
                                    /\ rec[i].match.kind \in Kinds
                                    /\ rec[i].servable \in BOOLEAN
                                    /\ rec[i].standing \in Standings
           /\ \A m \in Matches : m.kind \in Kinds /\ m.key \in Keys \cup {NoKey}
<1>1. rec \in Seq(EventSet)
  BY ReplayAssumption DEF TypeOK
<1>2. Len(rec) \in Nat /\ DOMAIN rec = 1..Len(rec)
  BY <1>1
<1>3. \A i \in DOMAIN rec : rec[i] \in EventSet
  BY <1>1
<1>4. IsFiniteSet(DOMAIN rec)
  BY <1>2, FS_Interval
<1>5. \A m \in Matches : m.kind \in Kinds /\ m.key \in Keys \cup {NoKey}
  BY ReplayAssumption DEF MatchSet
<1>6. DOMAIN rec \subseteq Nat /\ 0 \notin DOMAIN rec
  BY <1>2
<1> QED BY <1>2, <1>3, <1>4, <1>5, <1>6 DEF EventSet

\* A stored run does not change, nor what is told of it.
LEMMA SameRecording ==
    ASSUME rec' = rec
    PROVE  /\ Exchanges' = Exchanges /\ FakedWrites' = FakedWrites
           /\ \A i : /\ Inner(i)' = Inner(i)
                     /\ UsedUp(i)' = UsedUp(i)
                     /\ Position(i)' = Position(i)
                     /\ DependsOnPriorWrites(i)' = DependsOnPriorWrites(i)
<1>1. Exchanges' = Exchanges /\ Entries("tool")' = Entries("tool")
  BY DEF Exchanges, Entries
<1>2. FakedWrites' = FakedWrites
  BY <1>1 DEF FakedWrites
<1>3. \A i, j : Within(i, j)' = Within(i, j)
  BY DEF Within
<1>4. \A i : Inner(i)' = Inner(i) /\ NestedIn(i)' = NestedIn(i)
  BY <1>1, <1>3 DEF Inner, NestedIn
<1>5. \A i : Displaced(i)' = Displaced(i)
  BY <1>1, <1>4 DEF Displaced
<1>6. \A i : Position(i)' = Position(i)
  BY <1>1, <1>4 DEF Position
<1> QED BY <1>1, <1>2, <1>4, <1>5, <1>6 DEF UsedUp, DependsOnPriorWrites

\* So what is told of an entry afterwards was told of it before.
LEMMA SameOfEntry ==
    ASSUME rec' = rec, NEW f
    PROVE  /\ UsedUp(took[f])' = UsedUp(took'[f])
           /\ Position(served[f])' = Position(served'[f])
           /\ DependsOnPriorWrites(served[f])' = DependsOnPriorWrites(served'[f])
<1>1. UsedUp(took[f])' = UsedUp(took'[f])
  BY DEF UsedUp, Inner, Displaced, NestedIn, Exchanges, Entries, Within
<1>2. Position(served[f])' = Position(served'[f])
  BY DEF Position, Inner, Exchanges, Entries, Within
<1>3. DependsOnPriorWrites(served[f])' = DependsOnPriorWrites(served'[f])
  BY DEF DependsOnPriorWrites
<1> QED BY <1>1, <1>2, <1>3

\* The first unused match of a request.
LEMMA FirstFacts ==
    ASSUME TypeOK, NEW f \in Live, Unused(f) # {}
    PROVE  /\ First(f) \in DOMAIN rec /\ First(f) # 0 /\ First(f) \notin consumed
           /\ rec[First(f)].match = want[f] /\ rec[First(f)].standing = standing[f]
           /\ \A i \in DOMAIN rec :
                 /\ i < First(f) /\ rec[i].match = want[f] /\ rec[i].standing = standing[f]
                 => i \in consumed
<1>1. Unused(f) \subseteq DOMAIN rec /\ Unused(f) \subseteq Nat
  BY RecordedFacts DEF Unused, Bucket
<1>2. First(f) \in Unused(f) /\ \A j \in Unused(f) : First(f) <= j
  BY <1>1, LeastExists DEF First
<1>3. First(f) \in DOMAIN rec /\ First(f) # 0
  BY <1>1, <1>2, RecordedFacts
<1>4. ASSUME NEW i \in DOMAIN rec, i < First(f),
             rec[i].match = want[f], rec[i].standing = standing[f], i \notin consumed
      PROVE  FALSE
  <2>1. i \in Unused(f)
    BY <1>4 DEF Unused, Bucket
  <2>2. First(f) <= i /\ i \in Nat /\ First(f) \in Nat
    BY <1>1, <1>2, <2>1
  <2> QED BY <1>4, <2>2
<1> QED BY <1>2, <1>3, <1>4 DEF Unused, Bucket

\* What a lookup stands for is used up by it.
LEMMA TakenIsUsedUp ==
    ASSUME NEW f \in Live, Matched(f), took[f] # 0
    PROVE  /\ TakenBy(f) \subseteq UsedUp(took[f]) /\ took[f] \in TakenBy(f)
           /\ UsedUp(took[f]) \cap Exchanges \subseteq TakenBy(f)
<1>1. Displaced(took[f]) \cap Exchanges = {}
  BY DEF Displaced, NestedIn, Exchanges
<1> QED BY <1>1 DEF TakenBy, UsedUp, Matched, Kind

-----------------------------------------------------------------------------
(* A step is one request's. *)

LEMMA StepFacts ==
    ASSUME TypeOK, NEW f \in Live, Step(f)
    PROVE  /\ rec' = rec /\ pc[f] # "done"
           /\ \A g \in Live : g # f =>
                 /\ pc'[g] = pc[g] /\ want'[g] = want[g] /\ standing'[g] = standing[g]
                 /\ took'[g] = took[g] /\ served'[g] = served[g] /\ after'[g] = after[g]
           /\ Lookup(f) \/ UNCHANGED <<consumed, took, served>>
           /\ pc[f] = "unsent" \/ UNCHANGED <<want, after>>
           /\ pc[f] = "sent" \/ UNCHANGED standing
           /\ diverged => diverged'
           /\ \A k \in Keys : held[k] # NoMatch => held'[k] = held[k]
<1> USE DEF TypeOK, Go
<1>1. CASE \E m \in Matches : Send(f, m)
  BY <1>1 DEF Send
<1>2. CASE Stand(f)
  BY <1>2 DEF Stand
<1>3. CASE LookupMisses(f) \/ LookupStale(f) \/ LookupRaises(f) \/ Diverge(f)
  BY <1>3 DEF LookupMisses, LookupStale, LookupRaises, Diverge
<1>4. CASE Lookup(f)
  BY <1>4 DEF Lookup
<1>5. CASE AnswerRecorded(f) \/ AnswerAsShadow(f)
  BY <1>5 DEF AnswerRecorded, AnswerAsShadow, Remember
<1> QED BY <1>1, <1>2, <1>3, <1>4, <1>5 DEF Step

-----------------------------------------------------------------------------
(* Each part is kept by every step. *)

\* Every step keeps the types.
LEMMA TypeStep ==
    ASSUME TypeOK, NEW f \in Live, Step(f)
    PROVE  TypeOK'
<1>0. rec' = rec
  BY StepFacts
<1> USE DEF TypeOK, Go
<1>1. CASE \E m \in Matches : Send(f, m)
  <2>1. PICK m \in Matches : Send(f, m)
    BY <1>1
  <2>2. {g \in Live : pc[g] = "done"} \in SUBSET Live
    OBVIOUS
  <2> QED BY <2>1, <2>2 DEF Send
<1>2. CASE Stand(f)
  <2>1. standing' \in [Live -> Standings]
    BY <1>2 DEF Stand, Standings
  <2> QED BY <1>2, <2>1 DEF Stand
<1>3. CASE LookupMisses(f) \/ LookupRaises(f)
  BY <1>3 DEF LookupMisses, LookupRaises
<1>4. CASE LookupStale(f) \/ Diverge(f)
  <2>1. diverged' \in BOOLEAN
    BY <1>4 DEF LookupStale, Diverge
  <2>2. pc' \in [Live -> {"unsent", "sent", "ready", "missed", "found", "shadow", "done"}]
    BY <1>4 DEF LookupStale, Diverge
  <2> QED BY <1>4, <2>1, <2>2 DEF LookupStale, Diverge
<1>5. CASE Lookup(f)
  <2>1. First(f) \in DOMAIN rec
    BY <1>5, FirstFacts DEF Lookup
  <2>2. UsedUp(First(f)) \subseteq DOMAIN rec
    BY <2>1 DEF UsedUp, Inner, Displaced, NestedIn, Exchanges, Entries
  <2>3. took' \in [Live -> {0} \cup DOMAIN rec] /\ served' \in [Live -> {0} \cup DOMAIN rec]
    BY <1>5, <2>1 DEF Lookup
  <2>4. pc' \in [Live -> {"unsent", "sent", "ready", "missed", "found", "shadow", "done"}]
    BY <1>5 DEF Lookup
  <2> QED BY <1>5, <2>2, <2>3, <2>4 DEF Lookup
<1>6. CASE AnswerRecorded(f) \/ AnswerAsShadow(f)
  <2>1. held' = held \/ (Keyed(f) /\ held' = [held EXCEPT ![want[f].key] = want[f]])
    BY <1>6 DEF AnswerRecorded, AnswerAsShadow, Remember
  <2>2. held' \in [Keys -> Matches \cup {NoMatch}]
    BY <2>1
  <2> QED BY <1>6, <2>2 DEF AnswerRecorded, AnswerAsShadow
<1> QED BY <1>1, <1>2, <1>3, <1>4, <1>5, <1>6 DEF Step

\* Every step leaves each request at a place where what is said of it holds.
LEMMA PlaceStep ==
    ASSUME TypeOK, PlaceInv, MatchInv, NEW f \in Live, Step(f)
    PROVE  PlaceInv'
<1>1. \A g \in Live : g # f =>
         /\ pc'[g] = pc[g] /\ want'[g] = want[g] /\ took'[g] = took[g]
         /\ served'[g] = served[g] /\ after'[g] = after[g]
  BY StepFacts
<1>2. \A g \in Live : g # f => Placed(g)'
  BY <1>1 DEF PlaceInv, Placed, Kind
<1>3. Placed(f) /\ Matched(f)
  BY DEF PlaceInv, MatchInv
<1> USE DEF TypeOK, Go
<1>4. Placed(f)'
  <2>1. CASE \E m \in Matches : Send(f, m)
    <3>1. PICK m \in Matches : Send(f, m)
      BY <2>1
    <3>2. want'[f] = m /\ pc'[f] = (IF m.kind = "write" THEN "sent" ELSE "ready") /\ took'[f] = took[f]
          /\ pc[f] = "unsent"
      BY <3>1 DEF Send
    <3> QED BY <1>3, <3>2 DEF Placed, Kind
  <2>2. CASE Stand(f)
    BY <1>3, <2>2 DEF Stand, Placed, Kind
  <2>3. CASE LookupMisses(f) \/ LookupStale(f) \/ LookupRaises(f)
    <3>1. /\ pc[f] = "ready" /\ pc'[f] = IF Kind(f) = "write" THEN "missed" ELSE "done"
          /\ want' = want /\ served' = served /\ took' = took
      BY <2>3 DEF LookupMisses, LookupStale, LookupRaises
    <3> QED BY <1>3, <3>1 DEF Placed, Kind, Matched
  <2>4. CASE Lookup(f)
    <3>1. /\ pc[f] = "ready" /\ want' = want
          /\ pc'[f] = IF Kind(f) # "write" THEN "done"
                      ELSE IF rec[First(f)].servable THEN "found" ELSE "missed"
          /\ served'[f] = IF rec[First(f)].servable THEN First(f) ELSE 0
      BY <2>4 DEF Lookup
    <3>2. First(f) # 0
      BY <2>4, FirstFacts DEF Lookup
    <3> QED BY <1>3, <3>1, <3>2 DEF Placed, Kind
  <2>5. CASE AnswerRecorded(f) \/ Diverge(f) \/ AnswerAsShadow(f)
    BY <1>3, <2>5 DEF AnswerRecorded, Diverge, AnswerAsShadow, Placed, Kind
  <2> QED BY <2>1, <2>2, <2>3, <2>4, <2>5 DEF Step
<1> QED BY <1>2, <1>4 DEF PlaceInv

\* Every step keeps what was answered answered.
LEMMA PastStep ==
    ASSUME TypeOK, PastInv, NEW f \in Live, Step(f)
    PROVE  PastInv'
<1>1. \A g \in Live : pc[g] = "done" => pc'[g] = "done"
  BY StepFacts
<1>2. \A g \in Live : after[g] \subseteq Live
  BY DEF TypeOK
<1>3. CASE \E m \in Matches : Send(f, m)
  <2>1. /\ after'[f] = {g \in Live : pc[g] = "done"}
        /\ \A g \in Live : g # f => after'[g] = after[g]
    BY <1>3 DEF Send, TypeOK
  <2> QED BY <1>1, <1>2, <2>1 DEF PastInv
<1>4. CASE after' = after
  BY <1>1, <1>2, <1>4 DEF PastInv
<1>5. after' = after \/ \E m \in Matches : Send(f, m)
  BY DEF Step, Stand, LookupMisses, LookupStale, Lookup, LookupRaises, AnswerRecorded,
     Diverge, AnswerAsShadow
<1> QED BY <1>3, <1>4, <1>5

\* Every step keeps answers those of the entries that were taken.
LEMMA MatchStep ==
    ASSUME TypeOK, PlaceInv, MatchInv, NEW f \in Live, Step(f)
    PROVE  MatchInv'
<1>0. /\ rec' = rec
      /\ \A g \in Live : g # f => /\ want'[g] = want[g] /\ standing'[g] = standing[g]
                                  /\ took'[g] = took[g] /\ served'[g] = served[g]
  BY StepFacts
<1>1. \A g \in Live : g # f => Matched(g)'
  BY <1>0 DEF MatchInv, Matched
<1>2. CASE Lookup(f)
  <2>1. /\ took'[f] = First(f) /\ want' = want /\ standing' = standing
        /\ served'[f] = IF rec[First(f)].servable THEN First(f) ELSE 0
        /\ Unused(f) # {}
    BY <1>2 DEF Lookup, TypeOK
  <2>2. /\ First(f) # 0 /\ rec[First(f)].match = want[f]
        /\ rec[First(f)].standing = standing[f]
    BY <2>1, FirstFacts
  <2>3. Matched(f)'
    BY <1>0, <2>1, <2>2 DEF Matched
  <2> QED BY <1>1, <2>3 DEF MatchInv
<1>3. CASE ~Lookup(f)
  <2>1. took' = took /\ served' = served
    BY <1>3, StepFacts
  <2>2. pc[f] \in {"unsent", "sent"} \/ (want' = want /\ standing' = standing)
    BY StepFacts
  <2>3. Matched(f) /\ (pc[f] \in {"unsent", "sent"} => took[f] = 0)
    BY DEF MatchInv, PlaceInv, Placed
  <2>4. Matched(f)'
    BY <1>0, <2>1, <2>2, <2>3 DEF Matched
  <2> QED BY <1>1, <2>4 DEF MatchInv
<1> QED BY <1>2, <1>3

\* What a lookup stands for does not change, but that of the one that looks up.
LEMMA TakenStep ==
    ASSUME TypeOK, PlaceInv, MatchInv, NEW f \in Live, Step(f)
    PROVE  /\ \A g \in Live : g # f => TakenBy(g)' = TakenBy(g)
           /\ ~Lookup(f) => TakenBy(f)' = TakenBy(f)
           /\ Lookup(f) => TakenBy(f) = {}
<1>1. /\ rec' = rec /\ \A i : Inner(i)' = Inner(i)
      /\ \A g \in Live : g # f =>
            took'[g] = took[g] /\ served'[g] = served[g] /\ want'[g] = want[g]
  BY StepFacts, SameRecording
<1>2. \A g \in Live : g # f => TakenBy(g)' = TakenBy(g)
  BY <1>1 DEF TakenBy, Kind
<1>3. CASE Lookup(f)
  <2>1. took[f] = 0
    BY <1>3 DEF Lookup, PlaceInv, Placed
  <2> QED BY <1>2, <1>3, <2>1 DEF TakenBy
<1>4. CASE ~Lookup(f)
  <2>1. took' = took /\ served' = served /\ (pc[f] = "unsent" \/ want' = want)
    BY <1>4, StepFacts
  <2>2. pc[f] = "unsent" => took[f] = 0
    BY DEF PlaceInv, Placed
  <2> QED BY <1>1, <1>2, <1>4, <2>1, <2>2 DEF TakenBy, Kind
<1> QED BY <1>3, <1>4

\* Every step keeps what is used up taken by somebody, in order.
LEMMA UsedStep ==
    ASSUME TypeOK, PlaceInv, MatchInv, UsedInv, MatchInv', NEW f \in Live, Step(f)
    PROVE  UsedInv'
<1>0. /\ rec' = rec /\ Exchanges' = Exchanges /\ \A i : UsedUp(i)' = UsedUp(i)
      /\ \A g \in Live : g # f => /\ want'[g] = want[g] /\ standing'[g] = standing[g]
                                  /\ took'[g] = took[g] /\ TakenBy(g)' = TakenBy(g)
  BY StepFacts, SameRecording, TakenStep
<1>1. consumed \subseteq consumed'
  BY StepFacts DEF Lookup
<1>2. ASSUME NEW g \in Live, g # f, took'[g] # 0
      PROVE  /\ UsedUp(took'[g]) \subseteq consumed'
             /\ \A i \in DOMAIN rec :
                   i < took'[g] /\ rec[i].match = want'[g] /\ rec[i].standing = standing'[g]
                       => i \in consumed'
  BY <1>0, <1>1, <1>2 DEF UsedInv
<1>3. CASE Lookup(f)
  <2>1. /\ took'[f] = First(f) /\ want' = want /\ standing' = standing /\ Unused(f) # {}
        /\ consumed' = consumed \cup UsedUp(First(f))
    BY <1>3 DEF Lookup, TypeOK
  <2>2. /\ UsedUp(took'[f]) \subseteq consumed'
        /\ \A i \in DOMAIN rec :
              i < took'[f] /\ rec[i].match = want'[f] /\ rec[i].standing = standing'[f]
                  => i \in consumed'
    BY <1>0, <2>1, FirstFacts
  <2>3. UsedUp(First(f)) \cap Exchanges \subseteq TakenBy(f)'
    <3>1. Matched(f)' /\ First(f) # 0
      BY <2>1, FirstFacts DEF MatchInv
    <3>2. (UsedUp(took[f]) \cap Exchanges \subseteq TakenBy(f))'
      <4>1. Displaced(First(f)) \cap Exchanges = {}
        BY DEF Displaced, NestedIn, Exchanges
      <4>2. \A i : Inner(i)' = Inner(i)
        BY <1>0, SameRecording
      <4> QED BY <1>0, <2>1, <3>1, <4>1, <4>2 DEF TakenBy, UsedUp, Matched, Kind
    <3> QED BY <1>0, <2>1, <3>2
  <2>4. \A i \in consumed' \cap Exchanges : \E g \in Live : i \in TakenBy(g)'
    <3> SUFFICES ASSUME NEW i \in consumed' \cap Exchanges PROVE \E g \in Live : i \in TakenBy(g)'
      OBVIOUS
    <3>1. CASE i \in consumed
      <4>1. PICK g \in Live : i \in TakenBy(g)
        BY <3>1 DEF UsedInv
      <4>2. g # f
        BY <1>3, <4>1, TakenStep
      <4> QED BY <1>0, <4>1, <4>2
    <3>2. CASE i \notin consumed
      BY <2>1, <2>3, <3>2
    <3> QED BY <3>1, <3>2
  <2> QED BY <1>0, <1>2, <2>2, <2>4, SameOfEntry DEF UsedInv
<1>4. CASE ~Lookup(f)
  <2>1. consumed' = consumed /\ took' = took /\ \A g \in Live : TakenBy(g)' = TakenBy(g)
    BY <1>0, <1>4, StepFacts, TakenStep
  <2>2. took[f] # 0 => want' = want /\ standing' = standing
    BY StepFacts DEF PlaceInv, Placed
  <2>3. took'[f] # 0 =>
          /\ UsedUp(took'[f]) \subseteq consumed'
          /\ \A i \in DOMAIN rec :
                i < took'[f] /\ rec[i].match = want'[f] /\ rec[i].standing = standing'[f]
                    => i \in consumed'
    BY <1>0, <2>1, <2>2 DEF UsedInv
  <2> QED BY <1>0, <1>2, <2>1, <2>3, SameOfEntry DEF UsedInv
<1> QED BY <1>3, <1>4

\* Every step diverges a replay before a write it missed is answered.
LEMMA DivergedStep ==
    ASSUME TypeOK, PlaceInv, DivergedInv, NEW f \in Live, Step(f)
    PROVE  DivergedInv'
<1>1. /\ diverged => diverged'
      /\ \A g \in Live : g # f => pc'[g] = pc[g] /\ want'[g] = want[g] /\ served'[g] = served[g]
  BY StepFacts
<1>2. \A g \in Live : g # f =>
         (pc'[g] \in {"shadow", "done"} /\ Kind(g)' = "write" /\ served'[g] = 0 => diverged')
  BY <1>1 DEF DivergedInv, Kind
<1>3. pc'[f] \in {"shadow", "done"} /\ Kind(f)' = "write" /\ served'[f] = 0 => diverged'
  <2> USE DEF TypeOK, Go, Kind
  <2>1. CASE (\E m \in Matches : Send(f, m)) \/ Stand(f)
    BY <2>1 DEF Send, Stand
  <2>2. CASE LookupMisses(f) \/ LookupStale(f) \/ LookupRaises(f) \/ Lookup(f)
    BY <2>2 DEF LookupMisses, LookupStale, LookupRaises, Lookup
  <2>3. CASE AnswerRecorded(f)
    BY <2>3 DEF AnswerRecorded, PlaceInv, Placed
  <2>4. CASE Diverge(f)
    BY <2>4 DEF Diverge
  <2>5. CASE AnswerAsShadow(f)
    BY <1>1, <2>5 DEF AnswerAsShadow, DivergedInv
  <2> QED BY <2>1, <2>2, <2>3, <2>4, <2>5 DEF Step
<1> QED BY <1>2, <1>3 DEF DivergedInv

\* Every step keeps an answered write's key held, and tells those that use it.
LEMMA KeyStep ==
    ASSUME TypeOK, PlaceInv, PastInv, KeyInv, NEW f \in Live, Step(f), TypeOK'
    PROVE  KeyInv'
<1>0. /\ \A k \in Keys : held[k] # NoMatch => held'[k] # NoMatch
      /\ \A g \in Live : g # f => /\ pc'[g] = pc[g] /\ want'[g] = want[g]
                                  /\ standing'[g] = standing[g] /\ after'[g] = after[g]
      /\ pc[f] # "done" /\ rec' = rec
  BY StepFacts
<1>1. \A g \in Live : pc[g] # "unsent" => (Keyed(g) => want[g].key \in Keys)
  BY RecordedFacts DEF PlaceInv, Placed, Keyed
<1>2. ASSUME NEW g \in Live, pc'[g] = "done", Keyed(g)' PROVE held'[want'[g].key] # NoMatch
  <2>1. CASE g # f
    <3>1. pc[g] = "done" /\ Keyed(g) /\ want'[g] = want[g]
      BY <1>0, <1>2, <2>1 DEF Keyed, Kind
    <3> QED BY <1>0, <1>1, <3>1 DEF KeyInv
  <2>2. CASE g = f
    <3>1. (AnswerRecorded(f) \/ AnswerAsShadow(f)) /\ Keyed(f) /\ want' = want /\ pc[f] # "unsent"
      BY <1>2, <2>2
      DEF Step, Send, Stand, LookupMisses, LookupStale, LookupRaises, Lookup, Diverge,
          AnswerRecorded, AnswerAsShadow, Go, TypeOK, Kind, Keyed
    <3>2. want[f].key \in Keys /\ want[f] # NoMatch
      BY <1>1, <3>1, ReplayAssumption DEF PlaceInv, Placed
    <3>3. held' = IF held[want[f].key] = NoMatch
                  THEN [held EXCEPT ![want[f].key] = want[f]] ELSE held
      BY <3>1 DEF AnswerRecorded, AnswerAsShadow, Remember
    <3> QED BY <2>2, <3>1, <3>2, <3>3 DEF TypeOK
  <2> QED BY <2>1, <2>2
<1>3. ASSUME NEW g \in Live, NEW h \in after'[g], Keyed(g)', Keyed(h)',
             want'[g].key = want'[h].key, pc'[g] \notin {"unsent", "sent"}
      PROVE  standing'[g] # ""
  <2>1. CASE g # f
    <3>1. h \in after[g] /\ h \in Live /\ pc[h] = "done" /\ h # f
      BY <1>0, <1>3, <2>1 DEF PastInv, TypeOK
    <3> QED BY <1>0, <1>3, <2>1, <3>1 DEF KeyInv, Keyed, Kind
  <2>2. CASE g = f
    <3>1. CASE \E m \in Matches : Send(f, m)
      <4>1. pc'[f] = "ready" => Kind(f)' # "write"
        BY <3>1 DEF Send, Kind, Go, TypeOK
      <4>2. pc'[f] \in {"sent", "ready"}
        BY <3>1 DEF Send, Go, TypeOK
      <4> QED BY <1>3, <2>2, <4>1, <4>2 DEF Keyed
    <3>2. CASE Stand(f)
      <4>1. after' = after /\ want' = want /\ h \in after[f] /\ h \in Live /\ pc[h] = "done"
        BY <1>3, <2>2, <3>2 DEF Stand, PastInv, TypeOK
      <4>2. Keyed(f) /\ Keyed(h) /\ want[f].key = want[h].key
        BY <1>3, <2>2, <4>1 DEF Keyed, Kind
      <4>3. held[want[f].key] # NoMatch
        BY <4>1, <4>2 DEF KeyInv
      <4> QED BY <2>2, <3>2, <4>2, <4>3 DEF Stand, TypeOK
    <3>3. CASE pc[f] \notin {"unsent", "sent"}
      <4>1. after' = after /\ want' = want /\ standing' = standing
        BY <3>3, StepFacts
      <4>2. h \in after[f] /\ h \in Live
        BY <1>3, <2>2, <4>1 DEF TypeOK
      <4> QED BY <1>3, <2>2, <3>3, <4>1, <4>2 DEF KeyInv, Keyed, Kind
    <3>4. pc[f] \notin {"unsent", "sent"} \/ Stand(f) \/ \E m \in Matches : Send(f, m)
      BY DEF Step, LookupMisses, LookupStale, LookupRaises, Lookup, Diverge, AnswerRecorded,
         AnswerAsShadow
    <3> QED BY <3>1, <3>2, <3>3, <3>4
  <2> QED BY <2>1, <2>2
<1>4. \A g \in Live : after'[g] \subseteq Live
  BY DEF TypeOK
<1> QED BY <1>2, <1>3, <1>4 DEF KeyInv

-----------------------------------------------------------------------------
(* What a replay promises is kept by every step. *)

\* Every step keeps answers given once and in order.
LEMMA OrderStep ==
    ASSUME TypeOK, PlaceInv, PastInv, MatchInv, UsedInv, AnswersOnceInOrder,
           NEW h \in Live, Step(h)
    PROVE  AnswersOnceInOrder'
<1>0. /\ \A g \in Live : g # h => /\ want'[g] = want[g] /\ standing'[g] = standing[g]
                                  /\ took'[g] = took[g] /\ after'[g] = after[g]
                                  /\ TakenBy(g)' = TakenBy(g)
      /\ pc[h] # "done" /\ rec' = rec
  BY StepFacts, TakenStep
<1>1. \A g \in Live : took[g] # 0 => /\ took[g] \in consumed /\ TakenBy(g) \subseteq consumed
                                     /\ pc[g] \notin {"unsent", "sent", "ready"}
  BY TakenIsUsedUp DEF UsedInv, MatchInv, UsedUp, PlaceInv, Placed
<1>2. \A g \in Live : took[g] = 0 => TakenBy(g) = {}
  BY DEF TakenBy
<1>3. \A f \in Live : \A g \in after[f] : g \in Live /\ pc[g] = "done" /\ g # h
  BY <1>0 DEF PastInv, TypeOK
<1>4. CASE Lookup(h)
  <2>1. /\ took'[h] = First(h) /\ took[h] = 0 /\ want' = want /\ standing' = standing
        /\ after' = after /\ Unused(h) # {}
    BY <1>4 DEF Lookup, TypeOK, PlaceInv, Placed
  <2>2. /\ First(h) \in DOMAIN rec /\ First(h) \notin consumed /\ DOMAIN rec \subseteq Nat
        /\ rec[First(h)].match = want[h] /\ rec[First(h)].standing = standing[h]
    BY <2>1, FirstFacts, RecordedFacts
  <2> SUFFICES ASSUME NEW f \in Live, NEW g \in Live, f # g, took'[f] # 0
      PROVE  /\ took'[f] # took'[g]
             /\ g \in after[f] => took'[f] \notin TakenBy(g)'
             /\ g \in after[f] /\ took'[g] # 0 /\ want[f] = want[g] /\ standing[f] = standing[g]
                => took'[g] < took'[f]
    BY <2>1 DEF AnswersOnceInOrder
  <2>3. CASE f = h
    <3>1. took'[f] # took'[g] /\ took'[g] = took[g] /\ TakenBy(g)' = TakenBy(g)
      BY <1>0, <1>1, <2>1, <2>2, <2>3
    <3>2. took'[f] \notin TakenBy(g)'
      BY <1>1, <1>2, <2>1, <2>2, <2>3, <3>1
    <3>3. ASSUME took'[g] # 0, want[f] = want[g], standing[f] = standing[g]
          PROVE  took'[g] < took'[f]
      <4>1. \A i \in DOMAIN rec :
               i < took[g] /\ rec[i].match = want[g] /\ rec[i].standing = standing[g]
                   => i \in consumed
        BY <3>1, <3>3 DEF UsedInv
      <4>2. ~(First(h) < took[g])
        BY <2>2, <2>3, <3>3, <4>1
      <4>3. took[g] \in Nat /\ First(h) \in Nat /\ First(h) # took[g]
        BY <2>1, <2>2, <2>3, <3>1, <3>3 DEF TypeOK
      <4> QED BY <2>1, <2>3, <3>1, <4>2, <4>3
    <3> QED BY <3>1, <3>2, <3>3
  <2>4. CASE f # h
    <3>1. took'[f] = took[f]
      BY <1>0, <2>4
    <3>2. CASE g = h
      BY <1>1, <1>3, <2>1, <2>2, <2>4, <3>1, <3>2
    <3>3. CASE g # h
      BY <1>0, <3>1, <3>3 DEF AnswersOnceInOrder
    <3> QED BY <3>2, <3>3
  <2> QED BY <2>3, <2>4
<1>5. CASE ~Lookup(h)
  <2>1. took' = took /\ TakenBy(h)' = TakenBy(h)
    BY <1>5, StepFacts, TakenStep
  <2>2. took[h] # 0 => want' = want /\ standing' = standing /\ after' = after
    BY <1>1, StepFacts
  <2> SUFFICES ASSUME NEW f \in Live, NEW g \in Live, f # g, took'[f] # 0
      PROVE  /\ took'[f] # took'[g]
             /\ g \in after'[f] => took'[f] \notin TakenBy(g)'
             /\ g \in after'[f] /\ took'[g] # 0 /\ want'[f] = want'[g] /\ standing'[f] = standing'[g]
                => took'[g] < took'[f]
    BY DEF AnswersOnceInOrder
  <2>3. after'[f] = after[f] /\ want'[f] = want[f] /\ standing'[f] = standing[f]
    BY <1>0, <2>1, <2>2
  <2>4. TakenBy(g)' = TakenBy(g)
    BY <1>0, <2>1
  <2>5. g \in after[f] => want'[g] = want[g] /\ standing'[g] = standing[g]
    BY <1>0, <1>3
  <2> QED BY <2>1, <2>3, <2>4, <2>5 DEF AnswersOnceInOrder
<1> QED BY <1>4, <1>5

\* Every step serves nothing that may show writes past a missed one.
LEMMA PastAMissStep ==
    ASSUME TypeOK, PlaceInv, PastInv, MatchInv, DivergedInv, NothingServedPastAMiss,
           NEW h \in Live, Step(h)
    PROVE  NothingServedPastAMiss'
<1>0. /\ \A g \in Live : g # h => /\ want'[g] = want[g] /\ served'[g] = served[g]
                                  /\ after'[g] = after[g]
      /\ pc[h] # "done" /\ rec' = rec
      /\ \A i : DependsOnPriorWrites(i)' = DependsOnPriorWrites(i)
  BY StepFacts, SameRecording
<1>1. \A f \in Live : \A g \in after[f] : g \in Live /\ pc[g] = "done" /\ g # h
  BY <1>0 DEF PastInv, TypeOK
<1>2. \A f \in Live : pc[f] \in {"unsent", "sent", "ready"} => served[f] = 0
  BY DEF PlaceInv, Placed, MatchInv, Matched
<1> SUFFICES ASSUME NEW f \in Live, NEW g \in Live, g \in after'[f],
                    Kind(g)' = "write", served'[g] = 0, served'[f] # 0
             PROVE  ~DependsOnPriorWrites(served'[f])
  BY SameOfEntry, <1>0 DEF NothingServedPastAMiss
<1>3. served'[f] = served[f] => after'[f] = after[f]
  BY <1>0, <1>2, StepFacts
<1>4. CASE served'[f] = served[f]
  <2>1. g \in after[f] /\ g # h /\ Kind(g) = "write" /\ served[g] = 0
    BY <1>0, <1>1, <1>3, <1>4 DEF Kind
  <2> QED BY <1>4, <2>1 DEF NothingServedPastAMiss
<1>5. CASE served'[f] # served[f]
  <2>1. f = h /\ Lookup(h)
    BY <1>0, <1>5, StepFacts
  <2>2. served'[f] = First(f) /\ after' = after
    BY <2>1 DEF Lookup, TypeOK
  <2>3. g # h /\ pc[g] = "done" /\ Kind(g) = "write" /\ served[g] = 0
    BY <1>0, <1>1, <2>2 DEF Kind
  <2>4. diverged
    BY <2>3 DEF DivergedInv
  <2> QED BY <2>1, <2>2, <2>4 DEF Lookup, Stale
<1> QED BY <1>4, <1>5

\* Every step serves what may show writes only behind those writes.
LEMMA BehindStep ==
    ASSUME TypeOK, PlaceInv, MatchInv, UsedInv, ServedBehindItsWrites, NEW h \in Live, Step(h)
    PROVE  ServedBehindItsWrites'
<1>0. /\ \A g \in Live : g # h => served'[g] = served[g] /\ TakenBy(g)' = TakenBy(g)
      /\ rec' = rec /\ FakedWrites' = FakedWrites
      /\ \A i : DependsOnPriorWrites(i)' = DependsOnPriorWrites(i) /\ Position(i)' = Position(i)
      /\ Lookup(h) => TakenBy(h) = {}
      /\ ~Lookup(h) => TakenBy(h)' = TakenBy(h) /\ served' = served
  BY StepFacts, SameRecording, TakenStep
<1> SUFFICES ASSUME NEW f \in Live, served'[f] # 0, DependsOnPriorWrites(served'[f]),
                    NEW w \in FakedWrites, w < Position(served'[f])
             PROVE  \E g \in Live : g # f /\ w \in TakenBy(g)'
  BY SameOfEntry, <1>0 DEF ServedBehindItsWrites
<1>1. CASE served'[f] = served[f]
  <2>1. PICK g \in Live : g # f /\ w \in TakenBy(g)
    BY <1>1 DEF ServedBehindItsWrites
  <2>2. TakenBy(g)' = TakenBy(g)
    BY <1>0, <2>1
  <2> QED BY <2>1, <2>2
<1>2. CASE served'[f] # served[f]
  <2>1. f = h /\ Lookup(h)
    BY <1>0, <1>2
  <2>2. served'[f] = First(f) /\ ~Stale(First(f))
    BY <2>1 DEF Lookup, TypeOK
  <2>3. w \in consumed /\ w \in Exchanges
    BY <2>2 DEF Stale, FakedWrites
  <2>4. PICK g \in Live : w \in TakenBy(g)
    BY <2>3 DEF UsedInv
  <2> QED BY <1>0, <2>1, <2>4
<1> QED BY <1>1, <1>2

-----------------------------------------------------------------------------
(* Theorems. *)

\* The invariant holds of a replay that has asked for nothing.
LEMMA IndexInit == Init => IndexInv
<1> SUFFICES ASSUME Init PROVE IndexInv
  OBVIOUS
<1> USE DEF Init
<1>0. /\ \A f \in Live : /\ pc[f] = "unsent" /\ took[f] = 0 /\ served[f] = 0 /\ after[f] = {}
                         /\ standing[f] = "" /\ want[f] = NoMatch
      /\ consumed = {}
  OBVIOUS
<1>1. TypeOK
  BY DEF TypeOK, Standings
<1>2. PlaceInv /\ PastInv /\ MatchInv
  BY <1>0 DEF PlaceInv, Placed, PastInv, MatchInv, Matched
<1>3. UsedInv /\ DivergedInv /\ KeyInv
  BY <1>0 DEF UsedInv, DivergedInv, KeyInv
<1>4. AnswersOnceInOrder /\ NothingServedPastAMiss /\ ServedBehindItsWrites
  BY <1>0 DEF AnswersOnceInOrder, NothingServedPastAMiss, ServedBehindItsWrites
<1> QED BY <1>1, <1>2, <1>3, <1>4 DEF IndexInv

\* A step that changes nothing keeps it.
LEMMA IndexStutter == IndexInv /\ UNCHANGED vars => IndexInv'
<1> SUFFICES ASSUME IndexInv, UNCHANGED vars PROVE IndexInv'
  OBVIOUS
<1> USE DEF vars
<1>1. TypeOK' /\ PlaceInv' /\ PastInv' /\ MatchInv' /\ DivergedInv' /\ KeyInv'
  BY DEF IndexInv, TypeOK, PlaceInv, Placed, PastInv, MatchInv, Matched, DivergedInv, KeyInv,
     Kind, Keyed
<1>2. \A g \in Live : TakenBy(g)' = TakenBy(g)
  BY SameRecording DEF TakenBy, Kind, Inner, Exchanges, Entries, Within
<1>3. Exchanges' = Exchanges /\ FakedWrites' = FakedWrites
  BY SameRecording
<1>4. UsedInv' /\ AnswersOnceInOrder'
  BY <1>2, <1>3, SameOfEntry DEF IndexInv, UsedInv, AnswersOnceInOrder
<1>5. NothingServedPastAMiss' /\ ServedBehindItsWrites'
  BY <1>2, <1>3, SameOfEntry DEF IndexInv, NothingServedPastAMiss, ServedBehindItsWrites, Kind
<1> QED BY <1>1, <1>4, <1>5 DEF IndexInv

\* And so does every other step.
LEMMA IndexStep == IndexInv /\ [Next]_vars => IndexInv'
<1> SUFFICES ASSUME IndexInv, Next PROVE IndexInv'
  BY IndexStutter
<1>1. PICK f \in Live : Step(f)
  BY DEF Next
<1>2. /\ TypeOK /\ PlaceInv /\ PastInv /\ MatchInv /\ UsedInv /\ DivergedInv /\ KeyInv
      /\ AnswersOnceInOrder /\ NothingServedPastAMiss /\ ServedBehindItsWrites
  BY DEF IndexInv
<1>3. TypeOK' /\ PlaceInv' /\ PastInv' /\ MatchInv'
  BY <1>1, <1>2, TypeStep, PlaceStep, PastStep, MatchStep
<1>4. UsedInv' /\ DivergedInv' /\ KeyInv'
  BY <1>1, <1>2, <1>3, UsedStep, DivergedStep, KeyStep
<1>5. AnswersOnceInOrder' /\ NothingServedPastAMiss' /\ ServedBehindItsWrites'
  BY <1>1, <1>2, OrderStep, PastAMissStep, BehindStep
<1> QED BY <1>3, <1>4, <1>5 DEF IndexInv

\* The invariant of a replay's index, for any stored runs, requests and keys.
THEOREM IndexInvariant == Spec => []IndexInv
<1> QED BY IndexInit, IndexStep, PTL DEF Spec

\* A replay's answers are the recording's, each used once and in its order, and a
\* retry's for a retry (ReplayIndex.match, _Entry.consumed, idempotency_standing).
THEOREM AnswersAreTheRecordings == Spec => []AnswersAsRecorded
<1>1. IndexInv => RetriesAnsweredAsRetries
  <2> SUFFICES ASSUME IndexInv, NEW f \in Live, NEW g \in Live, g \in after[f], Sent(g),
                      Keyed(f), Keyed(g), want[f].key = want[g].key, served[f] # 0
               PROVE  rec[served[f]].standing # ""
    BY DEF RetriesAnsweredAsRetries
  <2>1. took[f] # 0 /\ served[f] = took[f] /\ rec[took[f]].standing = standing[f]
    BY DEF IndexInv, MatchInv, Matched
  <2>2. pc[f] \notin {"unsent", "sent"}
    BY <2>1 DEF IndexInv, PlaceInv, Placed
  <2>3. standing[f] # ""
    BY <2>2 DEF IndexInv, KeyInv
  <2> QED BY <2>1, <2>3
<1>2. IndexInv => AnswersAsRecorded
  BY <1>1 DEF IndexInv, AnswersAsRecorded
<1> QED BY <1>2, IndexInvariant, PTL

\* No recorded answer is served past a write that the recording did not answer, or
\* ahead of one it may show (ReplayIndex._stale, diverge).
THEOREM NoneIsStale == Spec => []NothingStaleServed
<1>1. IndexInv => NothingStaleServed
  BY DEF IndexInv, NothingStaleServed
<1> QED BY <1>1, IndexInvariant, PTL

\* A replay that is told to have made every recorded call made it: answers are only
\* counted, but no two are of one entry (report.outcome, _in_a_tool).
THEOREM NoneMissedSilently == Spec => []NothingMissedSilently
<1>1. ASSUME IndexInv, NoDivergence, \A f \in AnsweredCalls : ~InAnother(served[f]),
             NEW i \in DOMAIN rec, ~InAnother(i)
      PROVE  \E f \in Live : i \in TakenBy(f)
  <2>0. TypeOK /\ MatchInv /\ AnswersOnceInOrder
    BY <1>1 DEF IndexInv
  <2>1. \A j \in DOMAIN rec : InATool(j) => InAnother(j)
    BY DEF InATool, InAnother, NestedIn
  <2>2. IsFiniteSet(ToBeMade) /\ Cardinality(ToBeMade) \in Nat
    BY <2>0, RecordedFacts, FS_Subset, FS_CardinalityType DEF ToBeMade
  <2>3. \A f \in AnsweredCalls : /\ f \in Live /\ took[f] = served[f] /\ took[f] # 0
                                 /\ served[f] \in DOMAIN rec
    BY <2>0 DEF AnsweredCalls, MatchInv, Matched, TypeOK
  <2> DEFINE answers == [f \in AnsweredCalls |-> served[f]]
  <2>4. answers \in [AnsweredCalls -> ToBeMade]
    BY <1>1, <2>1, <2>3 DEF ToBeMade, InATool, InAnother, NestedIn
  <2>5. \A f, g \in AnsweredCalls : answers[f] = answers[g] => f = g
    BY <2>0, <2>3 DEF AnswersOnceInOrder
  <2> HIDE DEF answers
  <2>6. answers \in Injection(AnsweredCalls, ToBeMade)
    BY <2>4, <2>5 DEF Injection, IsInjective
  <2>7. /\ IsFiniteSet(AnsweredCalls) /\ Cardinality(AnsweredCalls) <= Cardinality(ToBeMade)
        /\ Cardinality(AnsweredCalls) = Cardinality(ToBeMade)
              => answers \in Surjection(AnsweredCalls, ToBeMade)
    BY <2>2, <2>6, FS_Injection
  <2>8. Cardinality(AnsweredCalls) \in Nat
    BY <2>7, FS_CardinalityType
  <2>9. Cardinality(AnsweredCalls) = Cardinality(ToBeMade)
    BY <1>1, <2>2, <2>7, <2>8 DEF NoDivergence, NeverMade
  <2>10. i \in ToBeMade
    BY <1>1 DEF ToBeMade, InATool, InAnother, NestedIn
  <2>11. PICK f \in AnsweredCalls : answers[f] = i
    BY <2>7, <2>9, <2>10 DEF Surjection
  <2>12. served[f] = i
    BY <2>11 DEF answers
  <2> QED BY <2>0, <2>3, <2>12, TakenIsUsedUp DEF MatchInv
<1>2. IndexInv => NothingMissedSilently
  BY <1>1 DEF NothingMissedSilently
<1> QED BY <1>2, IndexInvariant, PTL

-----------------------------------------------------------------------------
(* The summary of a run: the inductive invariant. *)

\* The exchanges that are recorded, and what is true of each: a flag tells who
\* can have answered.
SummaryFlags ==
    {"from-recording", "target-failed", "refused", "idempotent-replay", "idempotency-conflict",
     "decision-failed"}
Outcomes == {"", "passed", "rejected", "not_evaluable"}
EventShape ==
    [issued : {"agent", "engine"}, kind : {"read", "write", "llm", "telemetry"},
     by : {"live", "overlay", "delegated", "irimi", "recording", "fake-L2"},
     service : Services \cup {"telemetry"}, object : Objects \cup {""},
     overlay : {"", "full", "partial"}, flags : SUBSET SummaryFlags, outcome : Outcomes,
     from : Nat, to : Nat, flow : Flows \cup {NoFlow}]

Sound(e) ==
    /\ e.issued = "engine" => e.kind = "read" /\ e.by = "live"
    /\ e.kind = "llm" => e.by \in {"live", "recording", "irimi"}
    /\ e.kind = "llm" /\ e.by = "irimi" => RefusedByIrimi(e)
    /\ e.by = "irimi" => RefusedByIrimi(e) \/ FailedTarget(e)
    /\ e.kind = "read" => e.by # "fake-L2"
    /\ e.kind = "write" => e.by \in {"fake-L2", "delegated", "irimi"}
    /\ e.by = "live" => e.flags = {}
    /\ e.by = "recording" => "from-recording" \in e.flags
    /\ e.by = "delegated" => e.flags \subseteq {"target-failed"}
    /\ e.flags \cap {"decision-failed", "refused"} # {} => e.by = "irimi"
    /\ "target-failed" \in e.flags => e.by \in {"delegated", "irimi"}
SoundEvents == {e \in EventShape : Sound(e)}

FlowShape ==
    [pc : {"new", "deciding", "asked", "decided", "done"}, object : Objects \cup {""},
     from : Nat, asked : Nat, made : BOOLEAN, outcome : Outcomes]

SummaryType ==
    /\ events \in Seq(SoundEvents)
    /\ flow \in [Flows -> FlowShape]
    /\ now \in Nat

\* A write of service s that later reads may show.
Authored(e, s) == IsSummaryWrite(e) /\ IsAuthoredWrite(e) /\ e.service = s

\* What the write log has was recorded, and a read that shows it is later, unless
\* a recording answered it.
AuthoredInv == \A s \in answeredWrites : \E w \in DOMAIN events : Authored(events[w], s)
ShownInv ==
    \A r \in DOMAIN events :
        IsAgentRead(events[r]) /\ Shown(events[r]) # "" /\ ~Recorded(events[r]) =>
            \E w \in 1..r - 1 : Authored(events[w], events[r].service)

SummaryInv == SummaryType /\ AuthoredInv /\ ShownInv

-----------------------------------------------------------------------------
(* The totals. *)

\* Which counter an exchange is in tells who answered it.
LEMMA ReadCounters ==
    ASSUME NEW e \in SoundEvents, IsAgentRead(e)
    PROVE  /\ e.by \in {"live", "overlay", "recording"} => Counter(e) = "reads"
           /\ e.by = "delegated" => Counter(e) = "target_reads"
           /\ e.by = "irimi" => Counter(e) \in {"unreached_reads", "refused_reads"}
<1>1. ~IsCheckRead(e) /\ ~IsLlm(e) /\ ~IsSummaryWrite(e)
  BY DEF IsAgentRead, IsCheckRead, IsLlm, IsSummaryWrite
<1>2. Counter(e) = ReadCounter[ReadBy(e)]
  BY <1>1 DEF Counter
<1>3. /\ ReadCounter["service"] = "reads" /\ ReadCounter["target"] = "target_reads"
      /\ ReadCounter["unreached"] = "unreached_reads" /\ ReadCounter["refused"] = "refused_reads"
  BY DEF ReadCounter
<1>4. e.by \in {"live", "overlay", "recording"} => ReadBy(e) = "service"
  BY DEF ReadBy
<1>5. e.by = "delegated" => ReadBy(e) = "target"
  BY DEF ReadBy
<1>6. e.by = "irimi" => ReadBy(e) \in {"unreached", "refused"}
  BY DEF ReadBy
<1> QED BY <1>2, <1>3, <1>4, <1>5, <1>6

\* The counter of a write.
LEMMA WriteCounters ==
    ASSUME NEW e \in SoundEvents, e.kind = "write"
    PROVE  /\ ~IsSummaryWrite(e) => Counter(e) = ""
           /\ IsSummaryWrite(e) /\ e.by = "delegated" /\ ~FailedTarget(e) => Counter(e) = "target_writes"
           /\ IsSummaryWrite(e) /\ e.by # "delegated" =>
                 Counter(e) \in {"faked_writes", "refused_writes", "unreached_writes"}
<1>1. e \in EventShape /\ Sound(e)
  BY DEF SoundEvents
<1>2. ~IsCheckRead(e) /\ ~IsAgentRead(e) /\ ~IsLlm(e)
  BY <1>1 DEF IsCheckRead, IsAgentRead, IsLlm, Sound
<1>3. Counter(e) = IF IsSummaryWrite(e) THEN WriteCounter[WriteStatus(e)] ELSE ""
  BY <1>2 DEF Counter
<1>4. /\ WriteCounter["faked"] = "faked_writes" /\ WriteCounter["refused"] = "refused_writes"
      /\ WriteCounter["target"] = "target_writes" /\ WriteCounter["unreached"] = "unreached_writes"
  BY DEF WriteCounter
<1>5. e.by = "delegated" /\ ~FailedTarget(e) => WriteStatus(e) = "target"
  BY <1>1 DEF Sound, WriteStatus, RefusedByIrimi
<1>6. e.by # "delegated" => WriteStatus(e) \in {"faked", "refused", "unreached"}
  BY DEF WriteStatus
<1> QED BY <1>3, <1>4, <1>5, <1>6

\* What the hosts' lines tell to be irimi's.
ToldAsIrimis(e) ==
    \/ Recorded(e)
    \/ IsLlm(e) /\ RefusedByIrimi(e)
    \/ Counter(e) \in {"faked_writes", "refused_writes", "unreached_writes",
                       "refused_reads", "unreached_reads", ""}

\* Each exchange that a summary counts is answered by one, and counted so.
LEMMA CountedAsAnswered ==
    ASSUME NEW e \in SoundEvents, e.kind # "telemetry", ~(e.by = "delegated" /\ FailedTarget(e))
    PROVE  /\ Answerer(e) \in {"real", "target", "irimi"}
           /\ Answerer(e) = "target" <=> Counter(e) \in {"target_reads", "target_writes"}
           /\ Answerer(e) = "irimi" <=> ToldAsIrimis(e)
<1> USE DEF ToldAsIrimis
<1>1. e \in EventShape /\ Sound(e)
  BY DEF SoundEvents
<1>2. e.by \in {"live", "overlay", "delegated", "irimi", "recording", "fake-L2"}
      /\ e.kind \in {"read", "write", "llm"} /\ e.issued \in {"agent", "engine"}
  BY <1>1 DEF EventShape
<1>3. /\ e.by \in {"live", "overlay"} /\ ~Recorded(e) => Answerer(e) = "real"
      /\ e.by \in {"live", "overlay"} /\ Recorded(e) => Answerer(e) = "irimi"
      /\ e.by = "delegated" => Answerer(e) = "target"
      /\ e.by \in {"irimi", "recording", "fake-L2"} => Answerer(e) = "irimi"
  BY DEF Answerer
<1>4. /\ e.by = "live" => ~Recorded(e)
      /\ e.by = "recording" => Recorded(e)
      /\ e.by = "delegated" => ~Recorded(e)
  BY <1>1 DEF Sound, Recorded
<1>n. e.kind # "llm" => ~IsLlm(e)
  BY DEF IsLlm
<1>5. CASE e.issued = "engine"
  <2>1. Counter(e) = "check_reads"
    <3>1. IsCheckRead(e) /\ ~IsAgentRead(e) /\ ~IsLlm(e) /\ ~IsSummaryWrite(e)
      BY <1>5 DEF IsCheckRead, IsAgentRead, IsLlm, IsSummaryWrite
    <3> QED BY <3>1 DEF Counter
  <2>2. e.by = "live" /\ e.kind = "read"
    BY <1>1, <1>5 DEF Sound
  <2> QED BY <1>3, <1>4, <1>n, <2>1, <2>2
<1>6. CASE e.issued = "agent" /\ e.kind = "read"
  <2>1. IsAgentRead(e)
    BY <1>6 DEF IsAgentRead
  <2>2. e.by # "fake-L2"
    BY <1>1, <1>6 DEF Sound
  <2> QED BY <1>2, <1>3, <1>4, <1>6, <1>n, <2>1, <2>2, ReadCounters
<1>7. CASE e.issued = "agent" /\ e.kind = "llm"
  <2>1. Counter(e) = "llm"
    <3>1. ~IsCheckRead(e) /\ ~IsAgentRead(e) /\ IsLlm(e) /\ ~IsSummaryWrite(e)
      BY <1>7 DEF IsCheckRead, IsAgentRead, IsLlm, IsSummaryWrite
    <3> QED BY <3>1 DEF Counter
  <2>2. e.by \in {"live", "recording", "irimi"} /\ (e.by = "irimi" => RefusedByIrimi(e))
    BY <1>1, <1>7 DEF Sound
  <2>3. e.by # "irimi" => ~RefusedByIrimi(e)
    BY <1>1 DEF Sound, RefusedByIrimi
  <2>4. IsLlm(e)
    BY <1>7 DEF IsLlm
  <2> QED BY <1>3, <1>4, <2>1, <2>2, <2>3, <2>4
<1>8. CASE e.issued = "agent" /\ e.kind = "write"
  <2>1. e.by \in {"fake-L2", "delegated", "irimi"}
    BY <1>1, <1>8 DEF Sound
  <2>2. e.by = "delegated" => IsSummaryWrite(e)
    BY <1>1, <1>8 DEF Sound, IsSummaryWrite
  <2> QED BY <1>3, <1>4, <1>8, <1>n, <2>1, <2>2, WriteCounters
<1> QED BY <1>2, <1>5, <1>6, <1>7, <1>8

\* What is neither of two apart is the rest.
LEMMA ThreeParts ==
    ASSUME NEW X, NEW Y, NEW Z, IsFiniteSet(X), IsFiniteSet(Y), IsFiniteSet(Z),
           X \cap Y = {}, (X \cup Y) \cap Z = {}
    PROVE  /\ IsFiniteSet(X \cup Y \cup Z)
           /\ Cardinality(X) \in Nat /\ Cardinality(Y) \in Nat /\ Cardinality(Z) \in Nat
           /\ Cardinality(X \cup Y \cup Z) = Cardinality(X) + Cardinality(Y) + Cardinality(Z)
<1>1. IsFiniteSet(X \cup Y) /\ Cardinality(X \cup Y) = Cardinality(X) + Cardinality(Y) - 0
  BY FS_Union, FS_EmptySet
<1>2. /\ IsFiniteSet((X \cup Y) \cup Z)
      /\ Cardinality((X \cup Y) \cup Z) = Cardinality(X \cup Y) + Cardinality(Z) - 0
  BY <1>1, FS_Union, FS_EmptySet
<1>3. Cardinality(X) \in Nat /\ Cardinality(Y) \in Nat /\ Cardinality(Z) \in Nat
  BY FS_CardinalityType
<1> QED BY <1>1, <1>2, <1>3

\* The totals of a run whose events are sound.
LEMMA TotalsOfSound ==
    ASSUME events \in Seq(SoundEvents)
    PROVE  TotalsAgree
<1> DEFINE S == SummaryExchanges
           By(a) == {i \in S : Answerer(events[i]) = a}
           Counted(c) == {i \in S : Counter(events[i]) \in c}
           Fakes == {"faked_writes", "refused_writes", "unreached_writes", "refused_reads",
                     "unreached_reads", ""}
           FromRecording == {i \in S : Recorded(events[i])}
           RefusedLlms == {i \in S : IsLlm(events[i]) /\ RefusedByIrimi(events[i])}
<1> SUFFICES ASSUME {i \in S : events[i].by = "delegated" /\ FailedTarget(events[i])} = {}
             PROVE  /\ Targets = Cardinality(Counted({"target_reads", "target_writes"}))
                    /\ ByIrimi = Cardinality(FromRecording \cup RefusedLlms \cup Counted(Fakes))
  BY DEF TotalsAgree
<1>1. Len(events) \in Nat /\ DOMAIN events = 1..Len(events)
      /\ \A i \in DOMAIN events : events[i] \in SoundEvents
  BY ElementOfSeq
<1>2. \A i \in S : events[i] \in SoundEvents /\ events[i].kind # "telemetry"
                   /\ ~(events[i].by = "delegated" /\ FailedTarget(events[i]))
  BY <1>1 DEF SummaryExchanges
<1>3. \A i \in S :
         /\ Answerer(events[i]) \in {"real", "target", "irimi"}
         /\ Answerer(events[i]) = "target" <=> Counter(events[i]) \in {"target_reads", "target_writes"}
         /\ Answerer(events[i]) = "irimi" <=> ToldAsIrimis(events[i])
  BY <1>2, CountedAsAnswered
<1>4. IsFiniteSet(DOMAIN events)
  BY <1>1, FS_Interval
<1>5. IsFiniteSet(S) /\ IsFiniteSet(Telemetry) /\ \A a : IsFiniteSet(By(a))
  <2>1. S \in SUBSET DOMAIN events /\ Telemetry \in SUBSET DOMAIN events
        /\ \A a : By(a) \in SUBSET DOMAIN events
    BY DEF SummaryExchanges, Telemetry
  <2> QED BY <1>4, <2>1, FS_Subset
<1>6. /\ Cardinality(S) = Cardinality(By("real")) + Cardinality(By("target")) + Cardinality(By("irimi"))
      /\ Cardinality(By("real")) \in Nat /\ Cardinality(By("target")) \in Nat
      /\ Cardinality(By("irimi")) \in Nat
  <2>1. S = By("real") \cup By("target") \cup By("irimi")
    BY <1>3
  <2>2. By("real") \cap By("target") = {} /\ (By("real") \cup By("target")) \cap By("irimi") = {}
    OBVIOUS
  <2> HIDE DEF By
  <2>3. /\ Cardinality(By("real") \cup By("target") \cup By("irimi"))
             = Cardinality(By("real")) + Cardinality(By("target")) + Cardinality(By("irimi"))
        /\ Cardinality(By("real")) \in Nat /\ Cardinality(By("target")) \in Nat
        /\ Cardinality(By("irimi")) \in Nat
    <3>1. IsFiniteSet(By("real")) /\ IsFiniteSet(By("target")) /\ IsFiniteSet(By("irimi"))
      BY <1>5
    <3> QED BY ONLY <2>2, <3>1, ThreeParts
  <2> QED BY <2>1, <2>3
<1>7. Cardinality(Telemetry) \in Nat
  BY <1>5, FS_CardinalityType
<1>8. Targets = Cardinality(By("target")) /\ ByIrimi = Cardinality(By("irimi"))
  <2>1. Targets = Cardinality(By("target"))
    BY DEF Targets
  <2>2. /\ Total = Cardinality(S) + Cardinality(Telemetry)
        /\ Real = Cardinality(Telemetry) + Cardinality(By("real"))
    BY DEF Total, Real
  <2>3. ByIrimi = Total - Real - Targets
    BY DEF ByIrimi
  <2>4. PICK r, a, i, e : /\ r = Cardinality(By("real")) /\ a = Cardinality(By("target"))
                          /\ i = Cardinality(By("irimi")) /\ e = Cardinality(Telemetry)
    OBVIOUS
  <2>5. Cardinality(S) = r + a + i /\ r \in Nat /\ a \in Nat /\ i \in Nat /\ e \in Nat
    BY ONLY <1>6, <1>7, <2>4
  <2>6. Total = (r + a + i) + e /\ Real = e + r /\ Targets = a
    BY ONLY <2>1, <2>2, <2>4, <2>5
  <2>7. ByIrimi = i
    BY ONLY <2>3, <2>5, <2>6
  <2> QED BY ONLY <2>1, <2>4, <2>7
<1>9. /\ By("target") = Counted({"target_reads", "target_writes"})
      /\ By("irimi") = FromRecording \cup RefusedLlms \cup Counted(Fakes)
  <2>1. By("target") = Counted({"target_reads", "target_writes"})
    BY <1>3
  <2>2. \A i \in S : i \in By("irimi") <=> i \in FromRecording \cup RefusedLlms \cup Counted(Fakes)
    <3> SUFFICES ASSUME NEW i \in S
                 PROVE  i \in By("irimi") <=> i \in FromRecording \cup RefusedLlms \cup Counted(Fakes)
      OBVIOUS
    <3>1. i \in By("irimi") <=> ToldAsIrimis(events[i])
      BY <1>3
    <3>2. ToldAsIrimis(events[i]) <=>
             \/ Recorded(events[i])
             \/ IsLlm(events[i]) /\ RefusedByIrimi(events[i])
             \/ Counter(events[i]) \in Fakes
      BY Zenon DEF ToldAsIrimis
    <3>3. i \in FromRecording \cup RefusedLlms \cup Counted(Fakes) <=>
             \/ Recorded(events[i])
             \/ IsLlm(events[i]) /\ RefusedByIrimi(events[i])
             \/ Counter(events[i]) \in Fakes
      BY Zenon
    <3> QED BY ONLY <3>1, <3>2, <3>3, Zenon
  <2>3. /\ By("irimi") \subseteq S /\ FromRecording \subseteq S /\ RefusedLlms \subseteq S
        /\ Counted(Fakes) \subseteq S
    OBVIOUS
  <2> HIDE DEF By, FromRecording, RefusedLlms, Counted
  <2>4. By("irimi") = FromRecording \cup RefusedLlms \cup Counted(Fakes)
    BY ONLY <2>2, <2>3
  <2> QED BY ONLY <2>1, <2>4
<1> QED BY <1>8, <1>9


-----------------------------------------------------------------------------
(* What is recorded is sound, and a read that shows writes is after one. *)

\* A check read and its write are sound.
LEMMA FlowEventsSound ==
    ASSUME SummaryType, NEW f \in Flows
    PROVE  /\ CheckOf(f) \in SoundEvents /\ WriteOf(f) \in SoundEvents
           /\ [WriteOf(f) EXCEPT !.by = "irimi", !.flags = {"decision-failed"}] \in SoundEvents
           /\ ~IsAgentRead(CheckOf(f)) /\ ~IsAgentRead(WriteOf(f))
           /\ ~IsAgentRead([WriteOf(f) EXCEPT !.by = "irimi", !.flags = {"decision-failed"}])
           /\ IsSummaryWrite(WriteOf(f)) /\ WriteOf(f).service = Asks
<1>1. /\ flow[f].object \in Objects \cup {""} /\ flow[f].from \in Nat /\ flow[f].asked \in Nat
      /\ flow[f].outcome \in Outcomes /\ now \in Nat
  BY DEF SummaryType, FlowShape
<1>2. Asks \in Services
  BY SummaryAssumption
<1>3. PICK r : r = Exchange("read", "live", Asks)
  OBVIOUS
<1>4. PICK w : w = Exchange("write", "fake-L2", Asks)
  OBVIOUS
<1>5. /\ r \in EventShape /\ r.kind = "read" /\ r.by = "live" /\ r.flags = {}
      /\ w \in EventShape /\ w.kind = "write" /\ w.by = "fake-L2" /\ w.flags = {}
      /\ w.service = Asks /\ w.issued = "agent"
  BY <1>2, <1>3, <1>4 DEF Exchange, EventShape, Outcomes, SummaryFlags
<1>6. PICK c : c = CheckOf(f)
  OBVIOUS
<1>7. c = [r EXCEPT !.issued = "engine", !.object = flow[f].object,
                    !.from = flow[f].asked, !.flow = f]
  BY <1>3, <1>6 DEF CheckOf
<1>8. c \in EventShape
  BY <1>1, <1>5, <1>7 DEF EventShape
<1>9. c.issued = "engine" /\ c.kind = "read" /\ c.by = "live" /\ c.flags = {}
  BY <1>1, <1>5, <1>7 DEF EventShape
<1>10. PICK v : v = WriteOf(f)
  OBVIOUS
<1>11. v = [w EXCEPT !.object = flow[f].object, !.from = flow[f].from, !.to = now,
                     !.outcome = flow[f].outcome, !.flow = f]
  BY <1>4, <1>10 DEF WriteOf
<1>12. v \in EventShape
  BY <1>1, <1>5, <1>11 DEF EventShape
<1>13. v.issued = "agent" /\ v.kind = "write" /\ v.by = "fake-L2" /\ v.flags = {} /\ v.service = Asks
  BY <1>1, <1>5, <1>11 DEF EventShape
<1>14. PICK u : u = [v EXCEPT !.by = "irimi", !.flags = {"decision-failed"}]
  OBVIOUS
<1>15. u \in EventShape
  BY <1>12, <1>14 DEF EventShape, SummaryFlags
<1>16. u.issued = "agent" /\ u.kind = "write" /\ u.by = "irimi" /\ u.flags = {"decision-failed"}
  BY <1>12, <1>13, <1>14 DEF EventShape
<1>17. c \in SoundEvents /\ v \in SoundEvents /\ u \in SoundEvents
  BY <1>8, <1>9, <1>12, <1>13, <1>15, <1>16 DEF SoundEvents, Sound, RefusedByIrimi
<1>18. ~IsAgentRead(c) /\ ~IsAgentRead(v) /\ ~IsAgentRead(u)
  BY <1>9, <1>13, <1>16 DEF IsAgentRead
<1>19. IsSummaryWrite(v)
  BY <1>13 DEF IsSummaryWrite
<1> QED BY <1>6, <1>10, <1>13, <1>14, <1>17, <1>18, <1>19

\* The agent's other exchanges are sound, and only those that the overlay concerns
\* show anything.
LEMMA ReadsSound ==
    ASSUME NEW s \in Services, NEW e \in Reads(s) \cup Llms(s)
    PROVE  e \in SoundEvents /\ Shown(e) = "" /\ ~IsAuthoredWrite(e)
<1>1. /\ {} \in SUBSET SummaryFlags /\ {"target-failed"} \in SUBSET SummaryFlags
      /\ {"refused"} \in SUBSET SummaryFlags /\ {"from-recording"} \in SUBSET SummaryFlags
  BY DEF SummaryFlags
<1>2. \E by \in {"live", "delegated", "irimi", "recording"} : \E kind \in {"read", "llm"} :
      \E flags \in SUBSET SummaryFlags :
         /\ \/ e = Exchange(kind, by, s) /\ flags = {}
            \/ e = [Exchange(kind, by, s) EXCEPT !.flags = flags]
         /\ kind = "llm" => by \in {"live", "recording", "irimi"}
         /\ kind = "llm" /\ by = "irimi" => flags = {"refused"}
         /\ by = "live" => flags = {}
         /\ by = "recording" => flags = {"from-recording"}
         /\ by = "delegated" => flags \subseteq {"target-failed"}
         /\ by = "irimi" => flags \in {{"target-failed"}, {"refused"}}
  <2>1. e \in {Exchange("read", "live", s), Exchange("read", "delegated", s),
               [Exchange("read", "delegated", s) EXCEPT !.flags = {"target-failed"}],
               [Exchange("read", "irimi", s) EXCEPT !.flags = {"target-failed"}],
               [Exchange("read", "irimi", s) EXCEPT !.flags = {"refused"}],
               [Exchange("read", "recording", s) EXCEPT !.flags = {"from-recording"}],
               Exchange("llm", "live", s),
               [Exchange("llm", "recording", s) EXCEPT !.flags = {"from-recording"}],
               [Exchange("llm", "irimi", s) EXCEPT !.flags = {"refused"}]}
    BY DEF Reads, Llms
  <2> QED BY <1>1, <2>1
<1>3. PICK by \in {"live", "delegated", "irimi", "recording"}, kind \in {"read", "llm"},
           flags \in SUBSET SummaryFlags :
         /\ \/ e = Exchange(kind, by, s) /\ flags = {}
            \/ e = [Exchange(kind, by, s) EXCEPT !.flags = flags]
         /\ kind = "llm" => by \in {"live", "recording", "irimi"}
         /\ kind = "llm" /\ by = "irimi" => flags = {"refused"}
         /\ by = "live" => flags = {}
         /\ by = "recording" => flags = {"from-recording"}
         /\ by = "delegated" => flags \subseteq {"target-failed"}
         /\ by = "irimi" => flags \in {{"target-failed"}, {"refused"}}
  BY <1>2
<1>4. PICK r : r = Exchange(kind, by, s)
  OBVIOUS
<1>5. /\ r \in EventShape /\ r.issued = "agent" /\ r.kind = kind /\ r.by = by
      /\ r.overlay = "" /\ r.flags = {}
  <2>1. /\ kind \in {"read", "write", "llm", "telemetry"}
        /\ by \in {"live", "overlay", "delegated", "irimi", "recording", "fake-L2"}
        /\ s \in Services \cup {"telemetry"}
    OBVIOUS
  <2> QED BY ONLY <1>4, <2>1 DEF Exchange, EventShape, Outcomes, SummaryFlags
<1>6. /\ e \in EventShape /\ e.issued = "agent" /\ e.kind = kind /\ e.by = by
      /\ e.overlay = "" /\ e.flags = flags
  <2>1. CASE e = r /\ flags = {}
    BY <1>5, <2>1
  <2>2. CASE e = [r EXCEPT !.flags = flags]
    BY ONLY <1>5, <2>2, flags \in SUBSET SummaryFlags DEF EventShape
  <2> QED BY <1>3, <1>4, <2>1, <2>2
<1>7. Sound(e)
  BY <1>3, <1>6 DEF Sound, RefusedByIrimi, FailedTarget
<1>8. Shown(e) = "" /\ ~IsAuthoredWrite(e)
  BY <1>3, <1>6 DEF Shown, IsAuthoredWrite
<1> QED BY <1>6, <1>7, <1>8 DEF SoundEvents


\* A read that the overlay concerns is sound, and its service has a write in the
\* log unless a recording answered it.
LEMMA OverlaidSound ==
    ASSUME NEW s \in Services, NEW e \in ReadsOverlaid(s) \cup ReadsReplayed(s)
    PROVE  /\ e \in SoundEvents /\ IsAgentRead(e) /\ ~IsAuthoredWrite(e) /\ ~IsCheckRead(e)
           /\ e.issued = "agent" /\ e.kind = "read" /\ e.service = s
           /\ Recorded(e) \/ s \in answeredWrites
<1>1. \E by \in {"live", "overlay", "recording"} : \E overlay \in {"full", "partial"} :
      \E flags \in SUBSET SummaryFlags :
         /\ \/ e = [Exchange("read", by, s) EXCEPT !.overlay = overlay] /\ flags = {}
            \/ e = [Exchange("read", by, s) EXCEPT !.overlay = overlay, !.flags = flags]
         /\ by = "live" => flags = {}
         /\ by = "recording" => flags = {"from-recording"}
         /\ flags \subseteq {"from-recording"}
         /\ flags = {"from-recording"} \/ s \in answeredWrites
  <2>1. \/ s \in answeredWrites
           /\ e \in {[Exchange("read", "overlay", s) EXCEPT !.overlay = "full"],
                     [Exchange("read", "overlay", s) EXCEPT !.overlay = "partial"],
                     [Exchange("read", "live", s) EXCEPT !.overlay = "partial"]}
        \/ e \in {[Exchange("read", "overlay", s) EXCEPT !.overlay = "full", !.flags = {"from-recording"}],
                  [Exchange("read", "overlay", s) EXCEPT !.overlay = "partial", !.flags = {"from-recording"}],
                  [Exchange("read", "recording", s) EXCEPT !.overlay = "partial", !.flags = {"from-recording"}]}
    BY DEF ReadsOverlaid, ReadsReplayed
  <2>2. {} \in SUBSET SummaryFlags /\ {"from-recording"} \in SUBSET SummaryFlags
    BY DEF SummaryFlags
  <2> QED BY <2>1, <2>2
<1>2. PICK by \in {"live", "overlay", "recording"}, overlay \in {"full", "partial"},
           flags \in SUBSET SummaryFlags :
         /\ \/ e = [Exchange("read", by, s) EXCEPT !.overlay = overlay] /\ flags = {}
            \/ e = [Exchange("read", by, s) EXCEPT !.overlay = overlay, !.flags = flags]
         /\ by = "live" => flags = {}
         /\ by = "recording" => flags = {"from-recording"}
         /\ flags \subseteq {"from-recording"}
         /\ flags = {"from-recording"} \/ s \in answeredWrites
  BY <1>1
<1>3. PICK r : r = Exchange("read", by, s)
  OBVIOUS
<1>4. /\ r \in EventShape /\ r.issued = "agent" /\ r.kind = "read" /\ r.by = by /\ r.service = s
      /\ r.flags = {}
  <2>1. /\ by \in {"live", "overlay", "delegated", "irimi", "recording", "fake-L2"}
        /\ s \in Services \cup {"telemetry"}
    OBVIOUS
  <2> QED BY ONLY <1>3, <2>1 DEF Exchange, EventShape, Outcomes, SummaryFlags
<1>5. /\ e \in EventShape /\ e.issued = "agent" /\ e.kind = "read" /\ e.by = by
      /\ e.flags = flags /\ e.service = s
  <2>1. CASE e = [r EXCEPT !.overlay = overlay] /\ flags = {}
    BY ONLY <1>4, <2>1, overlay \in {"full", "partial"} DEF EventShape
  <2>2. CASE e = [r EXCEPT !.overlay = overlay, !.flags = flags]
    BY ONLY <1>4, <2>2, flags \in SUBSET SummaryFlags, overlay \in {"full", "partial"} DEF EventShape
  <2> QED BY <1>2, <1>3, <2>1, <2>2
<1>6. Sound(e)
  BY <1>2, <1>5 DEF Sound, RefusedByIrimi, FailedTarget
<1>7. Recorded(e) \/ s \in answeredWrites
  BY <1>2, <1>5 DEF Recorded
<1> QED BY <1>5, <1>6, <1>7 DEF SoundEvents, IsAgentRead, IsAuthoredWrite, IsCheckRead

\* The other writes are sound.
LEMMA OthersSound ==
    ASSUME NEW s \in Services, NEW e \in OtherWrites(s)
    PROVE  /\ e \in SoundEvents /\ ~IsAgentRead(e) /\ e.service = s
           /\ IsAuthoredWrite(e) => IsSummaryWrite(e)
<1>1. \E by \in {"fake-L2", "delegated", "irimi"} : \E outcome \in Outcomes :
      \E flags \in SUBSET SummaryFlags :
         /\ e = [[Exchange("write", by, s) EXCEPT !.flags = flags, !.outcome = "passed"]
                     EXCEPT !.outcome = outcome]
         /\ by = "delegated" => flags = {}
         /\ by = "irimi" <=> flags \cap {"refused", "target-failed"} # {}
         /\ "decision-failed" \notin flags
  <2>1. PICK by \in {"fake-L2", "delegated", "irimi"}, flags \in SUBSET SummaryFlags, outcome \in Outcomes :
           /\ \/ outcome = "passed"
                 /\ e = [Exchange("write", by, s) EXCEPT !.flags = flags, !.outcome = "passed"]
              \/ e = [[Exchange("write", by, s) EXCEPT !.flags = flags, !.outcome = "passed"]
                          EXCEPT !.outcome = outcome]
           /\ by = "delegated" => flags = {}
           /\ by = "irimi" <=> flags \cap {"refused", "target-failed"} # {}
           /\ "decision-failed" \notin flags
    <3>1. {{}, {"idempotent-replay"}, {"from-recording"}, {"idempotency-conflict"},
           {"target-failed"}, {"refused"}} \subseteq SUBSET SummaryFlags
      BY DEF SummaryFlags
    <3>2. {"", "passed", "not_evaluable"} \subseteq Outcomes
      BY DEF Outcomes
    <3> DEFINE Marked(by, flags) == [Exchange("write", by, s) EXCEPT !.flags = flags, !.outcome = "passed"]
               Outcome(by, flags, outcome) == [Marked(by, flags) EXCEPT !.outcome = outcome]
    <3>3. e \in {Marked("fake-L2", {"idempotent-replay"}), Marked("fake-L2", {"from-recording"}),
                 Outcome("fake-L2", {"idempotency-conflict"}, ""),
                 Outcome("delegated", {}, "not_evaluable"),
                 Outcome("irimi", {"target-failed"}, ""), Outcome("irimi", {"refused"}, "")}
      BY DEF OtherWrites
    <3> SUFFICES \E by \in {"fake-L2", "delegated", "irimi"}, flags \in SUBSET SummaryFlags,
                    outcome \in Outcomes :
                    /\ \/ outcome = "passed" /\ e = Marked(by, flags)
                       \/ e = Outcome(by, flags, outcome)
                    /\ by = "delegated" => flags = {}
                    /\ by = "irimi" <=> flags \cap {"refused", "target-failed"} # {}
                    /\ "decision-failed" \notin flags
      OBVIOUS
    <3> HIDE DEF Marked, Outcome
    <3> QED BY <3>1, <3>2, <3>3
  <2>2. PICK r : r = [Exchange("write", by, s) EXCEPT !.flags = flags, !.outcome = "passed"]
    OBVIOUS
  <2>3. r = [r EXCEPT !.outcome = "passed"]
    BY <2>2 DEF Exchange
  <2> QED BY <2>1, <2>2, <2>3
<1>2. PICK by \in {"fake-L2", "delegated", "irimi"}, outcome \in Outcomes,
           flags \in SUBSET SummaryFlags :
         /\ e = [[Exchange("write", by, s) EXCEPT !.flags = flags, !.outcome = "passed"]
                     EXCEPT !.outcome = outcome]
         /\ by = "delegated" => flags = {}
         /\ by = "irimi" <=> flags \cap {"refused", "target-failed"} # {}
         /\ "decision-failed" \notin flags
  BY <1>1
<1>3. PICK r : r = Exchange("write", by, s)
  OBVIOUS
<1>4. r \in EventShape /\ r.issued = "agent" /\ r.kind = "write" /\ r.by = by /\ r.service = s
  <2>1. /\ by \in {"live", "overlay", "delegated", "irimi", "recording", "fake-L2"}
        /\ s \in Services \cup {"telemetry"}
    OBVIOUS
  <2> QED BY ONLY <1>3, <2>1 DEF Exchange, EventShape, Outcomes, SummaryFlags
<1>5. PICK u : u = [r EXCEPT !.flags = flags, !.outcome = "passed"]
  OBVIOUS
<1>6. /\ u \in EventShape /\ u.issued = "agent" /\ u.kind = "write" /\ u.by = by /\ u.service = s
      /\ u.flags = flags
  BY ONLY <1>4, <1>5, flags \in SUBSET SummaryFlags DEF EventShape, Outcomes
<1>7. e = [u EXCEPT !.outcome = outcome]
  BY <1>2, <1>3, <1>5
<1>8. /\ e \in EventShape /\ e.issued = "agent" /\ e.kind = "write" /\ e.by = by /\ e.service = s
      /\ e.flags = flags
  BY ONLY <1>6, <1>7, outcome \in Outcomes DEF EventShape
<1>9. Sound(e)
  BY <1>2, <1>8 DEF Sound, RefusedByIrimi, FailedTarget
<1>10. ~IsAgentRead(e)
  BY <1>8 DEF IsAgentRead
<1>11. IsAuthoredWrite(e) => IsSummaryWrite(e)
  BY <1>8 DEF IsAuthoredWrite, IsSummaryWrite
<1> QED BY <1>8, <1>9, <1>10, <1>11 DEF SoundEvents

\* Telemetry is sound.
LEMMA TelemetrySound ==
    LET e == Exchange("telemetry", "live", "telemetry") IN
    e \in SoundEvents /\ ~IsAgentRead(e) /\ ~IsAuthoredWrite(e)
<1>1. PICK e : e = Exchange("telemetry", "live", "telemetry")
  OBVIOUS
<1>2. e \in EventShape /\ e.issued = "agent" /\ e.kind = "telemetry" /\ e.by = "live" /\ e.flags = {}
  BY ONLY <1>1 DEF Exchange, EventShape, Outcomes, SummaryFlags
<1>3. Sound(e) /\ ~IsAgentRead(e) /\ ~IsAuthoredWrite(e)
  BY <1>2 DEF Sound, IsAgentRead, IsAuthoredWrite
<1> QED BY <1>1, <1>2, <1>3 DEF SoundEvents


-----------------------------------------------------------------------------
(* The steps. *)

\* Where the entries of two sequences are in the joined one.
LEMMA Joined ==
    ASSUME NEW S, NEW s \in Seq(S), NEW t \in Seq(S), NEW n, n = Len(s), NEW m, m = Len(t)
    PROVE  /\ s \o t \in Seq(S) /\ n \in Nat /\ m \in Nat
           /\ DOMAIN s = 1..n /\ DOMAIN t = 1..m /\ DOMAIN (s \o t) = 1..n + m
           /\ \A i \in 1..n : i \in 1..n + m /\ (s \o t)[i] = s[i]
           /\ \A i \in 1..m : n + i \in 1..n + m /\ (s \o t)[n + i] = t[i]
           /\ \A i \in 1..n + m : i \notin 1..n => \E j \in 1..m : i = n + j
<1>1. /\ s \o t \in Seq(S) /\ Len(s \o t) = n + m
      /\ \A i \in 1..n + m : (s \o t)[i] = IF i <= n THEN s[i] ELSE t[i - n]
  BY ConcatProperties
<1>2. n \in Nat /\ m \in Nat /\ DOMAIN s = 1..n /\ DOMAIN t = 1..m
  OBVIOUS
<1>3. DOMAIN (s \o t) = 1..n + m
  BY <1>1
<1>4. PICK u : u = s \o t
  OBVIOUS
<1>5. \A i \in 1..n + m : u[i] = IF i <= n THEN s[i] ELSE t[i - n]
  BY <1>1, <1>4
<1>6. \A i \in 1..n : i \in 1..n + m /\ u[i] = s[i]
  BY ONLY <1>2, <1>5
<1>7. \A i \in 1..m : n + i \in 1..n + m /\ u[n + i] = t[i]
  <2> TAKE i \in 1..m
  <2>1. n + i \in 1..n + m /\ ~(n + i <= n) /\ (n + i) - n = i
    BY ONLY <1>2, i \in 1..m
  <2> QED BY ONLY <1>5, <2>1
<1>8. \A i \in 1..n + m : i \notin 1..n => \E j \in 1..m : i = n + j
  <2> SUFFICES ASSUME NEW i \in 1..n + m, i \notin 1..n PROVE \E j \in 1..m : i = n + j
    OBVIOUS
  <2>1. i - n \in 1..m /\ i = n + (i - n)
    BY ONLY <1>2, i \in 1..n + m, i \notin 1..n
  <2> QED BY ONLY <2>1
<1> QED BY ONLY <1>1, <1>2, <1>3, <1>4, <1>6, <1>7, <1>8

\* What a step adds to the events keeps the invariant, when a read it adds that
\* shows writes is from a recording or of a service in the write log, and what it adds to the log it
\* adds to the events too.
LEMMA EventsGrow ==
    ASSUME SummaryInv, flow' \in [Flows -> FlowShape], now' \in Nat,
           NEW new \in Seq(SoundEvents), events' = events \o new,
           \A i \in DOMAIN new : IsAgentRead(new[i]) =>
               Shown(new[i]) = "" \/ Recorded(new[i]) \/ new[i].service \in answeredWrites,
           \A s \in answeredWrites' :
               s \in answeredWrites \/ \E i \in DOMAIN new : Authored(new[i], s)
    PROVE  SummaryInv'
<1> DEFINE n == Len(events)
<1>1. events \in Seq(SoundEvents)
  BY DEF SummaryInv, SummaryType
<1> DEFINE m == Len(new)
<1>2. /\ events' \in Seq(SoundEvents) /\ n \in Nat /\ m \in Nat
      /\ DOMAIN events = 1..n /\ DOMAIN new = 1..m /\ DOMAIN events' = 1..n + m
      /\ \A i \in 1..n : i \in 1..n + m /\ events'[i] = events[i]
      /\ \A i \in 1..m : n + i \in 1..n + m /\ events'[n + i] = new[i]
      /\ \A i \in 1..n + m : i \notin 1..n => \E j \in 1..m : i = n + j
  BY ONLY <1>1, new \in Seq(SoundEvents), events' = events \o new, Joined
<1> HIDE DEF n, m
<1>3. SummaryType'
  BY <1>2 DEF SummaryType
<1>4. AuthoredInv'
  <2> SUFFICES ASSUME NEW s \in answeredWrites'
               PROVE  \E w \in DOMAIN events' : Authored(events'[w], s)
    BY DEF AuthoredInv
  <2>1. CASE s \in answeredWrites
    <3>1. PICK w \in DOMAIN events : Authored(events[w], s)
      BY <2>1 DEF SummaryInv, AuthoredInv
    <3>2. w \in DOMAIN events' /\ events'[w] = events[w]
      BY ONLY <1>2, <3>1
    <3> QED BY <3>1, <3>2
  <2>2. CASE \E i \in DOMAIN new : Authored(new[i], s)
    <3>1. PICK i \in DOMAIN new : Authored(new[i], s)
      BY <2>2
    <3>2. n + i \in DOMAIN events' /\ events'[n + i] = new[i]
      BY ONLY <1>2, <3>1
    <3> QED BY <3>1, <3>2
  <2> QED BY <2>1, <2>2
<1>5. ShownInv'
  <2> SUFFICES ASSUME NEW r \in DOMAIN events', IsAgentRead(events'[r]), Shown(events'[r]) # "",
                      ~Recorded(events'[r])
               PROVE  \E w \in 1..r - 1 : Authored(events'[w], events'[r].service)
    BY DEF ShownInv
  <2>1. CASE r \in 1..n
    <3>1. r \in DOMAIN events /\ events'[r] = events[r]
      BY <1>2, <2>1
    <3>2. PICK w \in 1..r - 1 : Authored(events[w], events[r].service)
      BY <3>1 DEF SummaryInv, ShownInv
    <3>3. w \in 1..n /\ events'[w] = events[w]
      BY ONLY <1>2, <2>1, <3>2
    <3> QED BY <3>1, <3>2, <3>3
  <2>2. CASE r \notin 1..n
    <3>1. PICK i \in 1..m : r = n + i
      BY <1>2, <2>2
    <3>2. events'[r] = new[i]
      BY <1>2, <3>1
    <3>3. new[i].service \in answeredWrites
      BY <1>2, <3>2
    <3>4. PICK w \in DOMAIN events : Authored(events[w], new[i].service)
      BY <3>3 DEF SummaryInv, AuthoredInv
    <3>5. w \in 1..r - 1 /\ events'[w] = events[w]
      BY ONLY <1>2, <3>1, <3>4
    <3> QED BY <3>2, <3>4, <3>5
  <2> QED BY <2>1, <2>2
<1> QED BY <1>3, <1>4, <1>5 DEF SummaryInv

\* A step that adds one event.
LEMMA EventRecorded ==
    ASSUME SummaryInv, flow' \in [Flows -> FlowShape], now' \in Nat,
           NEW e \in SoundEvents, events' = Append(events, e),
           IsAgentRead(e) => Shown(e) = "" \/ Recorded(e) \/ e.service \in answeredWrites,
           IsAuthoredWrite(e) => IsSummaryWrite(e),
           \/ answeredWrites' = answeredWrites
           \/ answeredWrites' = answeredWrites \cup (IF IsAuthoredWrite(e) THEN {e.service} ELSE {})
    PROVE  SummaryInv'
<1>1. events \in Seq(SoundEvents)
  BY DEF SummaryInv, SummaryType
<1>2. PICK new : new = <<e>>
  OBVIOUS
<1>3. new \in Seq(SoundEvents) /\ DOMAIN new = {1} /\ new[1] = e
  BY ONLY <1>2, e \in SoundEvents
<1>4. events' = events \o new
  BY <1>1, <1>2, AppendIsConcat
<1>5. \A s \in answeredWrites' : s \in answeredWrites \/ \E i \in DOMAIN new : Authored(new[i], s)
  BY <1>3 DEF Authored
<1>6. \A i \in DOMAIN new : IsAgentRead(new[i]) =>
          Shown(new[i]) = "" \/ Recorded(new[i]) \/ new[i].service \in answeredWrites
  BY <1>3
<1> QED BY ONLY SummaryInv, flow' \in [Flows -> FlowShape], now' \in Nat,
              <1>3, <1>4, <1>5, <1>6, EventsGrow


\* A step that leaves the events as they are.
LEMMA EventsKept ==
    ASSUME SummaryInv, UNCHANGED <<events, answeredWrites>>,
           flow' \in [Flows -> FlowShape], now' \in Nat
    PROVE  SummaryInv'
<1>1. SummaryType'
  BY DEF SummaryInv, SummaryType
<1>2. AuthoredInv' /\ ShownInv'
  BY DEF SummaryInv, AuthoredInv, ShownInv
<1> QED BY <1>1, <1>2 DEF SummaryInv

\* Every step of a run whose summary is made keeps the invariant.
LEMMA SummaryStep ==
    ASSUME SummaryInv, SummaryNext
    PROVE  SummaryInv'
<1>1. flow \in [Flows -> FlowShape] /\ now \in Nat /\ events \in Seq(SoundEvents)
  BY DEF SummaryInv, SummaryType
<1>2. ASSUME NEW f \in Flows, NEW g \in FlowShape, flow' = [flow EXCEPT ![f] = g]
      PROVE  flow' \in [Flows -> FlowShape]
  BY <1>1, <1>2
<1>3. CASE Tick \/ SetBack
  <2>1. flow' \in [Flows -> FlowShape] /\ now' \in Nat /\ UNCHANGED <<events, answeredWrites>>
    BY <1>1, <1>3 DEF Tick, SetBack
  <2> QED BY <2>1, EventsKept
<1>4. ASSUME NEW f \in Flows, Begin(f)
      PROVE  SummaryInv'
  <2>1. PICK o \in Objects : Moved(f, [NotBegun EXCEPT !.pc = "deciding", !.object = o, !.from = now])
    BY <1>4 DEF Begin
  <2>2. [NotBegun EXCEPT !.pc = "deciding", !.object = o, !.from = now] \in FlowShape
    <3>1. NotBegun \in FlowShape
      BY DEF NotBegun, FlowShape, Outcomes
    <3> QED BY <1>1, <3>1 DEF FlowShape
  <2>3. flow' \in [Flows -> FlowShape]
    BY <1>2, <2>1, <2>2 DEF Moved
  <2>4. now' \in Nat /\ UNCHANGED <<events, answeredWrites>>
    BY <1>1, <1>4 DEF Begin
  <2> QED BY <2>3, <2>4, EventsKept
<1>5. ASSUME NEW f \in Flows, Ask(f)
      PROVE  SummaryInv'
  <2>1. Moved(f, [flow[f] EXCEPT !.pc = "asked", !.asked = now, !.made = TRUE])
    BY <1>5 DEF Ask
  <2>2. [flow[f] EXCEPT !.pc = "asked", !.asked = now, !.made = TRUE] \in FlowShape
    BY <1>1 DEF FlowShape
  <2>3. flow' \in [Flows -> FlowShape]
    BY <1>2, <2>1, <2>2 DEF Moved
  <2>4. now' \in Nat /\ UNCHANGED <<events, answeredWrites>>
    BY <1>1, <1>5 DEF Ask
  <2> QED BY <2>3, <2>4, EventsKept
<1>6. ASSUME NEW f \in Flows, DecideUnasked(f)
      PROVE  SummaryInv'
  <2>1. PICK outcome \in {"", "not_evaluable"} :
            Moved(f, [flow[f] EXCEPT !.pc = "decided", !.outcome = outcome])
    BY <1>6 DEF DecideUnasked
  <2>2. [flow[f] EXCEPT !.pc = "decided", !.outcome = outcome] \in FlowShape
    BY <1>1 DEF FlowShape, Outcomes
  <2>3. flow' \in [Flows -> FlowShape]
    BY <1>2, <2>1, <2>2 DEF Moved
  <2>4. now' \in Nat /\ UNCHANGED <<events, answeredWrites>>
    BY <1>1, <1>6 DEF DecideUnasked
  <2> QED BY <2>3, <2>4, EventsKept
<1>7. ASSUME NEW f \in Flows, Decide(f)
      PROVE  SummaryInv'
  <2>1. PICK outcome \in {"passed", "rejected", "not_evaluable"} :
            Moved(f, [flow[f] EXCEPT !.pc = "decided", !.outcome = outcome])
    BY <1>7 DEF Decide
  <2>2. [flow[f] EXCEPT !.pc = "decided", !.outcome = outcome] \in FlowShape
    BY <1>1 DEF FlowShape, Outcomes
  <2>3. flow' \in [Flows -> FlowShape]
    BY <1>2, <2>1, <2>2 DEF Moved
  <2>4. now' \in Nat /\ events' = Append(events, CheckOf(f)) /\ answeredWrites' = answeredWrites
    BY <1>1, <1>7 DEF Decide
  <2>5. PICK e : e = CheckOf(f)
    OBVIOUS
  <2>6. e \in SoundEvents /\ ~IsAgentRead(e) /\ ~IsAuthoredWrite(e)
    <3>1. e \in SoundEvents /\ ~IsAgentRead(e)
      BY <2>5, FlowEventsSound DEF SummaryInv
    <3>2. e.by = "live"
      BY <2>5 DEF CheckOf, Exchange
    <3> QED BY <3>1, <3>2 DEF IsAuthoredWrite
  <2> QED BY ONLY SummaryInv, <2>3, <2>4, <2>5, <2>6, EventRecorded
<1>8. ASSUME NEW f \in Flows, Finish(f)
      PROVE  SummaryInv'
  <2>1. Moved(f, [flow[f] EXCEPT !.pc = "done"])
    BY <1>8 DEF Finish
  <2>2. [flow[f] EXCEPT !.pc = "done"] \in FlowShape
    BY <1>1 DEF FlowShape
  <2>3. flow' \in [Flows -> FlowShape]
    BY <1>2, <2>1, <2>2 DEF Moved
  <2>4. PICK e : e = WriteOf(f)
    OBVIOUS
  <2>5. e \in SoundEvents /\ ~IsAgentRead(e) /\ IsSummaryWrite(e) /\ e.service = Asks
    BY <2>4, FlowEventsSound DEF SummaryInv
  <2>6. /\ now' \in Nat /\ events' = Append(events, e)
        /\ answeredWrites' = answeredWrites \cup (IF IsAuthoredWrite(e) THEN {e.service} ELSE {})
    BY <1>1, <1>8, <2>4, <2>5 DEF Finish
  <2> QED BY ONLY SummaryInv, <2>3, <2>5, <2>6, EventRecorded
<1>9. ASSUME NEW f \in Flows, PutFails(f)
      PROVE  SummaryInv'
  <2>1. Moved(f, [flow[f] EXCEPT !.pc = "done"])
    BY <1>9 DEF PutFails
  <2>2. [flow[f] EXCEPT !.pc = "done"] \in FlowShape
    BY <1>1 DEF FlowShape
  <2>3. flow' \in [Flows -> FlowShape]
    BY <1>2, <2>1, <2>2 DEF Moved
  <2>4. PICK e : e = [WriteOf(f) EXCEPT !.by = "irimi", !.flags = {"decision-failed"}]
    OBVIOUS
  <2>5. PICK c : c = CheckOf(f)
    OBVIOUS
  <2>6. e \in SoundEvents /\ c \in SoundEvents /\ ~IsAgentRead(e) /\ ~IsAgentRead(c)
    BY <2>4, <2>5, FlowEventsSound DEF SummaryInv
  <2>7. PICK new : new = <<e, c>>
    OBVIOUS
  <2>8. new \in Seq(SoundEvents) /\ \A i \in DOMAIN new : ~IsAgentRead(new[i])
    <3>1. new \in Seq(SoundEvents) /\ DOMAIN new = 1..2 /\ new[1] = e /\ new[2] = c
      BY ONLY <2>6, <2>7
    <3> QED BY <2>6, <3>1
  <2>9. now' \in Nat /\ events' = events \o new /\ answeredWrites' = answeredWrites
    BY <1>1, <1>9, <2>4, <2>5, <2>7 DEF PutFails
  <2> QED BY ONLY SummaryInv, <2>3, <2>8, <2>9, EventsGrow
<1>10. ASSUME NEW e, Record(e), e \in SoundEvents,
              IsAgentRead(e) => Shown(e) = "" \/ Recorded(e) \/ e.service \in answeredWrites,
              IsAuthoredWrite(e) => IsSummaryWrite(e)
       PROVE  SummaryInv'
  <2>1. /\ now' \in Nat /\ flow' \in [Flows -> FlowShape] /\ events' = Append(events, e)
        /\ answeredWrites' = answeredWrites \cup (IF IsAuthoredWrite(e) THEN {e.service} ELSE {})
    BY <1>1, <1>10 DEF Record
  <2> QED BY ONLY SummaryInv, <1>10, <2>1, EventRecorded
<1>11. ASSUME NEW s \in Services,
              NEW e \in Reads(s) \cup ReadsOverlaid(s) \cup ReadsReplayed(s)
                           \cup OtherWrites(s) \cup Llms(s),
              Record(e)
       PROVE  SummaryInv'
  <2>1. CASE e \in Reads(s) \cup Llms(s)
    BY <1>10, <1>11, <2>1, ReadsSound
  <2>2. CASE e \in ReadsOverlaid(s) \cup ReadsReplayed(s)
    BY <1>10, <1>11, <2>2, OverlaidSound
  <2>3. CASE e \in OtherWrites(s)
    BY <1>10, <1>11, <2>3, OthersSound
  <2> QED BY <2>1, <2>2, <2>3
<1>12. CASE Record(Exchange("telemetry", "live", "telemetry"))
  BY <1>10, <1>12, TelemetrySound
<1> QED BY <1>3, <1>4, <1>5, <1>6, <1>7, <1>8, <1>9, <1>11, <1>12 DEF SummaryNext

\* The summary's events are sound, what is in the write log was recorded, and a
\* read overlaid in this run is recorded after a write of its service that it can
\* have shown; a read answered from a recording need not be (build,
\* is_authored_write, tool_answer_for).
THEOREM SummaryInvariant == ReplaysSpec => []SummaryInv
<1>1. ReplaysInit => SummaryInv
  <2> SUFFICES ASSUME ReplaysInit PROVE SummaryInv
    OBVIOUS
  <2>1. /\ events = <<>> /\ flow = [f \in Flows |-> NotBegun] /\ now = 0 /\ answeredWrites = {}
    BY DEF ReplaysInit, SummaryInit
  <2>2. NotBegun \in FlowShape
    BY DEF NotBegun, FlowShape, Outcomes
  <2>3. SummaryType
    BY <2>1, <2>2 DEF SummaryType
  <2>4. AuthoredInv /\ ShownInv
    BY <2>1 DEF AuthoredInv, ShownInv
  <2> QED BY <2>3, <2>4 DEF SummaryInv
<1>2. SummaryInv /\ [ReplaysNext]_<<part, vars, summaryVars, compareVars>> => SummaryInv'
  <2> SUFFICES ASSUME SummaryInv, [ReplaysNext]_<<part, vars, summaryVars, compareVars>>
               PROVE  SummaryInv'
    OBVIOUS
  <2>1. CASE SummaryNext
    BY <2>1, SummaryStep
  <2>2. CASE UNCHANGED summaryVars
    <3>1. flow' \in [Flows -> FlowShape] /\ now' \in Nat /\ UNCHANGED <<events, answeredWrites>>
      BY <2>2 DEF summaryVars, SummaryInv, SummaryType
    <3> QED BY <3>1, EventsKept
  <2> QED BY <2>1, <2>2 DEF ReplaysNext
<1> QED BY <1>1, <1>2, PTL DEF ReplaysSpec

\* The closing totals and the hosts' lines of a summary agree, but for the llm
\* calls irimi refused and the answers that broke off, whatever a run recorded
\* and in whatever order (answered, _host_counts).
THEOREM TotalsAreTold == ReplaysSpec => []TotalsAgree
<1>1. SummaryInv => TotalsAgree
  BY TotalsOfSound DEF SummaryInv, SummaryType
<1> QED BY <1>1, SummaryInvariant, PTL


-----------------------------------------------------------------------------
(* The reads that show writes. *)

\* A bounded set of numbers that is not empty has a greatest one.
LEMMA GreatestExists ==
    ASSUME NEW S, S \subseteq Nat, S # {}, NEW n \in Nat, \A i \in S : i <= n
    PROVE  \E e \in S : \A j \in S : j <= e
<1> DEFINE Bounds == {k \in Nat : \A j \in S : j <= k}
<1>1. Bounds \subseteq Nat /\ Bounds # {}
  OBVIOUS
<1>2. PICK e \in Bounds : \A k \in Bounds : ~ (<<k, e>> \in OpToRel(<, Nat))
  BY <1>1, NatLessThanWellFounded, WFMin
<1>3. ASSUME NEW k \in Bounds, k < e PROVE FALSE
  <2>1. <<k, e>> \in OpToRel(<, Nat)
    BY <1>3 DEF OpToRel
  <2> QED BY <1>2, <2>1
<1>4. e \in S
  <2> SUFFICES ASSUME e \notin S PROVE FALSE
    OBVIOUS
  <2>1. e \in Nat /\ \A j \in S : j \in Nat /\ j <= e /\ j # e
    OBVIOUS
  <2>2. PICK j \in S : j \in Nat /\ j <= e /\ j # e
    BY <2>1
  <2>3. e - 1 \in Nat /\ e - 1 < e
    BY <2>1, <2>2
  <2>4. \A m \in Nat : m <= e /\ m # e => m <= e - 1
    BY <2>1
  <2>5. \A m \in S : m <= e - 1
    BY <2>1, <2>4
  <2> QED BY <1>3, <2>3, <2>5
<1> QED BY <1>4

\* A read that shows writes is filed under the latest write it can have shown, and
\* under none when it is from a recording and there is none.
LEMMA ReadsFiled ==
    ASSUME SummaryInv
    PROVE  ShownReadsFiled
<1>1. Len(events) \in Nat /\ DOMAIN events = 1..Len(events)
      /\ \A i \in DOMAIN events : events[i] \in EventShape /\ Sound(events[i])
  <2>1. events \in Seq(SoundEvents)
    BY DEF SummaryInv, SummaryType
  <2> QED BY <2>1, ElementOfSeq DEF SoundEvents
<1> SUFFICES ASSUME NEW r \in Positions(IsAgentRead), Shown(events[r]) # ""
             PROVE  \/ \E w \in {v \in Actions : FakedBefore(v, r)} :
                           {p \in ReadsUnder : p[1] = r} = {<<r, w>>}
                    \/ /\ {p \in ReadsUnder : p[1] = r} = {}
                       /\ {w \in Actions : FakedBefore(w, r)} = {}
                       /\ Recorded(events[r])
  BY DEF ShownReadsFiled
<1>2. r \in DOMAIN events /\ IsAgentRead(events[r])
  BY DEF Positions
<1>3. Actions = {i \in DOMAIN events : IsSummaryWrite(events[i])}
  BY DEF Actions, Positions
<1>4. PICK W : W = EarlierWrites(r)
  OBVIOUS
<1>5. W = {w \in Actions : w < r /\ IsAuthoredWrite(events[w])
                           /\ events[w].service = events[r].service}
  BY <1>4 DEF EarlierWrites
<1>e. W = {w \in Actions : FakedBefore(w, r)}
  <2>1. ASSUME NEW w \in Actions
        PROVE  IsAuthoredWrite(events[w]) <=>
                   /\ WriteStatus(events[w]) = "faked" /\ events[w].outcome # "rejected"
                   /\ "idempotency-conflict" \notin events[w].flags
    <3>1. PICK e : e = events[w]
      OBVIOUS
    <3>2. e \in EventShape /\ Sound(e) /\ IsSummaryWrite(e)
      BY <1>1, <1>3, <3>1
    <3>3. e.by \in {"live", "overlay", "delegated", "irimi", "recording", "fake-L2"}
      BY <3>2 DEF EventShape
    <3>4. WriteStatus(e) = "faked" => ~RefusedByIrimi(e) /\ ~FailedTarget(e) /\ e.by # "delegated"
      BY DEF WriteStatus
    <3>5. WriteStatus(e) = "faked" <=> ~RefusedByIrimi(e) /\ ~FailedTarget(e) /\ e.by # "delegated"
      <4>1. ~RefusedByIrimi(e) /\ ~FailedTarget(e) /\ e.by # "delegated" => WriteStatus(e) = "faked"
        BY DEF WriteStatus
      <4> QED BY <3>4, <4>1
    <3>6. IsAuthoredWrite(e) => WriteStatus(e) = "faked" /\ e.outcome # "rejected"
                                /\ "idempotency-conflict" \notin e.flags
      <4> SUFFICES ASSUME IsAuthoredWrite(e)
                   PROVE  WriteStatus(e) = "faked" /\ e.outcome # "rejected"
                          /\ "idempotency-conflict" \notin e.flags
        OBVIOUS
      <4>1. e.by \notin {"live", "delegated", "irimi"} /\ e.outcome # "rejected"
            /\ "idempotency-conflict" \notin e.flags
        BY DEF IsAuthoredWrite
      <4>2. ~RefusedByIrimi(e) /\ ~FailedTarget(e)
        BY <3>2, <4>1 DEF Sound, RefusedByIrimi, FailedTarget
      <4> QED BY <3>5, <4>1, <4>2
    <3>7. WriteStatus(e) = "faked" /\ e.outcome # "rejected"
          /\ "idempotency-conflict" \notin e.flags => IsAuthoredWrite(e)
      <4> SUFFICES ASSUME WriteStatus(e) = "faked", e.outcome # "rejected",
                          "idempotency-conflict" \notin e.flags
                   PROVE  IsAuthoredWrite(e)
        OBVIOUS
      <4>1. e.kind \in {"write", "unknown"} /\ e.by # "live" /\ "idempotent-replay" \notin e.flags
        BY <3>2 DEF IsSummaryWrite
      <4>2. e.by \notin {"delegated", "irimi"}
        BY <3>2, <3>5 DEF Sound
      <4>3. "decision-failed" \notin e.flags
        BY <3>5 DEF RefusedByIrimi
      <4> QED BY <4>1, <4>2, <4>3 DEF IsAuthoredWrite
    <3> QED BY <3>1, <3>6, <3>7
  <2> QED BY <1>5, <2>1 DEF FakedBefore
<1>n. CASE W = {}
  <2>1. {p \in ReadsUnder : p[1] = r} = {}
    BY <1>4, <1>n DEF ReadsUnder
  <2>2. Recorded(events[r])
    <3> SUFFICES ASSUME ~Recorded(events[r]) PROVE FALSE
      OBVIOUS
    <3>1. PICK w \in 1..r - 1 : Authored(events[w], events[r].service)
      BY <1>2 DEF SummaryInv, ShownInv
    <3>2. w \in DOMAIN events /\ w < r
      BY ONLY <1>1, <1>2, w \in 1..r - 1
    <3> QED BY <1>3, <1>5, <1>n, <3>1, <3>2 DEF Authored
  <2> QED BY <1>e, <1>n, <2>1, <2>2
<1> SUFFICES ASSUME W # {}
             PROVE  \E w \in {v \in Actions : FakedBefore(v, r)} :
                        {p \in ReadsUnder : p[1] = r} = {<<r, w>>}
  BY <1>n
<1>7. W \subseteq Nat /\ \A w \in W : w <= Len(events)
  <2>1. W \subseteq 1..Len(events)
    BY <1>1, <1>3, <1>5
  <2> QED BY ONLY <2>1, <1>1
<1>8. PICK w \in W : \A v \in W : v <= w
  BY <1>1, <1>7, GreatestExists
<1>9. {p \in ReadsUnder : p[1] = r} = {<<r, w>>}
  <2>1. ASSUME NEW p \in ReadsUnder, p[1] = r
        PROVE  p = <<r, w>>
    <3>1. p \in Positions(IsAgentRead) \X Actions /\ p[2] \in W /\ \A v \in W : v <= p[2]
      BY <1>4, <2>1 DEF ReadsUnder
    <3>2. p[2] \in Nat /\ w \in Nat /\ p[2] <= w /\ w <= p[2]
      BY <1>7, <1>8, <3>1
    <3>3. p[2] = w
      BY ONLY <3>2
    <3>4. p = <<p[1], p[2]>>
      BY ONLY <3>1
    <3> QED BY ONLY <2>1, <3>3, <3>4
  <2>2. <<r, w>> \in ReadsUnder
    <3>1. w \in Actions
      BY <1>5
    <3> QED BY <1>4, <1>8, <3>1 DEF ReadsUnder
  <2> QED BY ONLY <2>1, <2>2
<1> QED BY <1>8, <1>9, <1>e

\* A read whose answer shows writes is printed under exactly one, a write that
\* irimi faked and answered before it, of the read's own service; only one
\* answered from a recording, with no such write before it, is printed under
\* none (build, is_authored_write, complete, tool_answer_for).
THEOREM ShownReadsAreFiled == ReplaysSpec => []ShownReadsFiled
<1>1. SummaryInv => ShownReadsFiled
  BY ReadsFiled
<1> QED BY <1>1, SummaryInvariant, PTL


-----------------------------------------------------------------------------
(* The check reads and the writes that say they were checked: what is known  *)
(* of each from the flow that made it.                                       *)

Checking(ev) == {i \in 1..Len(ev) : IsCheckRead(ev[i])}
Claiming(ev) == {i \in 1..Len(ev) : Asked(ev[i])}

CheckOfFlow(e, x) ==
    /\ e.service = Asks /\ e.object = x.object /\ e.from = x.asked
    /\ x.pc \in {"decided", "done"} /\ x.made

WriteOfFlow(e, x) ==
    e.service = Asks /\ e.object = x.object /\ e.from = x.from /\ x.pc = "done"

Known(ev, fl) ==
    /\ \A c \in Checking(ev) : ev[c].flow \in Flows /\ CheckOfFlow(ev[c], fl[ev[c].flow])
    /\ \A w \in Claiming(ev) : ev[w].flow \in Flows /\ WriteOfFlow(ev[w], fl[ev[w].flow])

\* A flow has one of each.
Once(ev) ==
    /\ \A c, d \in Checking(ev) : ev[c].flow = ev[d].flow => c = d
    /\ \A w, v \in Claiming(ev) : ev[w].flow = ev[v].flow => w = v

\* The check read that a flow made is recorded, and before its write.
CheckFirst(ev, fl) ==
    /\ \A f \in Flows :
           /\ fl[f].pc = "asked" => fl[f].made
           /\ fl[f].pc \in {"new", "deciding"} => ~fl[f].made
           /\ fl[f].pc = "decided" /\ fl[f].made => \E c \in Checking(ev) : ev[c].flow = f
    /\ \A w \in Claiming(ev) :
           fl[ev[w].flow].made => \E c \in Checking(ev) : c < w /\ ev[c].flow = ev[w].flow

\* On a clock that goes on, a check read is made during its write, and none that is
\* recorded before a write was made after it.
Timed(ev, fl, time) ==
    /\ \A f \in Flows :
           /\ fl[f].from <= time
           /\ fl[f].made => fl[f].from <= fl[f].asked /\ fl[f].asked <= time
    /\ \A c \in Checking(ev), w \in Claiming(ev) : c < w => ev[c].from <= ev[w].to

OfFlows(ev, fl, time, back) ==
    Known(ev, fl) /\ Once(ev) /\ CheckFirst(ev, fl) /\ (~back => Timed(ev, fl, time))

\* With one exchange more.
Grown(ev, e, more, n) ==
    /\ n \in Nat
    /\ more[n + 1] = e /\ \A i \in 1..n : more[i] = ev[i]
    /\ Checking(ev) \subseteq 1..n /\ Claiming(ev) \subseteq 1..n
    /\ Checking(more) = Checking(ev) \cup {i \in {n + 1} : IsCheckRead(e)}
    /\ Claiming(more) = Claiming(ev) \cup {i \in {n + 1} : Asked(e)}

\* What one exchange more does to the check reads and the writes.
LEMMA Added ==
    ASSUME NEW S, NEW ev \in Seq(S), NEW e \in S
    PROVE  Append(ev, e) \in Seq(S) /\ Grown(ev, e, Append(ev, e), Len(ev))
<1> PICK more, n : more = Append(ev, e) /\ n = Len(ev)
  OBVIOUS
<1>1. /\ more \in Seq(S) /\ n \in Nat /\ Len(more) = n + 1
      /\ more[n + 1] = e /\ \A i \in 1..n : more[i] = ev[i]
  BY ONLY ev \in Seq(S), e \in S, more = Append(ev, e), n = Len(ev)
<1>2. 1..n + 1 = (1..n) \cup {n + 1}
  BY <1>1
<1>3. \A i \in 1..n + 1 : i \in 1..n \/ i = n + 1
  BY <1>2
<1>4. Checking(more) = Checking(ev) \cup {i \in {n + 1} : IsCheckRead(e)}
  BY ONLY <1>1, <1>2, n = Len(ev), Zenon DEF Checking
<1>5. Claiming(more) = Claiming(ev) \cup {i \in {n + 1} : Asked(e)}
  BY ONLY <1>1, <1>2, n = Len(ev), Zenon DEF Claiming
<1>6. Checking(ev) \subseteq 1..n /\ Claiming(ev) \subseteq 1..n
  BY ONLY n = Len(ev) DEF Checking, Claiming
<1>7. more \in Seq(S) /\ Grown(ev, e, more, n)
  BY ONLY <1>1, <1>4, <1>5, <1>6 DEF Grown
<1> QED BY <1>7

\* An exchange that is neither.
LEMMA OtherAdded ==
    ASSUME NEW S, NEW ev \in Seq(S), NEW e \in S, ~IsCheckRead(e), ~Asked(e),
           NEW fl, NEW time, NEW back, OfFlows(ev, fl, time, back)
    PROVE  OfFlows(Append(ev, e), fl, time, back)
<1> PICK more : more = Append(ev, e)
  OBVIOUS
<1>1. PICK n : n = Len(ev)
  OBVIOUS
<1>2. /\ \A i \in 1..n : more[i] = ev[i]
      /\ Checking(ev) \subseteq 1..n /\ Claiming(ev) \subseteq 1..n
      /\ Checking(more) = Checking(ev) \cup {i \in {n + 1} : IsCheckRead(e)}
      /\ Claiming(more) = Claiming(ev) \cup {i \in {n + 1} : Asked(e)}
  <2>1. Grown(ev, e, Append(ev, e), Len(ev))
    BY Added, Zenon
  <2> QED BY ONLY <1>1, <2>1, more = Append(ev, e) DEF Grown
<1>3. Checking(more) = Checking(ev) /\ Claiming(more) = Claiming(ev)
  BY ONLY <1>2, ~IsCheckRead(e), ~Asked(e)
<1>4. /\ \A c \in Checking(more) : more[c] = ev[c]
      /\ \A w \in Claiming(more) : more[w] = ev[w]
  BY ONLY <1>2, <1>3
<1>5. Known(more, fl)
  BY ONLY <1>3, <1>4, OfFlows(ev, fl, time, back), Zenon DEF OfFlows, Known
<1>6. Once(more)
  BY ONLY <1>3, <1>4, OfFlows(ev, fl, time, back), Zenon DEF OfFlows, Once
<1>7. CheckFirst(more, fl)
  BY ONLY <1>3, <1>4, OfFlows(ev, fl, time, back) DEF OfFlows, CheckFirst
<1>8. Timed(ev, fl, time) => Timed(more, fl, time)
  BY ONLY <1>3, <1>4, Zenon DEF Timed
<1> QED BY ONLY <1>5, <1>6, <1>7, <1>8, more = Append(ev, e), OfFlows(ev, fl, time, back) DEF OfFlows

\* A flow at which nothing has been recorded goes on.
LEMMA FlowGoesOn ==
    ASSUME NEW ev, NEW fl, NEW time, NEW back, OfFlows(ev, fl, time, back),
           DOMAIN fl = Flows, NEW f \in Flows, NEW x, NEW gl, gl = [fl EXCEPT ![f] = x],
           fl[f].pc \notin {"decided", "done"},
           x.pc = "asked" => x.made,
           x.pc \in {"new", "deciding", "decided"} => ~x.made,
           Timed(ev, fl, time) => x.from <= time /\ (x.made => x.from <= x.asked /\ x.asked <= time)
    PROVE  OfFlows(ev, gl, time, back)
<1>1. gl[f] = x /\ \A g \in Flows : g # f => gl[g] = fl[g]
  BY ONLY DOMAIN fl = Flows, f \in Flows, gl = [fl EXCEPT ![f] = x]
<1>2. /\ Known(ev, fl) /\ Once(ev) /\ CheckFirst(ev, fl) /\ (~back => Timed(ev, fl, time))
  BY DEF OfFlows
<1>3. /\ \A c \in Checking(ev) : ev[c].flow \in Flows /\ ev[c].flow # f
      /\ \A w \in Claiming(ev) : ev[w].flow \in Flows /\ ev[w].flow # f
  BY ONLY <1>2, fl[f].pc \notin {"decided", "done"} DEF Known, CheckOfFlow, WriteOfFlow
<1>4. /\ \A c \in Checking(ev) : gl[ev[c].flow] = fl[ev[c].flow]
      /\ \A w \in Claiming(ev) : gl[ev[w].flow] = fl[ev[w].flow]
  BY ONLY <1>1, <1>3, Zenon
<1>5. Known(ev, gl)
  BY ONLY <1>2, <1>4, Zenon DEF Known
<1>6. CheckFirst(ev, gl)
  <2>1. ASSUME NEW g \in Flows
        PROVE  /\ gl[g].pc = "asked" => gl[g].made
               /\ gl[g].pc \in {"new", "deciding"} => ~gl[g].made
               /\ gl[g].pc = "decided" /\ gl[g].made => \E c \in Checking(ev) : ev[c].flow = g
    <3>1. CASE g = f
      BY ONLY <1>1, <3>1, x.pc = "asked" => x.made,
              x.pc \in {"new", "deciding", "decided"} => ~x.made
    <3>2. CASE g # f
      BY ONLY <1>1, <1>2, <3>2, g \in Flows DEF CheckFirst
    <3> QED BY <3>1, <3>2
  <2>2. \A w \in Claiming(ev) :
            gl[ev[w].flow].made => \E c \in Checking(ev) : c < w /\ ev[c].flow = ev[w].flow
    BY ONLY <1>2, <1>4, Zenon DEF CheckFirst
  <2> QED BY ONLY <2>1, <2>2, Zenon DEF CheckFirst
<1>7. ASSUME Timed(ev, fl, time) PROVE Timed(ev, gl, time)
  <2>1. ASSUME NEW g \in Flows
        PROVE  /\ gl[g].from <= time
               /\ gl[g].made => gl[g].from <= gl[g].asked /\ gl[g].asked <= time
    <3>1. CASE g = f
      <4>1. x.from <= time /\ (x.made => x.from <= x.asked /\ x.asked <= time)
        BY <1>7
      <4> QED BY ONLY <1>1, <3>1, <4>1, Zenon
    <3>2. CASE g # f
      <4>1. gl[g] = fl[g]
        BY ONLY <1>1, <3>2, g \in Flows
      <4> QED BY ONLY <1>7, <4>1, g \in Flows, Zenon DEF Timed
    <3> QED BY <3>1, <3>2
  <2> QED BY ONLY <1>7, <2>1, Zenon DEF Timed
<1> QED BY ONLY <1>2, <1>5, <1>6, <1>7, Zenon DEF OfFlows

\* A flow's check read is recorded.
LEMMA CheckAdded ==
    ASSUME NEW S, NEW ev \in Seq(S), NEW e \in S, IsCheckRead(e), ~Asked(e),
           NEW fl, NEW time, NEW back, OfFlows(ev, fl, time, back),
           DOMAIN fl = Flows, NEW f \in Flows, NEW x, NEW gl, gl = [fl EXCEPT ![f] = x],
           fl[f].pc = "asked", x.pc \in {"decided", "done"}, x.made,
           x.from = fl[f].from, x.asked = fl[f].asked, e.flow = f, CheckOfFlow(e, x)
    PROVE  OfFlows(Append(ev, e), gl, time, back)
<1> PICK more : more = Append(ev, e)
  OBVIOUS
<1> PICK n : n = Len(ev)
  OBVIOUS
<1>1. /\ n \in Nat /\ more[n + 1] = e /\ \A i \in 1..n : more[i] = ev[i]
      /\ Checking(ev) \subseteq 1..n /\ Claiming(ev) \subseteq 1..n
      /\ Checking(more) = Checking(ev) \cup {i \in {n + 1} : IsCheckRead(e)}
      /\ Claiming(more) = Claiming(ev) \cup {i \in {n + 1} : Asked(e)}
  <2>1. Grown(ev, e, Append(ev, e), Len(ev))
    BY Added, Zenon
  <2> QED BY ONLY <2>1, more = Append(ev, e), n = Len(ev) DEF Grown
<1>2. Checking(more) = Checking(ev) \cup {n + 1} /\ Claiming(more) = Claiming(ev)
  BY ONLY <1>1, IsCheckRead(e), ~Asked(e)
<1>3. /\ \A c \in Checking(ev) : more[c] = ev[c] /\ c \in 1..n
      /\ \A w \in Claiming(ev) : more[w] = ev[w] /\ w \in 1..n
  BY ONLY <1>1
<1>4. gl[f] = x /\ \A g \in Flows : g # f => gl[g] = fl[g]
  BY ONLY DOMAIN fl = Flows, f \in Flows, gl = [fl EXCEPT ![f] = x]
<1>5. /\ Known(ev, fl) /\ Once(ev) /\ CheckFirst(ev, fl) /\ (~back => Timed(ev, fl, time))
  BY DEF OfFlows
<1>6. /\ \A c \in Checking(ev) : ev[c].flow \in Flows /\ ev[c].flow # f
      /\ \A w \in Claiming(ev) : ev[w].flow \in Flows /\ ev[w].flow # f
  BY ONLY <1>5, fl[f].pc = "asked" DEF Known, CheckOfFlow, WriteOfFlow
<1>7. /\ \A c \in Checking(ev) : gl[ev[c].flow] = fl[ev[c].flow]
      /\ \A w \in Claiming(ev) : gl[ev[w].flow] = fl[ev[w].flow]
  BY ONLY <1>4, <1>6, Zenon
<1>8. Known(more, gl)
  <2>1. \A c \in Checking(ev) :
            more[c].flow \in Flows /\ CheckOfFlow(more[c], gl[more[c].flow])
    BY ONLY <1>3, <1>5, <1>7, Zenon DEF Known
  <2>2. more[n + 1].flow \in Flows /\ CheckOfFlow(more[n + 1], gl[more[n + 1].flow])
    BY ONLY <1>1, <1>4, e.flow = f, f \in Flows, CheckOfFlow(e, x), Zenon
  <2>3. \A w \in Claiming(ev) :
            more[w].flow \in Flows /\ WriteOfFlow(more[w], gl[more[w].flow])
    BY ONLY <1>3, <1>5, <1>7, Zenon DEF Known
  <2> QED BY ONLY <1>2, <2>1, <2>2, <2>3, Zenon DEF Known
<1>9. Once(more)
  <2>1. \A c, d \in Checking(more) : more[c].flow = more[d].flow => c = d
    <3>1. \A c \in Checking(more) : c = n + 1 \/ c \in Checking(ev)
      BY ONLY <1>2
    <3>2. more[n + 1].flow = f /\ \A c \in Checking(ev) : more[c].flow # f
      BY ONLY <1>1, <1>3, <1>6, e.flow = f, Zenon
    <3>3. \A c, d \in Checking(ev) : more[c].flow = more[d].flow => c = d
      BY ONLY <1>3, <1>5, Zenon DEF Once
    <3> QED BY ONLY <3>1, <3>2, <3>3, Zenon
  <2>2. \A w, v \in Claiming(more) : more[w].flow = more[v].flow => w = v
    BY ONLY <1>2, <1>3, <1>5, Zenon DEF Once
  <2> QED BY ONLY <2>1, <2>2 DEF Once
<1>10. CheckFirst(more, gl)
  <2>1. ASSUME NEW g \in Flows
        PROVE  /\ gl[g].pc = "asked" => gl[g].made
               /\ gl[g].pc \in {"new", "deciding"} => ~gl[g].made
               /\ gl[g].pc = "decided" /\ gl[g].made => \E c \in Checking(more) : more[c].flow = g
    <3>1. CASE g = f
      <4>1. more[n + 1].flow = g /\ n + 1 \in Checking(more)
        BY ONLY <1>1, <1>2, <3>1, e.flow = f
      <4>2. gl[g] = x
        BY ONLY <1>4, <3>1
      <4> QED BY ONLY <4>1, <4>2, x.pc \in {"decided", "done"}
    <3>2. CASE g # f
      <4>1. /\ fl[g].pc = "asked" => fl[g].made
            /\ fl[g].pc \in {"new", "deciding"} => ~fl[g].made
            /\ fl[g].pc = "decided" /\ fl[g].made => \E c \in Checking(ev) : ev[c].flow = g
        BY ONLY <1>5, g \in Flows, Zenon DEF CheckFirst
      <4>2. gl[g] = fl[g] /\ \A c \in Checking(ev) : c \in Checking(more) /\ more[c] = ev[c]
        BY ONLY <1>2, <1>3, <1>4, <3>2, g \in Flows
      <4> QED BY ONLY <4>1, <4>2, Zenon
    <3> QED BY <3>1, <3>2
  <2>2. \A w \in Claiming(more) :
            gl[more[w].flow].made => \E c \in Checking(more) : c < w /\ more[c].flow = more[w].flow
    <3> SUFFICES ASSUME NEW w \in Claiming(more), gl[more[w].flow].made
                 PROVE  \E c \in Checking(more) : c < w /\ more[c].flow = more[w].flow
      OBVIOUS
    <3>0. w \in Claiming(ev) /\ more[w] = ev[w]
      BY ONLY <1>2, <1>3, w \in Claiming(more)
    <3>1. fl[ev[w].flow].made
      BY ONLY <1>7, <3>0, gl[more[w].flow].made, Zenon
    <3>2. PICK c \in Checking(ev) : c < w /\ ev[c].flow = ev[w].flow
      BY ONLY <1>5, <3>0, <3>1, Zenon DEF CheckFirst
    <3>3. c \in Checking(more) /\ more[c] = ev[c]
      BY ONLY <1>2, <1>3, c \in Checking(ev)
    <3> QED BY ONLY <3>0, <3>2, <3>3, Zenon
  <2> QED BY ONLY <2>1, <2>2, Zenon DEF CheckFirst
<1>11. ASSUME Timed(ev, fl, time) PROVE Timed(more, gl, time)
  <2>1. ASSUME NEW g \in Flows
        PROVE  /\ gl[g].from <= time
               /\ gl[g].made => gl[g].from <= gl[g].asked /\ gl[g].asked <= time
    <3>1. CASE g = f
      <4>1. fl[f].made
        BY ONLY <1>5, fl[f].pc = "asked", f \in Flows, Zenon DEF CheckFirst
      <4>2. fl[f].from <= time /\ fl[f].from <= fl[f].asked /\ fl[f].asked <= time
        BY ONLY <1>11, <4>1, f \in Flows, Zenon DEF Timed
      <4>3. gl[g].from = fl[f].from /\ gl[g].asked = fl[f].asked
        BY ONLY <1>4, <3>1, x.from = fl[f].from, x.asked = fl[f].asked
      <4> QED BY ONLY <4>2, <4>3, Zenon
    <3>2. CASE g # f
      <4>1. gl[g] = fl[g]
        BY ONLY <1>4, <3>2, g \in Flows
      <4> QED BY ONLY <1>11, <4>1, g \in Flows, Zenon DEF Timed
    <3> QED BY <3>1, <3>2
  <2>2. ASSUME NEW c \in Checking(more), NEW w \in Claiming(more), c < w
        PROVE  more[c].from <= more[w].to
    <3>1. w \in Claiming(ev) /\ w \in 1..n /\ more[w] = ev[w]
      BY ONLY <1>2, <1>3, w \in Claiming(more)
    <3>2. c # n + 1
      BY ONLY <1>1, <3>1, c < w
    <3>3. c \in Checking(ev) /\ more[c] = ev[c]
      BY ONLY <1>2, <1>3, <3>2, c \in Checking(more)
    <3> QED BY ONLY <1>11, <2>2, <3>1, <3>3, Zenon DEF Timed
  <2> QED BY ONLY <2>1, <2>2, Zenon DEF Timed
<1> QED BY ONLY <1>5, <1>8, <1>9, <1>10, <1>11, more = Append(ev, e), Zenon DEF OfFlows

\* A flow's write is recorded.
LEMMA WriteAdded ==
    ASSUME NEW S, NEW ev \in Seq(S), NEW e \in S, ~IsCheckRead(e),
           NEW fl, NEW time, NEW back, OfFlows(ev, fl, time, back),
           DOMAIN fl = Flows, NEW f \in Flows, NEW x, NEW gl, gl = [fl EXCEPT ![f] = x],
           fl[f].pc = "decided", x.pc = "done", x.made = fl[f].made, x.object = fl[f].object,
           x.from = fl[f].from, x.asked = fl[f].asked,
           e.flow = f, WriteOfFlow(e, x), e.to = time
    PROVE  OfFlows(Append(ev, e), gl, time, back)
<1> PICK more : more = Append(ev, e)
  OBVIOUS
<1> PICK n : n = Len(ev)
  OBVIOUS
<1>1. /\ n \in Nat /\ more[n + 1] = e /\ \A i \in 1..n : more[i] = ev[i]
      /\ Checking(ev) \subseteq 1..n /\ Claiming(ev) \subseteq 1..n
      /\ Checking(more) = Checking(ev) \cup {i \in {n + 1} : IsCheckRead(e)}
      /\ Claiming(more) = Claiming(ev) \cup {i \in {n + 1} : Asked(e)}
  <2>1. Grown(ev, e, Append(ev, e), Len(ev))
    BY Added, Zenon
  <2> QED BY ONLY <2>1, more = Append(ev, e), n = Len(ev) DEF Grown
<1>2. Checking(more) = Checking(ev) /\ Claiming(more) \subseteq Claiming(ev) \cup {n + 1}
      /\ Claiming(ev) \subseteq Claiming(more)
  BY ONLY <1>1, ~IsCheckRead(e)
<1>3. /\ \A c \in Checking(ev) : more[c] = ev[c] /\ c \in 1..n
      /\ \A w \in Claiming(ev) : more[w] = ev[w] /\ w \in 1..n
  BY ONLY <1>1
<1>4. gl[f] = x /\ \A g \in Flows : g # f => gl[g] = fl[g]
  BY ONLY DOMAIN fl = Flows, f \in Flows, gl = [fl EXCEPT ![f] = x]
<1>5. /\ Known(ev, fl) /\ Once(ev) /\ CheckFirst(ev, fl) /\ (~back => Timed(ev, fl, time))
  BY DEF OfFlows
<1>6. \A w \in Claiming(ev) : ev[w].flow \in Flows /\ ev[w].flow # f
  BY ONLY <1>5, fl[f].pc = "decided" DEF Known, WriteOfFlow
<1>7. /\ \A g \in Flows : gl[g].made = fl[g].made /\ gl[g].from = fl[g].from
                          /\ gl[g].asked = fl[g].asked
      /\ \A w \in Claiming(ev) : gl[ev[w].flow] = fl[ev[w].flow]
  <2>1. \A g \in Flows : gl[g].made = fl[g].made /\ gl[g].from = fl[g].from
                         /\ gl[g].asked = fl[g].asked
    BY ONLY <1>4, x.made = fl[f].made, x.from = fl[f].from, x.asked = fl[f].asked, Zenon
  <2> QED BY ONLY <1>4, <1>6, <2>1, Zenon
<1>8. Known(more, gl)
  <2>1. ASSUME NEW c \in Checking(ev)
        PROVE  more[c].flow \in Flows /\ CheckOfFlow(more[c], gl[more[c].flow])
    <3>1. more[c] = ev[c] /\ ev[c].flow \in Flows /\ CheckOfFlow(ev[c], fl[ev[c].flow])
      BY ONLY <1>3, <1>5, c \in Checking(ev), Zenon DEF Known
    <3>2. CASE ev[c].flow = f
      <4>1. gl[ev[c].flow] = x
        BY ONLY <1>4, <3>2
      <4>2. CheckOfFlow(ev[c], fl[f])
        BY ONLY <3>1, <3>2
      <4>3. CheckOfFlow(ev[c], x)
        BY ONLY <4>2, x.pc = "done", x.made = fl[f].made, x.object = fl[f].object,
                x.asked = fl[f].asked, Zenon DEF CheckOfFlow
      <4> QED BY ONLY <3>1, <4>1, <4>3
    <3>3. CASE ev[c].flow # f
      BY ONLY <1>4, <3>1, <3>3, Zenon
    <3> QED BY <3>2, <3>3
  <2>2. more[n + 1].flow \in Flows /\ WriteOfFlow(more[n + 1], gl[more[n + 1].flow])
    BY ONLY <1>1, <1>4, e.flow = f, f \in Flows, WriteOfFlow(e, x), Zenon
  <2>3. \A w \in Claiming(ev) :
            more[w].flow \in Flows /\ WriteOfFlow(more[w], gl[more[w].flow])
    BY ONLY <1>3, <1>5, <1>7, Zenon DEF Known
  <2> QED BY ONLY <1>2, <2>1, <2>2, <2>3, Zenon DEF Known
<1>9. Once(more)
  <2>1. \A w, v \in Claiming(more) : more[w].flow = more[v].flow => w = v
    <3>1. \A w \in Claiming(more) : w = n + 1 \/ w \in Claiming(ev)
      BY ONLY <1>2
    <3>2. more[n + 1].flow = f /\ \A w \in Claiming(ev) : more[w].flow # f
      BY ONLY <1>1, <1>3, <1>6, e.flow = f, Zenon
    <3>3. \A w, v \in Claiming(ev) : more[w].flow = more[v].flow => w = v
      BY ONLY <1>3, <1>5, Zenon DEF Once
    <3> QED BY ONLY <3>1, <3>2, <3>3, Zenon
  <2>2. \A c, d \in Checking(more) : more[c].flow = more[d].flow => c = d
    BY ONLY <1>2, <1>3, <1>5, Zenon DEF Once
  <2> QED BY ONLY <2>1, <2>2 DEF Once
<1>10. CheckFirst(more, gl)
  <2>1. ASSUME NEW g \in Flows
        PROVE  /\ gl[g].pc = "asked" => gl[g].made
               /\ gl[g].pc \in {"new", "deciding"} => ~gl[g].made
               /\ gl[g].pc = "decided" /\ gl[g].made => \E c \in Checking(more) : more[c].flow = g
    <3>1. CASE g = f
      BY ONLY <1>4, <3>1, x.pc = "done"
    <3>2. CASE g # f
      <4>1. /\ fl[g].pc = "asked" => fl[g].made
            /\ fl[g].pc \in {"new", "deciding"} => ~fl[g].made
            /\ fl[g].pc = "decided" /\ fl[g].made => \E c \in Checking(ev) : ev[c].flow = g
        BY ONLY <1>5, g \in Flows, Zenon DEF CheckFirst
      <4>2. gl[g] = fl[g] /\ \A c \in Checking(ev) : c \in Checking(more) /\ more[c] = ev[c]
        BY ONLY <1>2, <1>3, <1>4, <3>2, g \in Flows
      <4> QED BY ONLY <4>1, <4>2, Zenon
    <3> QED BY <3>1, <3>2
  <2>2. ASSUME NEW w \in Claiming(more), gl[more[w].flow].made
        PROVE  \E c \in Checking(more) : c < w /\ more[c].flow = more[w].flow
    <3>1. CASE w = n + 1
      <4>1. more[w].flow = f /\ fl[f].made
        BY ONLY <1>1, <1>7, <2>2, <3>1, e.flow = f, f \in Flows
      <4>2. PICK c \in Checking(ev) : ev[c].flow = f
        BY ONLY <1>5, <4>1, fl[f].pc = "decided", f \in Flows, Zenon DEF CheckFirst
      <4>3. c < w
        BY ONLY <1>1, <1>3, <3>1, c \in Checking(ev)
      <4> QED BY ONLY <1>2, <1>3, <4>1, <4>2, <4>3
    <3>2. CASE w # n + 1
      <4>1. w \in Claiming(ev) /\ more[w] = ev[w]
        BY ONLY <1>2, <1>3, <3>2, w \in Claiming(more)
      <4>2. ev[w].flow \in Flows
        BY ONLY <1>6, <4>1
      <4>3. fl[ev[w].flow].made
        BY ONLY <1>7, <2>2, <4>1, <4>2
      <4>4. PICK c \in Checking(ev) : c < w /\ ev[c].flow = ev[w].flow
        BY ONLY <1>5, <4>1, <4>3, Zenon DEF CheckFirst
      <4> QED BY ONLY <1>2, <1>3, <4>1, <4>4
    <3> QED BY <3>1, <3>2
  <2> QED BY ONLY <2>1, <2>2, Zenon DEF CheckFirst
<1>11. ASSUME Timed(ev, fl, time) PROVE Timed(more, gl, time)
  <2>1. \A g \in Flows : /\ gl[g].from <= time
                         /\ gl[g].made => gl[g].from <= gl[g].asked /\ gl[g].asked <= time
    BY ONLY <1>7, <1>11, Zenon DEF Timed
  <2>2. ASSUME NEW c \in Checking(more), NEW w \in Claiming(more), c < w
        PROVE  more[c].from <= more[w].to
    <3>1. c \in Checking(ev) /\ more[c] = ev[c]
      BY ONLY <1>2, <1>3, c \in Checking(more)
    <3>2. CASE w = n + 1
      <4>1. ev[c].flow \in Flows /\ CheckOfFlow(ev[c], fl[ev[c].flow])
        BY ONLY <1>5, <3>1, Zenon DEF Known
      <4>2. ev[c].from = fl[ev[c].flow].asked /\ fl[ev[c].flow].made
        BY ONLY <4>1, Zenon DEF CheckOfFlow
      <4>3. fl[ev[c].flow].asked <= time
        BY ONLY <1>11, <4>1, <4>2, Zenon DEF Timed
      <4>4. more[w].to = time
        BY ONLY <1>1, <3>2, e.to = time
      <4> QED BY ONLY <3>1, <4>2, <4>3, <4>4, Zenon
    <3>3. CASE w # n + 1
      <4>1. w \in Claiming(ev) /\ more[w] = ev[w]
        BY ONLY <1>2, <1>3, <3>3, w \in Claiming(more)
      <4> QED BY ONLY <1>11, <2>2, <3>1, <4>1, Zenon DEF Timed
    <3> QED BY <3>2, <3>3
  <2> QED BY ONLY <2>1, <2>2, Zenon DEF Timed
<1> QED BY ONLY <1>5, <1>8, <1>9, <1>10, <1>11, more = Append(ev, e), Zenon DEF OfFlows

\* The clock goes on, or it has been set back.
LEMMA TimeGoesOn ==
    ASSUME NEW ev, NEW fl \in [Flows -> FlowShape], NEW time \in Nat, NEW back, OfFlows(ev, fl, time, back),
           NEW later \in Nat, NEW anyhow, anyhow \/ (time <= later /\ (anyhow <=> back))
    PROVE  OfFlows(ev, fl, later, anyhow)
<1>1. /\ Known(ev, fl) /\ Once(ev) /\ CheckFirst(ev, fl) /\ (~back => Timed(ev, fl, time))
  BY DEF OfFlows
<1>2. ASSUME ~anyhow PROVE Timed(ev, fl, later)
  <2>1. Timed(ev, fl, time) /\ time <= later
    BY <1>1, <1>2
  <2>2. ASSUME NEW f \in Flows
        PROVE  fl[f].from <= later /\ (fl[f].made => fl[f].from <= fl[f].asked /\ fl[f].asked <= later)
    <3>1. fl[f].from \in Nat /\ fl[f].asked \in Nat
      BY DEF FlowShape
    <3>2. fl[f].from <= time /\ (fl[f].made => fl[f].from <= fl[f].asked /\ fl[f].asked <= time)
      BY ONLY <2>1, f \in Flows, Zenon DEF Timed
    <3> PICK a \in Nat, b \in Nat : a = fl[f].from /\ b = fl[f].asked
      BY <3>1
    <3>3. a <= later /\ (b <= time => b <= later)
      BY ONLY <2>1, <3>2, a = fl[f].from, a \in Nat, b \in Nat, time \in Nat, later \in Nat
    <3> QED BY ONLY <3>2, <3>3, a = fl[f].from, b = fl[f].asked, Zenon
  <2> QED BY ONLY <2>1, <2>2, Zenon DEF Timed
<1> QED BY ONLY <1>1, <1>2, Zenon DEF OfFlows

-----------------------------------------------------------------------------
(* Each step of the flows. *)

\* Nothing but a flow's own events is a check read or says that it was checked.
LEMMA NotAsked ==
    ASSUME NEW s, NEW e \in Reads(s) \cup ReadsOverlaid(s) \cup ReadsReplayed(s)
                            \cup OtherWrites(s) \cup Llms(s) \cup {Exchange("telemetry", "live", "telemetry")}
    PROVE  ~IsCheckRead(e) /\ ~Asked(e)
<1>1. ASSUME NEW d, d.issued = "agent", d.kind \notin {"write", "unknown"}
      PROVE  ~IsCheckRead(d) /\ ~Asked(d)
  BY <1>1 DEF IsCheckRead, Asked, IsSummaryWrite
<1>p. ASSUME NEW kind, NEW by, NEW flags,
             \/ e = Exchange(kind, by, s)
             \/ e = [Exchange(kind, by, s) EXCEPT !.flags = flags]
      PROVE  e.issued = "agent" /\ e.kind = kind
  <2>1. CASE e = Exchange(kind, by, s)
    BY <2>1 DEF Exchange
  <2>2. CASE e = [Exchange(kind, by, s) EXCEPT !.flags = flags]
    BY <2>2 DEF Exchange
  <2> QED BY <1>p, <2>1, <2>2
<1>2. CASE e \in Reads(s)
  <2>1. e \in {Exchange("read", "live", s), Exchange("read", "delegated", s),
               [Exchange("read", "delegated", s) EXCEPT !.flags = {"target-failed"}],
               [Exchange("read", "irimi", s) EXCEPT !.flags = {"target-failed"}],
               [Exchange("read", "irimi", s) EXCEPT !.flags = {"refused"}],
               [Exchange("read", "recording", s) EXCEPT !.flags = {"from-recording"}]}
    BY <1>2 DEF Reads
  <2>2. \E by, flags : \/ e = Exchange("read", by, s)
                     \/ e = [Exchange("read", by, s) EXCEPT !.flags = flags]
    BY ONLY <2>1
  <2>3. e.issued = "agent" /\ e.kind = "read"
    BY ONLY <1>p, <2>2
  <2> QED BY <1>1, <2>3
<1>3. CASE e \in ReadsOverlaid(s) \cup ReadsReplayed(s)
  <2>1. e.issued = "agent" /\ e.kind = "read"
    BY <1>3 DEF ReadsOverlaid, ReadsReplayed, Exchange
  <2> QED BY <1>1, <2>1
<1>4. CASE e \in Llms(s)
  <2>1. e \in {Exchange("llm", "live", s),
               [Exchange("llm", "recording", s) EXCEPT !.flags = {"from-recording"}],
               [Exchange("llm", "irimi", s) EXCEPT !.flags = {"refused"}]}
    BY <1>4 DEF Llms
  <2>2. \E by, flags : \/ e = Exchange("llm", by, s)
                     \/ e = [Exchange("llm", by, s) EXCEPT !.flags = flags]
    BY ONLY <2>1
  <2>3. e.issued = "agent" /\ e.kind = "llm"
    BY ONLY <1>p, <2>2
  <2> QED BY <1>1, <2>3
<1>5. CASE e = Exchange("telemetry", "live", "telemetry")
  <2>1. e.issued = "agent" /\ e.kind = "telemetry"
    BY <1>5 DEF Exchange
  <2> QED BY <1>1, <2>1
<1>6. CASE e \in OtherWrites(s)
  <2>1. /\ e.issued = "agent"
        /\ \/ e.by = "fake-L2" /\ e.flags = {"idempotent-replay"}
           \/ e.flags = {"from-recording"}
           \/ e.outcome = ""
           \/ e.by \in {"delegated", "irimi"}
    BY <1>6 DEF OtherWrites, Exchange
  <2> QED BY <2>1 DEF IsCheckRead, Asked, IsSummaryWrite, Recorded, FakeLevels
<1> QED BY <1>2, <1>3, <1>4, <1>5, <1>6

\* The events of a flow.
LEMMA FlowEvents ==
    ASSUME SummaryType, NEW f \in Flows
    PROVE  /\ IsCheckRead(CheckOf(f)) /\ ~Asked(CheckOf(f)) /\ CheckOf(f).flow = f
           /\ CheckOf(f).service = Asks /\ CheckOf(f).object = flow[f].object
           /\ CheckOf(f).from = flow[f].asked
           /\ ~IsCheckRead(WriteOf(f)) /\ WriteOf(f).flow = f
           /\ WriteOf(f).service = Asks /\ WriteOf(f).object = flow[f].object
           /\ WriteOf(f).from = flow[f].from /\ WriteOf(f).to = now
           /\ ~IsCheckRead([WriteOf(f) EXCEPT !.by = "irimi", !.flags = {"decision-failed"}])
           /\ ~Asked([WriteOf(f) EXCEPT !.by = "irimi", !.flags = {"decision-failed"}])
<1>1. PICK c : c = CheckOf(f)
  OBVIOUS
<1>2. /\ c.issued = "engine" /\ c.flow = f /\ c.service = Asks /\ c.object = flow[f].object
      /\ c.from = flow[f].asked
  BY ONLY <1>1 DEF CheckOf, Exchange
<1>3. PICK w : w = WriteOf(f)
  OBVIOUS
<1>4. /\ w.issued = "agent" /\ w.flow = f /\ w.service = Asks /\ w.object = flow[f].object
      /\ w.from = flow[f].from /\ w.to = now
  BY ONLY <1>3 DEF WriteOf, Exchange
<1>5. PICK u : u = [w EXCEPT !.by = "irimi", !.flags = {"decision-failed"}]
  OBVIOUS
<1>6. u.issued = "agent" /\ u.by = "irimi"
  BY ONLY <1>3, <1>5 DEF WriteOf, Exchange
<1>7. IsCheckRead(c) /\ ~Asked(c) /\ ~IsCheckRead(w) /\ ~IsCheckRead(u) /\ ~Asked(u)
  BY ONLY <1>2, <1>4, <1>6 DEF IsCheckRead, Asked, IsSummaryWrite, FakeLevels
<1> QED BY ONLY <1>1, <1>2, <1>3, <1>4, <1>5, <1>7

FlowsInv == OfFlows(events, flow, now, setBack)

\* Every step of a run keeps what is known of its flows.
LEMMA FlowsStep ==
    ASSUME SummaryType, FlowsInv, SummaryNext
    PROVE  FlowsInv'
<1>1. flow \in [Flows -> FlowShape] /\ now \in Nat /\ events \in Seq(SoundEvents) /\ DOMAIN flow = Flows
  BY DEF SummaryType
<1>2. OfFlows(events, flow, now, setBack)
  BY DEF FlowsInv
<1>s. SUFFICES OfFlows(events', flow', now', setBack')
  BY DEF FlowsInv, OfFlows, Known, Once, CheckFirst, Timed, Checking, Claiming, IsCheckRead, Asked,
         IsSummaryWrite, Recorded, FakeLevels, CheckOfFlow, WriteOfFlow
<1>3. CASE Tick \/ SetBack
  <2>1. UNCHANGED <<events, flow>> /\ now' \in Nat
    BY <1>1, <1>3 DEF Tick, SetBack
  <2>2. setBack' \/ (now <= now' /\ (setBack' <=> setBack))
    BY <1>1, <1>3 DEF Tick, SetBack
  <2>3. OfFlows(events, flow, now', setBack')
    BY ONLY <1>1, <1>2, <2>1, <2>2, TimeGoesOn
  <2> QED BY ONLY <2>1, <2>3
<1>4. ASSUME NEW f \in Flows, Begin(f) PROVE OfFlows(events', flow', now', setBack')
  <2>1. PICK o \in Objects : flow' = [flow EXCEPT ![f] = [NotBegun EXCEPT !.pc = "deciding", !.object = o, !.from = now]]
    BY <1>4 DEF Begin, Moved
  <2>2. PICK x : x = [NotBegun EXCEPT !.pc = "deciding", !.object = o, !.from = now]
    OBVIOUS
  <2>3. x.pc = "deciding" /\ ~x.made /\ x.from = now
    BY ONLY <2>2 DEF NotBegun
  <2>4. UNCHANGED <<events, now, setBack>> /\ flow[f].pc = "new"
    BY <1>4 DEF Begin
  <2>5. now <= now
    BY ONLY <1>1
  <2>6. OfFlows(events, flow', now, setBack)
    <3>1. /\ flow' = [flow EXCEPT ![f] = x] /\ flow[f].pc \notin {"decided", "done"}
          /\ x.pc = "asked" => x.made
          /\ x.pc \in {"new", "deciding", "decided"} => ~x.made
      BY ONLY <2>1, <2>2, <2>3, <2>4
    <3>2. Timed(events, flow, now) =>
              x.from <= now /\ (x.made => x.from <= x.asked /\ x.asked <= now)
      BY ONLY <2>3, <2>5
    <3> QED BY ONLY <1>1, <1>2, <3>1, <3>2, f \in Flows, FlowGoesOn, Zenon
  <2> QED BY ONLY <2>4, <2>6
<1>5. ASSUME NEW f \in Flows, Ask(f) PROVE OfFlows(events', flow', now', setBack')
  <2>1. flow' = [flow EXCEPT ![f] = [flow[f] EXCEPT !.pc = "asked", !.asked = now, !.made = TRUE]]
    BY <1>5 DEF Ask, Moved
  <2>2. PICK x : x = [flow[f] EXCEPT !.pc = "asked", !.asked = now, !.made = TRUE]
    OBVIOUS
  <2>3. x.pc = "asked" /\ x.made /\ x.from = flow[f].from /\ x.asked = now
    <3>1. flow[f] \in FlowShape
      BY <1>1
    <3> QED BY ONLY <2>2, <3>1 DEF FlowShape
  <2>4. UNCHANGED <<events, now, setBack>> /\ flow[f].pc = "deciding"
    BY <1>5 DEF Ask
  <2>5. Timed(events, flow, now) => x.from <= now /\ (x.made => x.from <= x.asked /\ x.asked <= now)
    <3>1. now <= now
      BY ONLY <1>1
    <3> QED BY ONLY <2>3, <3>1, f \in Flows DEF Timed
  <2>6. OfFlows(events, flow', now, setBack)
    <3>1. /\ flow' = [flow EXCEPT ![f] = x] /\ flow[f].pc \notin {"decided", "done"}
          /\ x.pc = "asked" => x.made
          /\ x.pc \in {"new", "deciding", "decided"} => ~x.made
      BY ONLY <2>1, <2>2, <2>3, <2>4
    <3>2. Timed(events, flow, now) =>
              x.from <= now /\ (x.made => x.from <= x.asked /\ x.asked <= now)
      BY ONLY <2>3, <2>5
    <3> QED BY ONLY <1>1, <1>2, <3>1, <3>2, f \in Flows, FlowGoesOn, Zenon
  <2> QED BY ONLY <2>4, <2>6
<1>6. ASSUME NEW f \in Flows, DecideUnasked(f) PROVE OfFlows(events', flow', now', setBack')
  <2>1. PICK outcome \in {"", "not_evaluable"} :
            flow' = [flow EXCEPT ![f] = [flow[f] EXCEPT !.pc = "decided", !.outcome = outcome]]
    BY <1>6 DEF DecideUnasked, Moved
  <2>2. PICK x : x = [flow[f] EXCEPT !.pc = "decided", !.outcome = outcome]
    OBVIOUS
  <2>3. UNCHANGED <<events, now, setBack>> /\ flow[f].pc = "deciding"
    BY <1>6 DEF DecideUnasked
  <2>4. ~flow[f].made
    BY ONLY <1>2, <2>3, f \in Flows, Zenon DEF OfFlows, CheckFirst
  <2>5. x.pc = "decided" /\ ~x.made /\ x.from = flow[f].from
    <3>1. flow[f] \in FlowShape
      BY <1>1
    <3> QED BY ONLY <2>2, <2>4, <3>1 DEF FlowShape
  <2>6. Timed(events, flow, now) => x.from <= now
    BY ONLY <2>5, f \in Flows DEF Timed
  <2>7. OfFlows(events, flow', now, setBack)
    <3>1. /\ flow' = [flow EXCEPT ![f] = x] /\ flow[f].pc \notin {"decided", "done"}
          /\ x.pc = "asked" => x.made
          /\ x.pc \in {"new", "deciding", "decided"} => ~x.made
      BY ONLY <2>1, <2>2, <2>3, <2>5
    <3>2. Timed(events, flow, now) =>
              x.from <= now /\ (x.made => x.from <= x.asked /\ x.asked <= now)
      BY ONLY <2>5, <2>6
    <3> QED BY ONLY <1>1, <1>2, <3>1, <3>2, f \in Flows, FlowGoesOn, Zenon
  <2> QED BY ONLY <2>3, <2>7
<1>7. ASSUME NEW f \in Flows, Decide(f) PROVE OfFlows(events', flow', now', setBack')
  <2>1. PICK outcome \in {"passed", "rejected", "not_evaluable"} :
            flow' = [flow EXCEPT ![f] = [flow[f] EXCEPT !.pc = "decided", !.outcome = outcome]]
    BY <1>7 DEF Decide, Moved
  <2>2. PICK x : x = [flow[f] EXCEPT !.pc = "decided", !.outcome = outcome]
    OBVIOUS
  <2>3. UNCHANGED <<now, setBack>> /\ flow[f].pc = "asked" /\ events' = Append(events, CheckOf(f))
    BY <1>7 DEF Decide
  <2>4. flow[f].made
    BY ONLY <1>2, <2>3, f \in Flows, Zenon DEF OfFlows, CheckFirst
  <2>5. x.pc = "decided" /\ x.made /\ x.from = flow[f].from /\ x.asked = flow[f].asked
        /\ x.object = flow[f].object
    <3>1. flow[f] \in FlowShape
      BY <1>1
    <3> QED BY ONLY <2>2, <2>4, <3>1 DEF FlowShape
  <2>6. PICK e : e = CheckOf(f)
    OBVIOUS
  <2>7. /\ e \in SoundEvents /\ IsCheckRead(e) /\ ~Asked(e) /\ e.flow = f /\ e.service = Asks
        /\ e.object = flow[f].object /\ e.from = flow[f].asked
    BY <2>6, FlowEvents, FlowEventsSound
  <2>8. CheckOfFlow(e, x)
    BY ONLY <2>5, <2>7 DEF CheckOfFlow
  <2>9. OfFlows(Append(events, e), flow', now, setBack)
    <3>1. x.pc \in {"decided", "done"} /\ flow' = [flow EXCEPT ![f] = x]
      BY ONLY <2>1, <2>2, <2>5
    <3> QED BY ONLY <1>1, <1>2, <3>1, <2>3, <2>5, <2>7, <2>8, f \in Flows, CheckAdded, Zenon
  <2> QED BY ONLY <2>3, <2>6, <2>9
<1>8. ASSUME NEW f \in Flows, Finish(f) PROVE OfFlows(events', flow', now', setBack')
  <2>1. flow' = [flow EXCEPT ![f] = [flow[f] EXCEPT !.pc = "done"]]
    BY <1>8 DEF Finish, Moved
  <2>2. PICK x : x = [flow[f] EXCEPT !.pc = "done"]
    OBVIOUS
  <2>3. UNCHANGED <<now, setBack>> /\ flow[f].pc = "decided" /\ events' = Append(events, WriteOf(f))
    BY <1>8 DEF Finish
  <2>4. x.pc = "done" /\ x.made = flow[f].made /\ x.from = flow[f].from /\ x.asked = flow[f].asked
        /\ x.object = flow[f].object
    <3>1. flow[f] \in FlowShape
      BY <1>1
    <3> QED BY ONLY <2>2, <3>1 DEF FlowShape
  <2>5. PICK e : e = WriteOf(f)
    OBVIOUS
  <2>6. /\ e \in SoundEvents /\ ~IsCheckRead(e) /\ e.flow = f /\ e.service = Asks
        /\ e.object = flow[f].object /\ e.from = flow[f].from /\ e.to = now
    BY <2>5, FlowEvents, FlowEventsSound
  <2>7. WriteOfFlow(e, x)
    BY ONLY <2>4, <2>6 DEF WriteOfFlow
  <2>8. OfFlows(Append(events, e), flow', now, setBack)
    <3>1. flow' = [flow EXCEPT ![f] = x]
      BY ONLY <2>1, <2>2
    <3> QED BY ONLY <1>1, <1>2, <2>3, <2>4, <2>6, <2>7, <3>1, f \in Flows, WriteAdded, Zenon
  <2> QED BY ONLY <2>3, <2>5, <2>8
<1>9. ASSUME NEW f \in Flows, PutFails(f) PROVE OfFlows(events', flow', now', setBack')
  <2>1. flow' = [flow EXCEPT ![f] = [flow[f] EXCEPT !.pc = "done"]]
    BY <1>9 DEF PutFails, Moved
  <2>2. PICK x : x = [flow[f] EXCEPT !.pc = "done"]
    OBVIOUS
  <2>3. PICK u : u = [WriteOf(f) EXCEPT !.by = "irimi", !.flags = {"decision-failed"}]
    OBVIOUS
  <2>4. PICK e : e = CheckOf(f)
    OBVIOUS
  <2>5. UNCHANGED <<now, setBack>> /\ flow[f].pc = "asked" /\ events' = events \o <<u, e>>
    BY <1>9, <2>3, <2>4 DEF PutFails
  <2>6. flow[f].made
    BY ONLY <1>2, <2>5, f \in Flows, Zenon DEF OfFlows, CheckFirst
  <2>7. x.pc = "done" /\ x.made /\ x.from = flow[f].from /\ x.asked = flow[f].asked
        /\ x.object = flow[f].object
    <3>1. flow[f] \in FlowShape
      BY <1>1
    <3> QED BY ONLY <2>2, <2>6, <3>1 DEF FlowShape
  <2>8. /\ e \in SoundEvents /\ IsCheckRead(e) /\ ~Asked(e) /\ e.flow = f /\ e.service = Asks
        /\ e.object = flow[f].object /\ e.from = flow[f].asked
        /\ u \in SoundEvents /\ ~IsCheckRead(u) /\ ~Asked(u)
    BY <2>3, <2>4, FlowEvents, FlowEventsSound
  <2>9. CheckOfFlow(e, x)
    BY ONLY <2>7, <2>8 DEF CheckOfFlow
  <2> PICK ev : ev = Append(events, u)
    OBVIOUS
  <2>10. ev \in Seq(SoundEvents) /\ OfFlows(ev, flow, now, setBack)
    <3>1. ev \in Seq(SoundEvents)
      BY ONLY <1>1, <2>8, ev = Append(events, u)
    <3>2. OfFlows(Append(events, u), flow, now, setBack)
      BY ONLY <1>1, <1>2, <2>8, OtherAdded
    <3> QED BY ONLY <3>1, <3>2, ev = Append(events, u)
  <2>11. OfFlows(Append(ev, e), flow', now, setBack)
    <3>1. x.pc \in {"decided", "done"} /\ flow' = [flow EXCEPT ![f] = x]
      BY ONLY <2>1, <2>2, <2>7
    <3> QED BY ONLY <1>1, <3>1, <2>5, <2>7, <2>8, <2>9, <2>10, f \in Flows, CheckAdded, Zenon
  <2>12. events' = Append(ev, e)
    <3>1. events \o <<u, e>> = Append(Append(events, u), e)
      BY ONLY <1>1, <2>8
    <3> QED BY ONLY <2>5, <3>1, ev = Append(events, u)
  <2> QED BY ONLY <2>5, <2>11, <2>12
<1>10. ASSUME NEW e, e \in SoundEvents, Record(e), ~IsCheckRead(e), ~Asked(e)
       PROVE  OfFlows(events', flow', now', setBack')
  <2>1. UNCHANGED <<flow, now, setBack>> /\ events' = Append(events, e)
    BY <1>10 DEF Record
  <2>2. OfFlows(Append(events, e), flow, now, setBack)
    BY ONLY <1>1, <1>2, <1>10, OtherAdded
  <2> QED BY ONLY <2>1, <2>2
<1>11. ASSUME NEW s \in Services,
              NEW e \in Reads(s) \cup ReadsOverlaid(s) \cup ReadsReplayed(s)
                           \cup OtherWrites(s) \cup Llms(s),
              Record(e)
       PROVE  OfFlows(events', flow', now', setBack')
  <2>1. ~IsCheckRead(e) /\ ~Asked(e)
    BY NotAsked
  <2>2. e \in SoundEvents
    BY ReadsSound, OverlaidSound, OthersSound
  <2> QED BY <1>10, <1>11, <2>1, <2>2
<1>12. CASE Record(Exchange("telemetry", "live", "telemetry"))
  <2> PICK e : e = Exchange("telemetry", "live", "telemetry")
    OBVIOUS
  <2>1. ~IsCheckRead(e) /\ ~Asked(e)
    BY NotAsked
  <2>2. e \in SoundEvents
    BY TelemetrySound
  <2> QED BY <1>10, <1>12, <2>1, <2>2
<1> QED BY <1>3, <1>4, <1>5, <1>6, <1>7, <1>8, <1>9, <1>11, <1>12 DEF SummaryNext

-----------------------------------------------------------------------------
(* Which check read is taken for a write, one write after the other.         *)

\* A set of numbers with 0 and with the next of each has them all.
LEMMA Induction ==
    ASSUME NEW T, 0 \in T, \A n \in T \cap Nat : n + 1 \in T
    PROVE  Nat \subseteq T
<1> DEFINE S == Nat \ T
<1>1. SUFFICES ASSUME S # {} PROVE FALSE
  OBVIOUS
<1>2. PICK i \in S : \A j \in S : ~ (<<j, i>> \in OpToRel(<, Nat))
  <2> HIDE DEF S
  <2>1. S \subseteq Nat
    BY DEF S
  <2> QED BY <1>1, <2>1, NatLessThanWellFounded, WFMin
<1>3. i - 1 \in Nat /\ i - 1 < i
  OBVIOUS
<1>4. <<i - 1, i>> \in OpToRel(<, Nat)
  BY <1>3 DEF OpToRel
<1>5. i - 1 \notin S
  BY <1>2, <1>4, Zenon
<1>6. (i - 1) + 1 = i
  BY <1>3
<1> QED BY <1>3, <1>5, <1>6

\* f runs over the numbers to n from b, by the steps given.
Runs(f, S, n, b, step) ==
    f \in [0..n -> S] /\ f[0] = b /\ \A i \in 1..n : f[i] = step[i][f[i - 1]]

\* There is such a run, where every step stays in S.
LEMMA Recursion ==
    ASSUME NEW S, NEW n, NEW b, NEW step,
           n \in Nat, b \in S, step \in [1..n -> [S -> S]]
    PROVE  \E f : Runs(f, S, n, b, step)
<1> DEFINE T == {m \in Nat : m <= n => \E f : Runs(f, S, m, b, step)}
<1>1. 0 \in T
  <2>1. Runs([i \in 0..0 |-> b], S, 0, b, step)
    BY DEF Runs
  <2> QED BY <2>1
<1>2. ASSUME NEW m \in T \cap Nat PROVE m + 1 \in T
  <2>0. m \in Nat /\ m + 1 \in Nat
    OBVIOUS
  <2> SUFFICES ASSUME m + 1 <= n PROVE \E f : Runs(f, S, m + 1, b, step)
    BY <2>0
  <2>1. PICK g : Runs(g, S, m, b, step)
    BY <2>0
  <2> DEFINE next == step[m + 1][g[m]]
  <2>2. next \in S
    BY <2>0, <2>1 DEF Runs
  <2> HIDE DEF next
  <2>3. PICK f : f = [i \in 0..(m + 1) |-> IF i = m + 1 THEN next ELSE g[i]]
    OBVIOUS
  <2>4. f \in [0..(m + 1) -> S] /\ f[0] = b
    BY <2>0, <2>1, <2>2, <2>3 DEF Runs
  <2>5. ASSUME NEW i \in 1..(m + 1) PROVE f[i] = step[i][f[i - 1]]
    <3>1. CASE i = m + 1
      <4>1. f[i] = next /\ f[i - 1] = g[m] /\ i - 1 = m
        BY <2>0, <2>3, <3>1
      <4> QED BY <3>1, <4>1 DEF next
    <3>2. CASE i # m + 1
      <4>1. i \in 1..m /\ f[i] = g[i] /\ f[i - 1] = g[i - 1]
        BY <2>0, <2>3, <3>2
      <4>2. g[i] = step[i][g[i - 1]]
        BY <2>1, <4>1 DEF Runs
      <4> QED BY <4>1, <4>2
    <3> QED BY <3>1, <3>2
  <2> QED BY <2>4, <2>5 DEF Runs
<1> HIDE DEF T
<1>3. n \in T
  BY <1>1, <1>2, Induction
<1> QED BY <1>3 DEF T

\* One write more takes its check read.
Claimed(n, a) ==
    IF Asked(events[n]) /\ Unclaimed(n, {p[2] : p \in a}) # {}
    THEN a \cup {<<n, Picked(Unclaimed(n, {p[2] : p \in a}), n)>>}
    ELSE a

\* The pairs of a summary come about write by write.
LEMMA PairsRun ==
    ASSUME NEW N, N = Len(events), N \in Nat, DOMAIN events = 1..N
    PROVE  \E g : /\ g[0] = {} /\ \A i \in 1..N : g[i] = Claimed(i, g[i - 1])
                  /\ CheckReads = g[N]
<1> DEFINE C == Positions(IsCheckRead)
           U == UNION {{Picked(X, n) : X \in SUBSET C} : n \in 1..N}
           S == SUBSET ((1..N) \X U)
           step == [n \in 1..N |-> [a \in S |-> Claimed(n, a)]]
<1>1. ASSUME NEW n \in 1..N, NEW a \in S PROVE Claimed(n, a) \in S
  <2> DEFINE X == Unclaimed(n, {p[2] : p \in a})
  <2>1. X \in SUBSET C
    BY DEF Unclaimed
  <2> HIDE DEF X, C
  <2> PICK x : x = Picked(X, n)
    OBVIOUS
  <2>2. x \in U
    <3>1. x \in {Picked(Y, n) : Y \in SUBSET C}
      BY ONLY <2>1, x = Picked(X, n)
    <3> QED BY <3>1
  <2> HIDE DEF U
  <2>3. a \cup {<<n, Picked(X, n)>>} \in S
    BY ONLY <2>2, n \in 1..N, a \in S, x = Picked(X, n) DEF S
  <2> USE DEF X
  <2> HIDE DEF S
  <2> QED BY <2>3 DEF Claimed
<1>2. {} \in S
  OBVIOUS
<1> HIDE DEF S
<1>3. step \in [1..N -> [S -> S]]
  BY <1>1
<1>4. PICK g : Runs(g, S, N, {}, step)
  BY <1>2, <1>3, Recursion
<1>5. g \in [0..N -> S] /\ g[0] = {}
  BY <1>4 DEF Runs
<1>6. ASSUME NEW i \in 1..N PROVE g[i] = Claimed(i, g[i - 1])
  <2>1. i - 1 \in 0..N
    BY N \in Nat
  <2>2. g[i - 1] \in S
    BY <1>5, <2>1
  <2>3. g[i] = step[i][g[i - 1]]
    BY <1>4 DEF Runs
  <2> QED BY <2>2, <2>3
<1> DEFINE upTo[n \in 0..Len(events)] ==
            IF n = 0 THEN {}
            ELSE LET taken == {p[2] : p \in upTo[n - 1]} IN
                 IF Asked(events[n]) /\ Unclaimed(n, taken) # {}
                 THEN upTo[n - 1] \cup {<<n, Picked(Unclaimed(n, taken), n)>>}
                 ELSE upTo[n - 1]
<1>7. g = [n \in 0..Len(events) |->
            IF n = 0 THEN {}
            ELSE LET taken == {p[2] : p \in g[n - 1]} IN
                 IF Asked(events[n]) /\ Unclaimed(n, taken) # {}
                 THEN g[n - 1] \cup {<<n, Picked(Unclaimed(n, taken), n)>>}
                 ELSE g[n - 1]]
  <2>1. \A n \in 0..N : n # 0 => n \in 1..N
    BY N \in Nat
  <2>2. \A n \in 0..N : g[n] = IF n = 0 THEN {} ELSE Claimed(n, g[n - 1])
    BY <1>5, <1>6, <2>1
  <2>3. g = [n \in 0..N |-> IF n = 0 THEN {} ELSE Claimed(n, g[n - 1])]
    BY <1>5, <2>2
  <2> QED BY <2>3, N = Len(events), Zenon DEF Claimed
<1>8. upTo = [n \in 0..Len(events) |->
            IF n = 0 THEN {}
            ELSE LET taken == {p[2] : p \in upTo[n - 1]} IN
                 IF Asked(events[n]) /\ Unclaimed(n, taken) # {}
                 THEN upTo[n - 1] \cup {<<n, Picked(Unclaimed(n, taken), n)>>}
                 ELSE upTo[n - 1]]
  BY <1>7
<1>9. CheckReads = upTo[N]
  BY DEF CheckReads
<1> HIDE DEF upTo, step
<1>10. upTo[0] = {} /\ \A n \in 1..N : upTo[n] = Claimed(n, upTo[n - 1])
  <2>1. 0 \in 0..Len(events) /\ \A n \in 1..N : n \in 0..Len(events) /\ n # 0
    BY N \in Nat
  <2>2. upTo[0] = {}
    BY <1>8, <2>1
  <2>3. ASSUME NEW n \in 1..N PROVE upTo[n] = Claimed(n, upTo[n - 1])
    <3>1. upTo[n] = LET taken == {p[2] : p \in upTo[n - 1]} IN
                    IF Asked(events[n]) /\ Unclaimed(n, taken) # {}
                    THEN upTo[n - 1] \cup {<<n, Picked(Unclaimed(n, taken), n)>>}
                    ELSE upTo[n - 1]
      BY ONLY <1>8, <2>1, n \in 1..N
    <3> QED BY ONLY <3>1 DEF Claimed
  <2> QED BY <2>2, <2>3
<1> QED BY <1>9, <1>10

\* The check read that is taken is one of those there are, and when one made during
\* the write names its object, so does the one that is taken, and it is no later.
LEMMA PickedFacts ==
    ASSUME SummaryType, NEW w \in DOMAIN events, NEW S, S \subseteq DOMAIN events, S # {}
    PROVE  /\ Picked(S, w) \in S
           /\ \A d \in During(S, w) : NamesIt(d, w) =>
                  NamesIt(Picked(S, w), w) /\ events[Picked(S, w)].from <= events[d].from
<1>1. /\ Len(events) \in Nat /\ DOMAIN events = 1..Len(events)
      /\ \A i \in DOMAIN events : events[i].from \in Nat
  <2>1. events \in Seq(SoundEvents)
    BY DEF SummaryType
  <2>2. Len(events) \in Nat /\ DOMAIN events = 1..Len(events)
        /\ \A i \in DOMAIN events : events[i] \in EventShape
    BY <2>1, ElementOfSeq DEF SoundEvents
  <2> QED BY <2>2 DEF EventShape
<1>2. ASSUME NEW c, NEW d
      PROVE  TakenBefore(c, d, w) <=>
                 \/ NamesIt(c, w) /\ ~NamesIt(d, w)
                 \/ (NamesIt(c, w) <=> NamesIt(d, w)) /\ events[c].from < events[d].from
  <2>1. NamesIt(c, w) \in BOOLEAN /\ NamesIt(d, w) \in BOOLEAN
    BY DEF NamesIt
  <2>2. (NamesIt(c, w) = NamesIt(d, w)) <=> (NamesIt(c, w) <=> NamesIt(d, w))
    BY <2>1
  <2> QED BY <2>2, Zenon DEF TakenBefore
<1>3. CASE During(S, w) = {}
  <2>1. S \subseteq Nat /\ \A i \in S : i <= Len(events)
    BY <1>1
  <2>2. \E c \in S : \A d \in S : d <= c
    BY <1>1, <2>1, GreatestExists
  <2>3. Picked(S, w) = CHOOSE c \in S : \A d \in S : d <= c
    BY <1>3 DEF Picked
  <2>4. Picked(S, w) \in S
    BY <2>2, <2>3
  <2> QED BY <1>3, <2>4
<1>4. CASE During(S, w) # {}
  <2> PICK D : D = During(S, w)
    OBVIOUS
  <2> PICK N : N = {d \in D : NamesIt(d, w)}
    OBVIOUS
  <2> PICK best : best = IF N # {} THEN N ELSE D
    OBVIOUS
  <2>1. /\ D \subseteq S /\ D # {} /\ best \subseteq D /\ best # {}
        /\ \A d \in D : d \notin best => ~NamesIt(d, w) /\ \A c \in best : NamesIt(c, w)
        /\ \A c, d \in best : NamesIt(c, w) <=> NamesIt(d, w)
        /\ N # {} => best = N
    BY <1>4 DEF During
  <2> PICK F : F = {events[d].from : d \in best}
    OBVIOUS
  <2>2. F \subseteq Nat /\ F # {}
    BY <1>1, <2>1
  <2> PICK f : f = Least(F)
    OBVIOUS
  <2>3. f \in F /\ \A x \in F : f <= x
    BY <2>2, LeastExists
  <2> PICK C : C = {d \in best : events[d].from = f}
    OBVIOUS
  <2>4. C # {} /\ C \subseteq Nat
    <3>1. best \subseteq Nat
      BY <1>1, <2>1
    <3>2. \E d \in best : events[d].from = f
      BY ONLY <2>3, F = {events[d].from : d \in best}
    <3> QED BY ONLY <3>1, <3>2, C = {d \in best : events[d].from = f}
  <2> PICK c : c = Least(C)
    OBVIOUS
  <2>5. c \in C /\ \A d \in C : c <= d
    BY <2>4, LeastExists
  <2>6. c \in best /\ events[c].from = f
    BY <2>5
  <2>7. ASSUME NEW d \in D \ {c}
        PROVE  TakenBefore(c, d, w) \/ (~TakenBefore(d, c, w) /\ c < d)
    <3>1. CASE d \notin best
      <4>1. NamesIt(c, w) /\ ~NamesIt(d, w)
        BY ONLY <2>1, <2>6, <3>1, d \in D \ {c}
      <4> QED BY ONLY <1>2, <4>1, Zenon
    <3>2. CASE d \in best
      <4>1. NamesIt(c, w) <=> NamesIt(d, w)
        BY ONLY <2>1, <2>6, <3>2
      <4>2. events[d].from \in Nat /\ f \in Nat /\ f <= events[d].from
        BY ONLY <1>1, <2>1, <2>2, <2>3, <3>2, F = {events[d_1].from : d_1 \in best}, S \subseteq DOMAIN events
      <4>3. CASE events[d].from = f
        <5>1. d \in C /\ d # c /\ d \in Nat /\ c \in Nat
          BY <2>4, <2>5, <3>2, <4>3
        <5>2. c < d
          BY ONLY <2>5, <5>1
        <5>3. ~(events[d].from < events[c].from)
          BY ONLY <2>6, <4>2, <4>3
        <5> QED BY ONLY <1>2, <4>1, <5>2, <5>3, Zenon
      <4>4. CASE events[d].from # f
        <5>1. events[c].from < events[d].from
          BY ONLY <2>6, <4>2, <4>4
        <5> QED BY ONLY <1>2, <4>1, <5>1, Zenon
      <4> QED BY <4>3, <4>4
    <3> QED BY <3>1, <3>2
  <2>8. Picked(S, w) = CHOOSE e \in D : \A d \in D \ {e} :
                           TakenBefore(e, d, w) \/ (~TakenBefore(d, e, w) /\ e < d)
    BY <1>4 DEF Picked
  <2> PICK e : e = Picked(S, w)
    OBVIOUS
  <2>9. e \in D /\ \A d \in D \ {e} : TakenBefore(e, d, w) \/ (~TakenBefore(d, e, w) /\ e < d)
    <3>1. \E a \in D : \A d \in D \ {a} : TakenBefore(a, d, w) \/ (~TakenBefore(d, a, w) /\ a < d)
      BY <2>1, <2>6, <2>7, Zenon
    <3> QED BY ONLY <2>8, <3>1, e = Picked(S, w), Zenon
  <2>10. ASSUME NEW d \in D, NamesIt(d, w)
         PROVE  NamesIt(e, w) /\ events[e].from <= events[d].from
    <3>1. events[d].from \in Nat /\ events[e].from \in Nat
      BY <1>1, <2>1, <2>9
    <3>2. CASE d = e
      <4>1. events[e].from <= events[e].from
        BY ONLY <3>1
      <4> QED BY ONLY <2>10, <3>2, <4>1
    <3>3. CASE d # e
      <4>1. TakenBefore(e, d, w) \/ ~TakenBefore(d, e, w)
        BY ONLY <2>9, <3>3, d \in D
      <4>2. NamesIt(e, w) /\ (events[e].from < events[d].from \/ ~(events[d].from < events[e].from))
        BY ONLY <1>2, <2>10, <4>1, Zenon
      <4> QED BY ONLY <3>1, <4>2
    <3> QED BY <3>2, <3>3
  <2> QED BY <2>1, <2>9, <2>10
<1> QED BY <1>3, <1>4

-----------------------------------------------------------------------------
(* Every write gets a check read, and the right one.  Between two writes some *)
(* pairing of those to come with what is left is always possible: at first     *)
(* each with its own, and a write that takes another's leaves it a later one.  *)

\* Names and times tell.
Exact == ~setBack /\ \A w \in Claiming(events) : events[w].object \in Telling

Meant(w, c) ==
    Exact => events[c].object = events[w].object /\ events[w].from <= events[c].from

Own(O) ==
    /\ O \in [Claiming(events) -> Checking(events)]
    /\ \A w, v \in Claiming(events) : O[w] = O[v] => w = v
    /\ \A w \in Claiming(events) : O[w] < w /\ Meant(w, O[w])

\* The writes after m whose own check reads are not, and the check reads left of those.
Waiting(m, O) == {w \in Claiming(events) : ~(w <= m) /\ O[w] <= m}
Free(m, a) == {c \in Checking(events) : c <= m} \ {p[2] : p \in a}

Pairing(M, m, a, O) ==
    /\ M \in [Waiting(m, O) -> Free(m, a)]
    /\ \A w, v \in Waiting(m, O) : M[w] = M[v] => w = v
    /\ \A w \in Waiting(m, O) : Meant(w, M[w])

Paired(m, a, O) ==
    /\ \A p \in a : \E w \in Claiming(events), c \in Checking(events) :
           /\ p = <<w, c>> /\ w <= m /\ c <= m
           /\ Exact => events[c].object = events[w].object
    /\ \A p, q \in a : p[2] = q[2] => p = q
    /\ \A w \in Claiming(events) : w <= m => \E p \in a : p[1] = w
    /\ \E M : Pairing(M, m, a, O)

\* What the proofs need of the events alone.
LEMMA EventFacts ==
    ASSUME SummaryType
    PROVE  /\ Len(events) \in Nat /\ DOMAIN events = 1..Len(events)
           /\ \A i \in DOMAIN events : events[i].from \in Nat /\ events[i].to \in Nat
           /\ Checking(events) \subseteq DOMAIN events /\ Claiming(events) \subseteq DOMAIN events
           /\ \A i \in Checking(events) \cup Claiming(events) : i \in Nat
           /\ Checking(events) = Positions(IsCheckRead) /\ Claiming(events) = Positions(Asked)
           /\ Checking(events) \cap Claiming(events) = {}
<1>1. events \in Seq(SoundEvents)
  BY DEF SummaryType
<1>2. Len(events) \in Nat /\ DOMAIN events = 1..Len(events)
      /\ \A i \in DOMAIN events : events[i] \in EventShape
  BY <1>1, ElementOfSeq DEF SoundEvents
<1>3. \A i \in DOMAIN events : events[i].from \in Nat /\ events[i].to \in Nat
  BY <1>2 DEF EventShape
<1>4. Checking(events) = Positions(IsCheckRead) /\ Claiming(events) = Positions(Asked)
  BY <1>2 DEF Checking, Claiming, Positions
<1>5. Checking(events) \subseteq DOMAIN events /\ Claiming(events) \subseteq DOMAIN events
  BY <1>2 DEF Checking, Claiming
<1>6. Checking(events) \cap Claiming(events) = {}
  BY DEF Checking, Claiming, IsCheckRead, Asked, IsSummaryWrite
<1>7. \A i \in Checking(events) \cup Claiming(events) : i \in Nat
  BY ONLY <1>2, <1>5
<1> QED BY ONLY <1>2, <1>3, <1>4, <1>5, <1>6, <1>7

\* Each asked write's own check read is among those before it, and no other's.
LEMMA OwnChecks ==
    ASSUME SummaryType, FlowsInv, \A w \in Claiming(events) : flow[events[w].flow].made
    PROVE  \E O : Own(O)
<1>1. /\ Known(events, flow) /\ Once(events) /\ CheckFirst(events, flow)
      /\ ~setBack => Timed(events, flow, now)
  BY DEF FlowsInv, OfFlows
<1> PICK O : O = [w \in Claiming(events) |->
                     CHOOSE c \in Checking(events) : c < w /\ events[c].flow = events[w].flow]
  OBVIOUS
<1>2. ASSUME NEW w \in Claiming(events)
      PROVE  O[w] \in Checking(events) /\ O[w] < w /\ events[O[w]].flow = events[w].flow
  <2>1. \E c \in Checking(events) : c < w /\ events[c].flow = events[w].flow
    BY <1>1, Zenon DEF CheckFirst
  <2> PICK k : k = CHOOSE c \in Checking(events) : c < w /\ events[c].flow = events[w].flow
    OBVIOUS
  <2>2. k \in Checking(events) /\ k < w /\ events[k].flow = events[w].flow
    BY <2>1, Zenon
  <2>3. O[w] = k
    OBVIOUS
  <2> QED BY <2>2, <2>3
<1>3. ASSUME NEW w \in Claiming(events) PROVE Meant(w, O[w])
  <2> SUFFICES ASSUME Exact
               PROVE  events[O[w]].object = events[w].object /\ events[w].from <= events[O[w]].from
    BY DEF Meant
  <2> PICK c : c = O[w]
    OBVIOUS
  <2> PICK x : x = flow[events[w].flow]
    OBVIOUS
  <2>1. events[w].flow \in Flows /\ WriteOfFlow(events[w], x)
    BY <1>1, Zenon DEF Known
  <2>2. CheckOfFlow(events[c], x)
    BY <1>1, <1>2, Zenon DEF Known
  <2>3. events[c].object = x.object /\ events[c].from = x.asked /\ x.made
        /\ events[w].object = x.object /\ events[w].from = x.from
    BY ONLY <2>1, <2>2, Zenon DEF WriteOfFlow, CheckOfFlow
  <2>4. x.from <= x.asked
    <3>1. Timed(events, flow, now)
      BY <1>1 DEF Exact
    <3> QED BY ONLY <2>1, <2>3, <3>1, x = flow[events[w].flow], Zenon DEF Timed
  <2> QED BY ONLY <2>3, <2>4, c = O[w], Zenon
<1>4. ASSUME NEW w \in Claiming(events), NEW v \in Claiming(events), O[w] = O[v] PROVE w = v
  <2>1. events[w].flow = events[v].flow
    BY ONLY <1>2, <1>4
  <2> QED BY ONLY <1>1, <2>1, w \in Claiming(events), v \in Claiming(events), Zenon DEF Once
<1>5. O \in [Claiming(events) -> Checking(events)]
  BY <1>2
<1>6. Own(O)
  BY ONLY <1>2, <1>3, <1>4, <1>5, Zenon DEF Own
<1> QED BY <1>6

\* Where one of the check reads left is meant for a write, the one taken names the
\* write's object and is no later than any that is.
LEMMA PickedRight ==
    ASSUME SummaryType, FlowsInv, NEW n \in Claiming(events),
           NEW S, S \subseteq Checking(events), \A c \in S : c < n, NEW d \in S, Meant(n, d)
    PROVE  /\ Picked(S, n) \in S
           /\ Exact => /\ events[Picked(S, n)].object = events[n].object
                       /\ \A e \in S : Meant(n, e) => events[Picked(S, n)].from <= events[e].from
<1>1. /\ n \in DOMAIN events /\ S \subseteq DOMAIN events /\ S # {}
      /\ \A i \in DOMAIN events : events[i].from \in Nat /\ events[i].to \in Nat
  BY EventFacts
<1> PICK k : k = Picked(S, n)
  OBVIOUS
<1>2. /\ k \in S
      /\ \A e \in During(S, n) : NamesIt(e, n) =>
             NamesIt(k, n) /\ events[k].from <= events[e].from
  BY <1>1, PickedFacts
<1>3. ASSUME Exact, NEW e \in S, Meant(n, e)
      PROVE  NamesIt(k, n) /\ events[k].from <= events[e].from
  <2>1. events[e].object = events[n].object /\ events[n].from <= events[e].from
    BY <1>3 DEF Meant
  <2>2. Timed(events, flow, now) /\ events[n].object \in Telling
    BY <1>3 DEF Exact, FlowsInv, OfFlows
  <2>3. events[e].from <= events[n].to
    BY <2>2, Zenon DEF Timed
  <2>4. e \in During(S, n)
    BY ONLY <2>1, <2>3, e \in S DEF During
  <2>5. NamesIt(e, n)
    BY ONLY <2>1, <2>2 DEF NamesIt
  <2> QED BY ONLY <1>2, <2>4, <2>5
<1>4. ASSUME Exact PROVE events[k].object = events[n].object
  <2>1. NamesIt(k, n)
    BY <1>3, <1>4
  <2> QED BY <2>1 DEF NamesIt
<1> QED BY ONLY <1>2, <1>3, <1>4, k = Picked(S, n), Zenon

\* What is left for a write to take, as the code finds it.
LEMMA LeftFree ==
    ASSUME SummaryType, FlowsInv, NEW m \in Nat, NEW n \in Claiming(events), n = m + 1, NEW a
    PROVE  Unclaimed(n, {p[2] : p \in a}) = Free(m, a)
<1>1. /\ Checking(events) = Positions(IsCheckRead) /\ \A c \in Checking(events) : c \in Nat
  BY EventFacts
<1>2. \A c \in Checking(events) : events[c].service = Asks
  BY Zenon DEF FlowsInv, OfFlows, Known, CheckOfFlow
<1>3. events[n].service = Asks
  BY Zenon DEF FlowsInv, OfFlows, Known, WriteOfFlow
<1>4. \A c \in Checking(events) : c < n <=> c <= m
  BY ONLY <1>1, m \in Nat, n = m + 1
<1> PICK X : X = {p[2] : p \in a}
  OBVIOUS
<1>5. {c \in Checking(events) : c < n /\ events[c].service = events[n].service} \ X
      = {c \in Checking(events) : c <= m} \ X
  BY ONLY <1>2, <1>3, <1>4
<1> QED BY <1>1, <1>5 DEF Unclaimed, Free

\* A write takes one; who meant to take that one takes what the write would have.
LEMMA PairedTaken ==
    ASSUME SummaryType, FlowsInv, NEW O, Own(O), NEW m \in Nat, NEW n \in Claiming(events),
           n = m + 1, NEW a, Paired(m, a, O)
    PROVE  Paired(n, Claimed(n, a), O)
<1> PICK W, V, F : W = Waiting(m, O) /\ V = Waiting(n, O) /\ F = Free(m, a)
  OBVIOUS
<1> PICK P, C : P = Claiming(events) /\ C = Checking(events)
  OBVIOUS
<1>1. /\ P \cap C = {} /\ \A i \in P \cup C : i \in Nat
  BY EventFacts
<1>2. O \in [P -> C] /\ \A w \in P : O[w] < w
  BY Zenon DEF Own
<1>3. n \in W
  <2>1. n \in P /\ O[n] \in Nat /\ O[n] < n
    BY <1>1, <1>2
  <2>2. ~(n <= m) /\ O[n] <= m
    BY ONLY <2>1, m \in Nat, n = m + 1
  <2> QED BY <2>2 DEF Waiting
<1>4. V = W \ {n}
  <2>1. ASSUME NEW w \in P
        PROVE  (~(w <= n) /\ O[w] <= n) <=> (~(w <= m) /\ O[w] <= m /\ w # n)
    <3>1. w \in Nat /\ O[w] \in Nat /\ O[w] # n
      BY ONLY <1>1, <1>2, w \in P, n \in Claiming(events), P = Claiming(events)
    <3> QED BY ONLY <3>1, m \in Nat, n = m + 1
  <2> QED BY <2>1 DEF Waiting
<1>5. PICK M : Pairing(M, m, a, O)
  BY Zenon DEF Paired
<1>6. /\ M \in [W -> F] /\ \A w, v \in W : M[w] = M[v] => w = v
      /\ \A w \in W : Meant(w, M[w])
  BY <1>5, Zenon DEF Pairing
<1> PICK c : c = Picked(F, n)
  OBVIOUS
<1>7. /\ F \subseteq C /\ \A x \in F : x <= m
      /\ \A x \in F : \A p \in a : p[2] # x
  BY DEF Free
<1>8. M[n] \in F /\ Meant(n, M[n])
  BY ONLY <1>3, <1>6
<1>9. /\ c \in F
      /\ Exact => /\ events[c].object = events[n].object
                  /\ \A x \in F : Meant(n, x) => events[c].from <= events[x].from
  <2>1. F \subseteq Checking(events) /\ \A x \in F : x < n
    BY ONLY <1>1, <1>7, m \in Nat, n = m + 1, C = Checking(events)
  <2> QED BY <1>8, <2>1, PickedRight
<1>10. Claimed(n, a) = a \cup {<<n, c>>}
  <2>1. Unclaimed(n, {p[2] : p \in a}) = F
    BY LeftFree
  <2>2. F # {} /\ Asked(events[n])
    BY <1>8 DEF Claiming
  <2> QED BY <2>1, <2>2 DEF Claimed
<1> PICK b : b = a \cup {<<n, c>>}
  OBVIOUS
<1>11. ASSUME NEW x \in F, x # c PROVE x \in Free(n, b)
  <2>1. x \in C /\ x <= n
    BY ONLY <1>1, <1>7, x \in F, m \in Nat, n = m + 1
  <2>2. \A p \in b : p[2] # x
    BY ONLY <1>7, <1>11, b = a \cup {<<n, c>>}
  <2> QED BY <2>1, <2>2 DEF Free
<1> PICK K : K = [w \in V |-> IF M[w] = c THEN M[n] ELSE M[w]]
  OBVIOUS
<1>12. ASSUME NEW w \in V
       PROVE  K[w] \in Free(n, b) /\ Meant(w, K[w]) /\ w \in W /\ w # n
  <2>1. w \in W /\ w # n /\ M[w] \in F /\ M[w] # M[n] /\ Meant(w, M[w])
    BY ONLY <1>3, <1>4, <1>6, w \in V
  <2>2. CASE M[w] = c
    <3>1. K[w] = M[n] /\ M[n] # c
      BY <2>1, <2>2
    <3>2. Meant(w, M[n])
      <4> SUFFICES ASSUME Exact
                   PROVE  events[M[n]].object = events[w].object /\ events[w].from <= events[M[n]].from
        BY DEF Meant
      <4>1. events[M[n]].object = events[n].object /\ events[c].object = events[n].object
            /\ events[c].object = events[w].object
        BY <1>8, <1>9, <2>1, <2>2 DEF Meant
      <4>2. events[w].from <= events[c].from /\ events[c].from <= events[M[n]].from
        BY <1>8, <1>9, <2>1, <2>2 DEF Meant
      <4>3. events[w].from \in Nat /\ events[c].from \in Nat /\ events[M[n]].from \in Nat
        <5>1. w \in DOMAIN events
          BY <2>1, EventFacts DEF Waiting
        <5>2. c \in DOMAIN events /\ M[n] \in DOMAIN events
          BY <1>7, <1>8, <1>9, EventFacts
        <5> QED BY <5>1, <5>2, EventFacts
      <4> QED BY ONLY <4>1, <4>2, <4>3
    <3> QED BY ONLY <1>8, <1>11, <2>1, <3>1, <3>2
  <2>3. CASE M[w] # c
    <3>1. K[w] = M[w]
      BY <2>3
    <3> QED BY ONLY <1>11, <2>1, <2>3, <3>1
  <2> QED BY <2>2, <2>3
<1>13. ASSUME NEW w \in V, NEW v \in V, K[w] = K[v] PROVE w = v
  <2>1. /\ w \in W /\ w # n /\ v \in W /\ v # n
        /\ K[w] = IF M[w] = c THEN M[n] ELSE M[w]
        /\ K[v] = IF M[v] = c THEN M[n] ELSE M[v]
    BY <1>12
  <2> QED BY ONLY <1>3, <1>6, <1>13, <2>1
<1>14. \E L : Pairing(L, n, b, O)
  <2>1. K \in [V -> Free(n, b)]
    BY ONLY <1>12, K = [w \in V |-> IF M[w] = c THEN M[n] ELSE M[w]]
  <2>2. Pairing(K, n, b, O)
    BY ONLY <2>1, <1>12, <1>13, V = Waiting(n, O), Zenon DEF Pairing
  <2> QED BY <2>2
<1>15. ASSUME NEW p \in b
       PROVE  \E w \in Claiming(events), x \in Checking(events) :
                  /\ p = <<w, x>> /\ w <= n /\ x <= n
                  /\ Exact => events[x].object = events[w].object
  <2>1. CASE p \in a
    <3>1. PICK w, x : /\ w \in P /\ x \in C /\ p = <<w, x>> /\ w <= m /\ x <= m
                      /\ Exact => events[x].object = events[w].object
      BY <2>1, Zenon DEF Paired
    <3>2. w <= n /\ x <= n
      BY ONLY <1>1, <3>1, m \in Nat, n = m + 1
    <3> QED BY ONLY <3>1, <3>2, P = Claiming(events) /\ C = Checking(events), Zenon
  <2>2. CASE p = <<n, c>>
    <3>1. c \in C /\ c <= n /\ n <= n
      BY ONLY <1>1, <1>7, <1>9, m \in Nat, n = m + 1
    <3> QED BY <1>9, <2>2, <3>1, Zenon
  <2> QED BY <2>1, <2>2
<1>16. ASSUME NEW p \in b, NEW q \in b, p[2] = q[2] PROVE p = q
  <2>1. \A s \in a : s[2] # c
    BY <1>7, <1>9
  <2>2. \A s, t \in a : s[2] = t[2] => s = t
    BY Zenon DEF Paired
  <2> QED BY ONLY <1>16, <2>1, <2>2, b = a \cup {<<n, c>>}
<1>17. ASSUME NEW w \in Claiming(events), w <= n PROVE \E p \in b : p[1] = w
  <2>1. CASE w = n
    <3>1. <<n, c>> \in b /\ <<n, c>>[1] = w
      BY ONLY <2>1, b = a \cup {<<n, c>>}
    <3> QED BY ONLY <3>1, Zenon
  <2>2. CASE w # n
    <3>1. w <= m
      BY <1>1, <1>17, <2>2
    <3>2. \E p \in a : p[1] = w
      BY <3>1, Zenon DEF Paired
    <3> QED BY <3>2
  <2> QED BY <2>1, <2>2
<1>18. Paired(n, b, O)
  BY ONLY <1>14, <1>15, <1>16, <1>17, Zenon DEF Paired
<1> QED BY <1>10, <1>18

\* Any other exchange may be the check read of a write to come.
LEMMA PairedOther ==
    ASSUME SummaryType, FlowsInv, NEW O, Own(O), NEW m \in Nat, NEW n, n \notin Claiming(events),
           n = m + 1, n \in DOMAIN events, NEW a, Paired(m, a, O)
    PROVE  Paired(n, Claimed(n, a), O)
<1> PICK W, V, F : W = Waiting(m, O) /\ V = Waiting(n, O) /\ F = Free(m, a)
  OBVIOUS
<1> PICK P, C : P = Claiming(events) /\ C = Checking(events)
  OBVIOUS
<1>1. \A i \in P \cup C : i \in Nat
  BY EventFacts
<1>2. /\ O \in [P -> C] /\ \A w \in P : O[w] < w /\ Meant(w, O[w])
      /\ \A w, v \in P : O[w] = O[v] => w = v
  BY Zenon DEF Own
<1>3. Claimed(n, a) = a
  <2>1. ~Asked(events[n])
    BY EventFacts DEF Claiming
  <2> QED BY <2>1 DEF Claimed
<1>4. PICK M : Pairing(M, m, a, O)
  BY Zenon DEF Paired
<1>5. /\ M \in [W -> F] /\ \A w, v \in W : M[w] = M[v] => w = v
      /\ \A w \in W : Meant(w, M[w])
  BY <1>4, Zenon DEF Pairing
<1>6. /\ \A p \in a : p[2] \in Nat /\ p[2] <= m
      /\ \A p \in a : \E w \in Claiming(events), x \in Checking(events) :
             /\ p = <<w, x>> /\ w <= n /\ x <= n
             /\ Exact => events[x].object = events[w].object
  <2>1. ASSUME NEW p \in a
        PROVE  /\ p[2] \in Nat /\ p[2] <= m
               /\ \E w \in Claiming(events), x \in Checking(events) :
                      /\ p = <<w, x>> /\ w <= n /\ x <= n
                      /\ Exact => events[x].object = events[w].object
    <3>1. PICK w, x : /\ w \in P /\ x \in C /\ p = <<w, x>> /\ w <= m /\ x <= m
                      /\ Exact => events[x].object = events[w].object
      BY Zenon DEF Paired
    <3>2. w <= n /\ x <= n
      BY ONLY <1>1, <3>1, m \in Nat, n = m + 1
    <3>3. p[2] = x /\ x \in Nat
      BY ONLY <1>1, <3>1
    <3> QED BY ONLY <3>1, <3>2, <3>3, P = Claiming(events) /\ C = Checking(events), Zenon
  <2> QED BY <2>1
<1>7. F \subseteq Free(n, a) /\ \A x \in F : x # n
  <2>1. \A x \in C : x <= m => x <= n /\ x # n
    BY <1>1
  <2> QED BY <2>1 DEF Free
<1>8. n \in C => n \in Free(n, a)
  <2>1. \A p \in a : p[2] # n
    BY <1>6
  <2> QED BY <2>1 DEF Free
<1> PICK K : K = [w \in V |-> IF O[w] = n THEN n ELSE M[w]]
  OBVIOUS
<1>9. ASSUME NEW w \in V PROVE w \in P /\ (O[w] # n => w \in W)
  <2>1. w \in P /\ ~(w <= n) /\ O[w] <= n /\ O[w] \in C
    BY <1>2 DEF Waiting
  <2>2. w \in Nat /\ O[w] \in Nat
    BY ONLY <1>1, <2>1
  <2>3. O[w] # n => ~(w <= m) /\ O[w] <= m
    BY ONLY <2>1, <2>2, m \in Nat, n = m + 1
  <2> QED BY <2>1, <2>3 DEF Waiting
<1>10. ASSUME NEW w \in V PROVE K[w] \in Free(n, a) /\ Meant(w, K[w])
  <2>1. CASE O[w] = n
    <3>1. K[w] = n /\ n \in C /\ Meant(w, n)
      BY <1>2, <1>9, <2>1
    <3> QED BY ONLY <1>8, <3>1
  <2>2. CASE O[w] # n
    <3>1. K[w] = M[w] /\ w \in W
      BY <1>9, <2>2
    <3> QED BY ONLY <1>5, <1>7, <3>1
  <2> QED BY <2>1, <2>2
<1>11. ASSUME NEW w \in V, NEW v \in V, K[w] = K[v] PROVE w = v
  <2>1. K[w] = (IF O[w] = n THEN n ELSE M[w]) /\ K[v] = (IF O[v] = n THEN n ELSE M[v])
    OBVIOUS
  <2>2. w \in P /\ v \in P /\ (O[w] # n => w \in W) /\ (O[v] # n => v \in W)
    BY <1>9
  <2>3. (w \in W => M[w] # n) /\ (v \in W => M[v] # n)
    BY ONLY <1>5, <1>7
  <2> QED BY ONLY <1>2, <1>5, <1>11, <2>1, <2>2, <2>3
<1>12. \E L : Pairing(L, n, a, O)
  <2>1. K \in [V -> Free(n, a)]
    BY ONLY <1>10, K = [w \in V |-> IF O[w] = n THEN n ELSE M[w]]
  <2>2. Pairing(K, n, a, O)
    BY ONLY <2>1, <1>10, <1>11, V = Waiting(n, O), Zenon DEF Pairing
  <2> QED BY <2>2
<1>13. ASSUME NEW w \in Claiming(events), w <= n PROVE \E p \in a : p[1] = w
  <2>1. w <= m
    BY <1>1, <1>13
  <2> QED BY <2>1, Zenon DEF Paired
<1>14. \A p, q \in a : p[2] = q[2] => p = q
  BY Zenon DEF Paired
<1>15. Paired(n, a, O)
  BY ONLY <1>6, <1>12, <1>13, <1>14, Zenon DEF Paired
<1> QED BY <1>3, <1>15


\* When every write that says it was checked has a check read of its own in the
\* run, each is shown with one, and the right one.
LEMMA ChecksPaired ==
    ASSUME SummaryType, FlowsInv
    PROVE  ChecksAreTheirs
<1> SUFFICES ASSUME \A w \in Claiming(events) : flow[events[w].flow].made
             PROVE  /\ \A w \in Claiming(events) : \E p \in CheckReads : p[1] = w
                    /\ \A p, q \in CheckReads : p[2] = q[2] => p = q
                    /\ Exact => \A p \in CheckReads : events[p[2]].object = events[p[1]].object
  <2>1. Claiming(events) = Positions(Asked)
    BY EventFacts
  <2> QED BY <2>1 DEF ChecksAreTheirs, Exact
<1>1. PICK O : Own(O)
  BY OwnChecks
<1> PICK N : N = Len(events)
  OBVIOUS
<1>2. N \in Nat /\ DOMAIN events = 1..N /\ \A i \in Checking(events) \cup Claiming(events) : i \in 1..N
  BY EventFacts
<1>3. PICK g : /\ g[0] = {} /\ \A i \in 1..N : g[i] = Claimed(i, g[i - 1])
               /\ CheckReads = g[N]
  BY <1>2, PairsRun, Zenon
<1> DEFINE T == {m \in Nat : m <= N => Paired(m, g[m], O)}
<1>4. 0 \in T
  <2>1. \A i \in Checking(events) \cup Claiming(events) : i \in Nat /\ ~(i <= 0)
    BY ONLY <1>2
  <2>2. O \in [Claiming(events) -> Checking(events)]
    BY <1>1, Zenon DEF Own
  <2>3. Waiting(0, O) = {}
    BY <2>1, <2>2 DEF Waiting
  <2>4. \E M : Pairing(M, 0, {}, O)
    <3>1. [w \in {} |-> 0] \in [{} -> Free(0, {})]
      OBVIOUS
    <3>2. Pairing([w \in {} |-> 0], 0, {}, O)
      BY <2>3, <3>1 DEF Pairing
    <3> QED BY <3>2
  <2>5. \A w \in Claiming(events) : ~(w <= 0)
    BY ONLY <2>1
  <2>6. Paired(0, {}, O)
    BY ONLY <2>4, <2>5 DEF Paired
  <2> QED BY <1>3, <2>6
<1>5. ASSUME NEW m \in T \cap Nat PROVE m + 1 \in T
  <2> PICK n : n = m + 1
    OBVIOUS
  <2>1. n \in Nat /\ n - 1 = m
    BY n = m + 1
  <2> SUFFICES ASSUME n <= N PROVE Paired(n, g[n], O)
    BY <2>1
  <2>2. n \in 1..N /\ m <= N
    BY <1>2, <2>1
  <2>3. Paired(m, g[m], O)
    BY <2>2
  <2>4. g[n] = Claimed(n, g[m])
    BY <1>3, <2>1, <2>2
  <2>5. CASE n \in Claiming(events)
    <3>1. Paired(n, Claimed(n, g[m]), O)
      BY <1>1, <2>3, <2>5, PairedTaken
    <3> QED BY <2>4, <3>1
  <2>6. CASE n \notin Claiming(events)
    <3>1. Paired(n, Claimed(n, g[m]), O)
      BY <1>1, <1>2, <2>2, <2>3, <2>6, PairedOther
    <3> QED BY <2>4, <3>1
  <2> QED BY <2>5, <2>6
<1> HIDE DEF T
<1>6. N \in T
  BY <1>2, <1>4, <1>5, Induction
<1>7. Paired(N, CheckReads, O)
  <2>1. N <= N
    BY ONLY <1>2
  <2> QED BY <1>3, <1>6, <2>1 DEF T
<1>8. ASSUME NEW p \in CheckReads, Exact PROVE events[p[2]].object = events[p[1]].object
  <2>1. PICK w, c : p = <<w, c>> /\ (Exact => events[c].object = events[w].object)
    BY <1>7, Zenon DEF Paired
  <2> QED BY ONLY <1>8, <2>1
<1>9. \A w \in Claiming(events) : \E p \in CheckReads : p[1] = w
  <2>1. \A w \in Claiming(events) : w <= N
    BY ONLY <1>2
  <2> QED BY <1>7, <2>1, Zenon DEF Paired
<1>10. \A p, q \in CheckReads : p[2] = q[2] => p = q
  BY <1>7, Zenon DEF Paired
<1> QED BY <1>8, <1>9, <1>10

\* Each flow's check read and write are recorded once and in order, with the times
\* and the object they had, whatever lies between (_record_issued, record).
THEOREM FlowsInvariant == ReplaysSpec => []FlowsInv
<1>1. ReplaysInit => FlowsInv
  <2> SUFFICES ASSUME ReplaysInit PROVE FlowsInv
    OBVIOUS
  <2>1. events = <<>> /\ flow = [f \in Flows |-> NotBegun] /\ now = 0
    BY DEF ReplaysInit, SummaryInit
  <2>2. Checking(events) = {} /\ Claiming(events) = {}
    BY <2>1 DEF Checking, Claiming
  <2>3. \A f \in Flows : flow[f].pc = "new" /\ flow[f].made = FALSE /\ flow[f].from = 0
    BY <2>1 DEF NotBegun
  <2>4. Known(events, flow) /\ Once(events)
    BY ONLY <2>2 DEF Known, Once
  <2>5. CheckFirst(events, flow)
    BY ONLY <2>2, <2>3 DEF CheckFirst
  <2>6. Timed(events, flow, now)
    BY ONLY <2>1, <2>2, <2>3 DEF Timed
  <2> QED BY <2>4, <2>5, <2>6 DEF FlowsInv, OfFlows
<1>2. SummaryInv /\ FlowsInv /\ [ReplaysNext]_<<part, vars, summaryVars, compareVars>> => FlowsInv'
  <2> SUFFICES ASSUME SummaryInv, FlowsInv,
                      [ReplaysNext]_<<part, vars, summaryVars, compareVars>>
               PROVE  FlowsInv'
    OBVIOUS
  <2>1. CASE SummaryNext
    BY <2>1, FlowsStep DEF SummaryInv
  <2>2. CASE UNCHANGED summaryVars
    <3>1. UNCHANGED <<events, flow, now, setBack>>
      BY <2>2 DEF summaryVars
    <3> QED BY <3>1 DEF FlowsInv, OfFlows, Known, Once, CheckFirst, Timed, Checking, Claiming
  <2> QED BY <2>1, <2>2 DEF ReplaysNext
<1> QED BY <1>1, <1>2, SummaryInvariant, PTL DEF ReplaysSpec

\* A summary puts irimi's check reads and the agent's reads that show writes under
\* the writes they belong to, however many writes overlap (_check_reads, build).
THEOREM ReadsAreUnderTheirWrites == ReplaysSpec => []ReadsUnderTheirWrites
<1>1. SummaryInv /\ FlowsInv => ReadsUnderTheirWrites
  BY ChecksPaired, ReadsFiled DEF SummaryInv, ReadsUnderTheirWrites
<1> QED BY <1>1, SummaryInvariant, FlowsInvariant, PTL

-----------------------------------------------------------------------------
(* The rows of a comparison: what a stretch's rows are when its actions are   *)
(* lined up, and that rows of stretches beside each other are those of both.  *)

Marks == {"same", "changed", "cut", "only_a", "only_b"}
RowSet == [mark : Marks, a : Nat, b : Nat]

\* A stretch that is not turned round.
Proper(s) == s.a <= s.b /\ s.c <= s.d

\* A row is of actions of the stretch, and its mark says which.
RowFits(x, y, s, r) ==
    /\ r.a # 0 => s.a <= r.a /\ r.a < s.b
    /\ r.b # 0 => s.c <= r.b /\ r.b < s.d
    /\ r.mark = "only_a" => r.a # 0 /\ r.b = 0
    /\ r.mark = "only_b" => r.a = 0 /\ r.b # 0
    /\ r.mark \notin {"only_a", "only_b"} => r.a # 0 /\ r.b # 0 /\ SameKey(x[r.a], y[r.b])
    /\ r.mark = "same" => SameData(x[r.a], y[r.b])

\* The rows have every action of the stretch, in order.
HasAll(s, rows) ==
    /\ \A n \in Nat : s.a <= n /\ n < s.b => \E i \in DOMAIN rows : rows[i].a = n
    /\ \A n \in Nat : s.c <= n /\ n < s.d => \E i \in DOMAIN rows : rows[i].b = n
    /\ \A i, j \in DOMAIN rows : i < j /\ rows[i].a # 0 /\ rows[j].a # 0 => rows[i].a < rows[j].a
    /\ \A i, j \in DOMAIN rows : i < j /\ rows[i].b # 0 /\ rows[j].b # 0 => rows[i].b < rows[j].b

PairRow(r) == r.a # 0 /\ r.b # 0

\* Between actions of one key that only one run has there is a pair.
Parted(x, y, rows) ==
    \A i, j \in DOMAIN rows :
        rows[i].mark = "only_a" /\ rows[j].mark = "only_b" /\ SameKey(x[rows[i].a], y[rows[j].b]) =>
            \E k \in DOMAIN rows : PairRow(rows[k]) /\ ((i < k /\ k < j) \/ (j < k /\ k < i))

\* Where all rows are same, so are the actions.
AllSame(x, y, s, rows) ==
    (\A i \in DOMAIN rows : rows[i].mark = "same") =>
        /\ s.b - s.a = s.d - s.c
        /\ \A k \in Nat : s.a <= k /\ k < s.b => SameData(x[k], y[s.c + (k - s.a)])

LinedUp(x, y, s, rows) ==
    /\ rows \in Seq(RowSet)
    /\ \A i \in DOMAIN rows : RowFits(x, y, s, rows[i])
    /\ HasAll(s, rows) /\ Parted(x, y, rows) /\ AllSame(x, y, s, rows)

\* A stretch, its bounds being positions.
IsStretch(s) == s.a \in Nat /\ s.b \in Nat /\ s.c \in Nat /\ s.d \in Nat /\ s.a # 0 /\ s.c # 0

\* s and then t.
Adjoining(s, t, st) ==
    /\ s.b = t.a /\ s.d = t.c
    /\ st.a = s.a /\ st.b = t.b /\ st.c = s.c /\ st.d = t.d

\* What joining two sequences of rows does.
LEMMA Concat ==
    ASSUME NEW S, NEW p \in Seq(S), NEW q \in Seq(S)
    PROVE  /\ p \o q \in Seq(S)
           /\ Len(p) \in Nat /\ Len(q) \in Nat
           /\ DOMAIN p = 1..Len(p) /\ DOMAIN q = 1..Len(q) /\ DOMAIN (p \o q) = 1..(Len(p) + Len(q))
           /\ \A i \in 1..Len(p) : i \in DOMAIN (p \o q) /\ (p \o q)[i] = p[i]
           /\ \A i \in 1..Len(q) : Len(p) + i \in DOMAIN (p \o q) /\ (p \o q)[Len(p) + i] = q[i]
           /\ \A i \in DOMAIN (p \o q) :
                  \/ i \in 1..Len(p)
                  \/ \E j \in 1..Len(q) : i = Len(p) + j
<1> PICK r, n, m : r = p \o q /\ n = Len(p) /\ m = Len(q)
  OBVIOUS
<1>1. n \in Nat /\ m \in Nat /\ DOMAIN p = 1..n /\ DOMAIN q = 1..m /\ DOMAIN r = 1..(n + m) /\ r \in Seq(S)
  OBVIOUS
<1>2. \A i \in 1..n : i \in DOMAIN r /\ r[i] = p[i]
  BY <1>1
<1>3. \A i \in 1..m : n + i \in DOMAIN r /\ r[n + i] = q[i]
  BY <1>1
<1>4. ASSUME NEW i \in 1..(n + m), i \notin 1..n PROVE \E j \in 1..m : i = n + j
  <2>1. i - n \in 1..m /\ i = n + (i - n)
    BY ONLY <1>1, <1>4, i \in 1..(n + m)
  <2> QED BY ONLY <2>1
<1> QED BY ONLY <1>1, <1>2, <1>3, <1>4, r = p \o q, n = Len(p), m = Len(q)

\* The rows of two stretches beside each other are those of both, if no row that
\* pairs nothing meets another where they join.
LEMMA RowsJoined ==
    ASSUME NEW x, NEW y, NEW s, NEW t, NEW st, IsStretch(s), IsStretch(t), Proper(s), Proper(t),
           Adjoining(s, t, st), NEW p, NEW q, LinedUp(x, y, s, p), LinedUp(x, y, t, q),
           \/ \A j \in DOMAIN q : PairRow(q[j])
           \/ Len(p) # 0 /\ PairRow(p[Len(p)])
    PROVE  LinedUp(x, y, st, p \o q)
<1> PICK r, n, m : r = p \o q /\ n = Len(p) /\ m = Len(q)
  OBVIOUS
<1>1. p \in Seq(RowSet) /\ q \in Seq(RowSet)
  BY DEF LinedUp
<1>2. /\ r \in Seq(RowSet) /\ n \in Nat /\ m \in Nat
      /\ DOMAIN p = 1..n /\ DOMAIN q = 1..m /\ DOMAIN r = 1..(n + m)
      /\ \A i \in 1..n : i \in DOMAIN r /\ r[i] = p[i]
      /\ \A i \in 1..m : n + i \in DOMAIN r /\ r[n + i] = q[i]
      /\ \A i \in DOMAIN r : i \in 1..n \/ \E j \in 1..m : i = n + j
  BY <1>1, Concat
<1>3. /\ \A i \in 1..n : p[i] \in RowSet /\ RowFits(x, y, s, p[i])
      /\ \A i \in 1..m : q[i] \in RowSet /\ RowFits(x, y, t, q[i])
  <2>1. (\A i \in 1..n : p[i] \in RowSet) /\ (\A i \in 1..m : q[i] \in RowSet)
    BY <1>1, <1>2
  <2> QED BY <1>2, <2>1 DEF LinedUp
<1>4. /\ s.a \in Nat /\ s.b \in Nat /\ s.c \in Nat /\ s.d \in Nat /\ t.b \in Nat /\ t.d \in Nat
      /\ t.a = s.b /\ t.c = s.d /\ st.a = s.a /\ st.b = t.b /\ st.c = s.c /\ st.d = t.d
      /\ s.a <= s.b /\ s.b <= t.b /\ s.c <= s.d /\ s.d <= t.d /\ s.a # 0 /\ s.c # 0
  BY DEF IsStretch, Proper, Adjoining
<1>5. ASSUME NEW w \in RowSet, RowFits(x, y, s, w) \/ RowFits(x, y, t, w)
      PROVE  RowFits(x, y, st, w)
  <2>1. w.a \in Nat /\ w.b \in Nat
    BY DEF RowSet
  <2>2. /\ w.a # 0 => st.a <= w.a /\ w.a < st.b
        /\ w.b # 0 => st.c <= w.b /\ w.b < st.d
    BY ONLY <1>4, <1>5, <2>1 DEF RowFits
  <2> QED BY ONLY <1>5, <2>2 DEF RowFits
<1>6. \A i \in DOMAIN r : RowFits(x, y, st, r[i])
  BY ONLY <1>2, <1>3, <1>5
<1>7. HasAll(st, r)
  <2>1. HasAll(s, p) /\ HasAll(t, q)
    BY DEF LinedUp
  <2>2. ASSUME NEW k \in Nat, st.a <= k, k < st.b PROVE \E i \in DOMAIN r : r[i].a = k
    <3>1. (s.a <= k /\ k < s.b) \/ (t.a <= k /\ k < t.b)
      BY ONLY <1>4, <2>2
    <3>2. (\E i \in 1..n : p[i].a = k) \/ (\E i \in 1..m : q[i].a = k)
      BY ONLY <1>2, <2>1, <3>1, k \in Nat DEF HasAll
    <3> QED BY ONLY <1>2, <3>2
  <2>3. ASSUME NEW k \in Nat, st.c <= k, k < st.d PROVE \E i \in DOMAIN r : r[i].b = k
    <3>1. (s.c <= k /\ k < s.d) \/ (t.c <= k /\ k < t.d)
      BY ONLY <1>4, <2>3
    <3>2. (\E i \in 1..n : p[i].b = k) \/ (\E i \in 1..m : q[i].b = k)
      BY ONLY <1>2, <2>1, <3>1, k \in Nat DEF HasAll
    <3> QED BY ONLY <1>2, <3>2
  <2>4. ASSUME NEW i \in 1..n, NEW j \in 1..m
        PROVE  /\ p[i].a # 0 /\ q[j].a # 0 => p[i].a < q[j].a
               /\ p[i].b # 0 /\ q[j].b # 0 => p[i].b < q[j].b
    <3>1. /\ p[i].a \in Nat /\ p[i].b \in Nat /\ q[j].a \in Nat /\ q[j].b \in Nat
          /\ p[i].a # 0 => p[i].a < s.b
          /\ p[i].b # 0 => p[i].b < s.d
          /\ q[j].a # 0 => t.a <= q[j].a
          /\ q[j].b # 0 => t.c <= q[j].b
      BY ONLY <1>3, i \in 1..n, j \in 1..m DEF RowSet, RowFits
    <3> QED BY ONLY <1>4, <3>1
  <2>5. ASSUME NEW i \in DOMAIN r, NEW j \in DOMAIN r, i < j
        PROVE  /\ r[i].a # 0 /\ r[j].a # 0 => r[i].a < r[j].a
               /\ r[i].b # 0 /\ r[j].b # 0 => r[i].b < r[j].b
    <3>1. CASE i \in 1..n /\ j \in 1..n
      BY ONLY <1>2, <2>1, <2>5, <3>1 DEF HasAll
    <3>2. CASE i \in 1..n /\ j \notin 1..n
      <4>1. PICK k : k \in 1..m /\ j = n + k
        BY ONLY <1>2, <3>2, j \in DOMAIN r
      <4>2. r[i] = p[i] /\ r[j] = q[k]
        BY ONLY <1>2, <3>2, <4>1
      <4> QED BY ONLY <2>4, <3>2, <4>1, <4>2
    <3>3. CASE i \notin 1..n
      <4>1. PICK k : k \in 1..m /\ i = n + k
        BY ONLY <1>2, <3>3, i \in DOMAIN r
      <4>2. PICK l : l \in 1..m /\ j = n + l
        <5>1. j \notin 1..n
          BY ONLY <1>2, <2>5, <4>1, j \in DOMAIN r
        <5> QED BY ONLY <1>2, <5>1, j \in DOMAIN r
      <4>3. k < l /\ r[i] = q[k] /\ r[j] = q[l]
        BY ONLY <1>2, <2>5, <4>1, <4>2
      <4>4. /\ q[k].a # 0 /\ q[l].a # 0 => q[k].a < q[l].a
            /\ q[k].b # 0 /\ q[l].b # 0 => q[k].b < q[l].b
        BY ONLY <1>2, <2>1, <4>1, <4>2, <4>3 DEF HasAll
      <4> QED BY ONLY <4>3, <4>4
    <3> QED BY ONLY <3>1, <3>2, <3>3
  <2> QED BY ONLY <2>2, <2>3, <2>5 DEF HasAll
<1>8. Parted(x, y, r)
  <2>1. Parted(x, y, p) /\ Parted(x, y, q)
    BY DEF LinedUp
  <2>2. ASSUME NEW i \in DOMAIN r, NEW j \in DOMAIN r, r[i].mark = "only_a", r[j].mark = "only_b",
               SameKey(x[r[i].a], y[r[j].b])
        PROVE  \E k \in DOMAIN r : PairRow(r[k]) /\ ((i < k /\ k < j) \/ (j < k /\ k < i))
    <3> USE DEF PairRow
    <3>1. CASE i \in 1..n /\ j \in 1..n
      <4>1. PICK k \in 1..n : PairRow(p[k]) /\ ((i < k /\ k < j) \/ (j < k /\ k < i))
        BY ONLY <1>2, <2>1, <2>2, <3>1 DEF Parted
      <4> QED BY ONLY <1>2, <4>1, k \in 1..n
    <3>2. CASE i \notin 1..n /\ j \notin 1..n
      <4>1. PICK i1, j1 : i1 \in 1..m /\ i = n + i1 /\ j1 \in 1..m /\ j = n + j1
        BY ONLY <1>2, <3>2, i \in DOMAIN r, j \in DOMAIN r
      <4>2. r[i] = q[i1] /\ r[j] = q[j1]
        BY ONLY <1>2, <4>1
      <4>3. PICK k : k \in 1..m /\ PairRow(q[k]) /\ ((i1 < k /\ k < j1) \/ (j1 < k /\ k < i1))
        BY ONLY <1>2, <2>1, <2>2, <4>1, <4>2 DEF Parted
      <4>4. n + k \in DOMAIN r /\ r[n + k] = q[k] /\ ((i < n + k /\ n + k < j) \/ (j < n + k /\ n + k < i))
        BY ONLY <1>2, <4>1, <4>3
      <4> QED BY ONLY <4>3, <4>4
    <3>3. CASE ~(i \in 1..n <=> j \in 1..n)
      <4>1. ~PairRow(r[i]) /\ ~PairRow(r[j])
        BY <1>6, <2>2 DEF RowFits
      <4>2. PICK u, v : u \in 1..n /\ v \in 1..m /\ ((i = u /\ j = n + v) \/ (j = u /\ i = n + v))
        BY ONLY <1>2, <3>3, i \in DOMAIN r, j \in DOMAIN r
      <4>3. ~PairRow(p[u]) /\ ~PairRow(q[v])
        BY ONLY <1>2, <4>1, <4>2
      <4>4. n # 0 /\ PairRow(p[n])
        BY <1>2, <4>2, <4>3
      <4>5. u # n /\ n \in 1..n
        BY ONLY <1>2, <4>2, <4>3, <4>4
      <4>6. n \in DOMAIN r /\ PairRow(r[n]) /\ u < n /\ n < n + v
        BY ONLY <1>2, <4>2, <4>4, <4>5
      <4> QED BY ONLY <4>2, <4>6
    <3> QED BY ONLY <3>1, <3>2, <3>3
  <2> QED BY ONLY <2>2 DEF Parted
<1>9. AllSame(x, y, st, r)
  <2>0. SUFFICES ASSUME \A i \in DOMAIN r : r[i].mark = "same"
               PROVE  /\ st.b - st.a = st.d - st.c
                      /\ \A k \in Nat : st.a <= k /\ k < st.b => SameData(x[k], y[st.c + (k - st.a)])
    BY DEF AllSame
  <2>1. (\A i \in DOMAIN p : p[i].mark = "same") /\ (\A i \in DOMAIN q : q[i].mark = "same")
    <3>1. \A i \in 1..n : p[i].mark = "same"
      BY ONLY <1>2, <2>0
    <3>2. \A i \in 1..m : q[i].mark = "same"
      BY ONLY <1>2, <2>0
    <3> QED BY ONLY <1>2, <3>1, <3>2
  <2>2. /\ s.b - s.a = s.d - s.c /\ t.b - t.a = t.d - t.c
        /\ \A k \in Nat : s.a <= k /\ k < s.b => SameData(x[k], y[s.c + (k - s.a)])
        /\ \A k \in Nat : t.a <= k /\ k < t.b => SameData(x[k], y[t.c + (k - t.a)])
    BY <2>1 DEF LinedUp, AllSame
  <2>3. st.b - st.a = st.d - st.c
    BY ONLY <1>4, <2>2
  <2>4. ASSUME NEW k \in Nat, st.a <= k, k < st.b
        PROVE  SameData(x[k], y[st.c + (k - st.a)])
    <3>1. CASE k < s.b
      BY ONLY <1>4, <2>2, <2>4, <3>1
    <3>2. CASE ~(k < s.b)
      <4>1. t.a <= k /\ k < t.b
        BY ONLY <1>4, <2>4, <3>2
      <4>2. t.c + (k - t.a) = st.c + (k - st.a)
        BY ONLY <1>4, <2>2, k \in Nat
      <4> QED BY ONLY <2>2, <4>1, <4>2, k \in Nat
    <3> QED BY ONLY <3>1, <3>2
  <2> QED BY ONLY <2>3, <2>4
<1> QED BY ONLY <1>2, <1>6, <1>7, <1>8, <1>9, r = p \o q DEF LinedUp

\* The stretch of a block.
Middle(m) == [a |-> m[1], b |-> m[1] + m[3], c |-> m[2], d |-> m[2] + m[3]]

\* A block, by the numbers it is made of.
Fitting(s, m, equal) ==
    /\ m[1] \in Nat /\ m[2] \in Nat /\ m[3] \in Nat /\ m[3] # 0
    /\ s.a <= m[1] /\ m[1] < s.b /\ s.c <= m[2] /\ m[2] < s.d
    /\ m[1] + m[3] <= s.b /\ m[2] + m[3] <= s.d
    /\ \A k \in Nat : k < m[3] => <<m[1] + k, m[2] + k>> \in equal

\* A block of a stretch lies in it, and its pairs count as equal.
LEMMA BlockFits ==
    ASSUME NEW s, IsStretch(s), NEW equal, NEW m \in Blocks(s, equal)
    PROVE  Fitting(s, m, equal)
<1>1. /\ m \in (s.a..s.b - 1) \X (s.c..s.d - 1) \X (1..s.b - s.a)
      /\ m[1] + m[3] <= s.b /\ m[2] + m[3] <= s.d
      /\ \A k \in 0..m[3] - 1 : <<m[1] + k, m[2] + k>> \in equal
  BY DEF Blocks
<1> PICK a, b, c, d : a = s.a /\ b = s.b /\ c = s.c /\ d = s.d
  OBVIOUS
<1>2. a \in Nat /\ b \in Nat /\ c \in Nat /\ d \in Nat
  BY DEF IsStretch
<1> PICK i, j, l : i = m[1] /\ j = m[2] /\ l = m[3]
  OBVIOUS
<1>3. i \in a..b - 1 /\ j \in c..d - 1 /\ l \in 1..b - a
  BY ONLY <1>1, a = s.a /\ b = s.b /\ c = s.c /\ d = s.d, i = m[1] /\ j = m[2] /\ l = m[3]
<1>4. /\ i \in Nat /\ j \in Nat /\ l \in Nat /\ l # 0
      /\ a <= i /\ i < b /\ c <= j /\ j < d
      /\ \A k \in Nat : k < l => k \in 0..l - 1
  BY ONLY <1>2, <1>3
<1> QED BY ONLY <1>1, <1>4, a = s.a /\ b = s.b /\ c = s.c /\ d = s.d, i = m[1] /\ j = m[2] /\ l = m[3]
        DEF Fitting

\* A block's rows are those of its stretch, and pair its actions.
LEMMA PairsLinedUp ==
    ASSUME NEW x, NEW y, NEW s, IsStretch(s), NEW equal, equal \subseteq OfOneKey(x, y),
           NEW m, Fitting(s, m, equal)
    PROVE  /\ LinedUp(x, y, Middle(m), Pairs(x, y, m))
           /\ Len(Pairs(x, y, m)) = m[3]
           /\ \A k \in DOMAIN Pairs(x, y, m) : PairRow(Pairs(x, y, m)[k])
<1>0. PICK i, j, l, rows, t : /\ i = m[1] /\ j = m[2] /\ l = m[3]
                              /\ rows = Pairs(x, y, m) /\ t = Middle(m)
  OBVIOUS
<1>1. /\ i \in Nat /\ j \in Nat /\ l \in Nat /\ l # 0 /\ i # 0 /\ j # 0
      /\ \A k \in Nat : k < l => <<i + k, j + k>> \in equal
  BY <1>0 DEF Fitting, IsStretch
<1>2. t.a = i /\ t.b = i + l /\ t.c = j /\ t.d = j + l
  BY <1>0 DEF Middle
<1>3. rows = [k \in 1..l |-> [mark |-> PairMark(x[i + k - 1], y[j + k - 1]),
                             a |-> i + k - 1, b |-> j + k - 1]]
  BY <1>0 DEF Pairs, Row
<1>4. ASSUME NEW k \in 1..l
      PROVE  /\ rows[k] \in RowSet /\ rows[k].a = i + k - 1 /\ rows[k].b = j + k - 1
             /\ rows[k].mark = PairMark(x[i + k - 1], y[j + k - 1])
             /\ rows[k].a # 0 /\ rows[k].b # 0
  <2>1. i + k - 1 \in Nat /\ j + k - 1 \in Nat /\ i + k - 1 # 0 /\ j + k - 1 # 0
    BY ONLY <1>1, k \in 1..l
  <2>2. PairMark(x[i + k - 1], y[j + k - 1]) \in Marks
    BY DEF PairMark, Marks
  <2> PICK w, a, b : w = PairMark(x[i + k - 1], y[j + k - 1]) /\ a = i + k - 1 /\ b = j + k - 1
    OBVIOUS
  <2>3. rows[k] = [mark |-> w, a |-> a, b |-> b]
    BY <1>3
  <2>4. w \in Marks /\ a \in Nat /\ b \in Nat /\ a # 0 /\ b # 0
    BY <2>1, <2>2
  <2>5. rows[k] \in RowSet /\ rows[k].a = a /\ rows[k].b = b /\ rows[k].mark = w
    BY ONLY <2>3, <2>4 DEF RowSet
  <2> QED BY <2>4, <2>5
<1>5. rows \in Seq(RowSet) /\ Len(rows) = l /\ DOMAIN rows = 1..l
  <2>1. rows \in [1..l -> RowSet]
    BY ONLY <1>3, <1>4
  <2> QED BY ONLY <1>1, <2>1
<1>6. ASSUME NEW k \in 1..l PROVE RowFits(x, y, t, rows[k])
  <2> PICK a, b : a = i + k - 1 /\ b = j + k - 1
    OBVIOUS
  <2>1. /\ rows[k].a = a /\ rows[k].b = b /\ rows[k].mark = PairMark(x[a], y[b])
        /\ a # 0 /\ b # 0
    BY <1>4
  <2>2. t.a <= a /\ a < t.b /\ t.c <= b /\ b < t.d
    BY ONLY <1>1, <1>2, k \in 1..l, a = i + k - 1 /\ b = j + k - 1
  <2>3. SameKey(x[a], y[b])
    <3>1. k - 1 \in Nat /\ k - 1 < l /\ i + (k - 1) = a /\ j + (k - 1) = b
      BY ONLY <1>1, k \in 1..l, a = i + k - 1 /\ b = j + k - 1
    <3>2. <<a, b>> \in OfOneKey(x, y)
      BY ONLY <1>1, <3>1, equal \subseteq OfOneKey(x, y)
    <3> QED BY ONLY <3>2 DEF OfOneKey
  <2>4. rows[k].mark \in {"cut", "same", "changed"} /\ (rows[k].mark = "same" => SameData(x[a], y[b]))
    BY ONLY <2>1 DEF PairMark
  <2> QED BY ONLY <2>1, <2>2, <2>3, <2>4 DEF RowFits
<1>7. HasAll(t, rows)
  <2>1. ASSUME NEW n \in Nat, t.a <= n, n < t.b PROVE \E k \in 1..l : rows[k].a = n
    <3>1. n - i + 1 \in 1..l /\ i + (n - i + 1) - 1 = n
      BY ONLY <1>1, <1>2, <2>1
    <3> QED BY ONLY <1>4, <3>1
  <2>2. ASSUME NEW n \in Nat, t.c <= n, n < t.d PROVE \E k \in 1..l : rows[k].b = n
    <3>1. n - j + 1 \in 1..l /\ j + (n - j + 1) - 1 = n
      BY ONLY <1>1, <1>2, <2>2
    <3> QED BY ONLY <1>4, <3>1
  <2>3. ASSUME NEW u \in 1..l, NEW v \in 1..l, u < v
        PROVE  rows[u].a < rows[v].a /\ rows[u].b < rows[v].b
    <3>1. i + u - 1 < i + v - 1 /\ j + u - 1 < j + v - 1
      BY ONLY <1>1, <2>3, u \in 1..l, v \in 1..l
    <3> QED BY ONLY <1>4, <3>1
  <2> QED BY ONLY <1>5, <2>1, <2>2, <2>3 DEF HasAll
<1>8. Parted(x, y, rows)
  BY ONLY <1>4, <1>5, <1>6 DEF Parted, RowFits
<1>9. AllSame(x, y, t, rows)
  <2>1. t.b - t.a = t.d - t.c
    BY ONLY <1>1, <1>2
  <2>2. ASSUME \A k \in DOMAIN rows : rows[k].mark = "same", NEW n \in Nat, t.a <= n, n < t.b
        PROVE  SameData(x[n], y[t.c + (n - t.a)])
    <3> PICK k : k = n - i + 1
      OBVIOUS
    <3>1. k \in 1..l /\ i + k - 1 = n /\ j + k - 1 = t.c + (n - t.a)
      BY ONLY <1>1, <1>2, <2>2, k = n - i + 1
    <3>2. rows[k].mark = "same" /\ rows[k].a = n /\ rows[k].b = t.c + (n - t.a)
      BY ONLY <1>4, <1>5, <2>2, <3>1
    <3>3. SameData(x[rows[k].a], y[rows[k].b])
      BY ONLY <1>6, <3>1, <3>2 DEF RowFits
    <3> QED BY ONLY <3>2, <3>3
  <2> QED BY ONLY <2>1, <2>2 DEF AllSame
<1>10. LinedUp(x, y, t, rows)
  BY ONLY <1>5, <1>6, <1>7, <1>8, <1>9 DEF LinedUp
<1>11. \A k \in DOMAIN rows : PairRow(rows[k])
  BY ONLY <1>4, <1>5 DEF PairRow
<1> QED BY ONLY <1>0, <1>5, <1>10, <1>11

\* Two runs' actions.
Sequences(x, y) ==
    /\ Len(x) \in Nat /\ DOMAIN x = 1..Len(x)
    /\ Len(y) \in Nat /\ DOMAIN y = 1..Len(y)

\* A stretch's bounds are positions of the runs.
LEMMA StretchFacts ==
    ASSUME NEW x, NEW y, Sequences(x, y), NEW s \in Stretches(x, y)
    PROVE  /\ IsStretch(s) /\ s.b <= Len(x) + 1 /\ s.d <= Len(y) + 1
           /\ \A n \in Nat : s.a <= n /\ n < s.b => n \in DOMAIN x
           /\ \A n \in Nat : s.c <= n /\ n < s.d => n \in DOMAIN y
<1> PICK n, m : n = Len(x) /\ m = Len(y)
  OBVIOUS
<1>1. n \in Nat /\ m \in Nat /\ DOMAIN x = 1..n /\ DOMAIN y = 1..m
  BY DEF Sequences
<1>2. s.a \in 1..n + 1 /\ s.b \in 1..n + 1 /\ s.c \in 1..m + 1 /\ s.d \in 1..m + 1
  BY DEF Stretches
<1>3. IsStretch(s) /\ s.b <= n + 1 /\ s.d <= m + 1
  BY ONLY <1>1, <1>2 DEF IsStretch
<1>4. /\ \A i \in Nat : s.a <= i /\ i < s.b => i \in 1..n
      /\ \A i \in Nat : s.c <= i /\ i < s.d => i \in 1..m
  BY ONLY <1>1, <1>2
<1> QED BY <1>1, <1>3, <1>4

\* The rows of actions that nothing pairs with.
LEMMA UnpairedTyped ==
    ASSUME NEW s, IsStretch(s)
    PROVE  /\ Unpaired(s) \in Seq(RowSet)
           /\ \A i \in DOMAIN Unpaired(s) :
                 LET r == Unpaired(s)[i] IN
                 \/ r.mark = "only_a" /\ r.b = 0 /\ s.a <= r.a /\ r.a < s.b /\ r.a # 0
                 \/ r.mark = "only_b" /\ r.a = 0 /\ s.c <= r.b /\ r.b < s.d /\ r.b # 0
           /\ Proper(s) => HasAll(s, Unpaired(s))
<1>0. PICK a, b, c, d : a = s.a /\ b = s.b /\ c = s.c /\ d = s.d
  OBVIOUS
<1>1. a \in Nat /\ b \in Nat /\ c \in Nat /\ d \in Nat /\ a # 0 /\ c # 0
  BY <1>0 DEF IsStretch
<1>2. PICK p, q : /\ p = [k \in 1..b - a |-> [mark |-> "only_a", a |-> a + k - 1, b |-> 0]]
                  /\ q = [k \in 1..d - c |-> [mark |-> "only_b", a |-> 0, b |-> c + k - 1]]
  OBVIOUS
<1>3. Unpaired(s) = p \o q
  BY <1>0, <1>2 DEF Unpaired, Row
<1>4. ASSUME NEW k \in 1..b - a
      PROVE  /\ p[k] \in RowSet /\ p[k].mark = "only_a" /\ p[k].b = 0 /\ p[k].a = a + k - 1
             /\ a <= p[k].a /\ p[k].a < b /\ p[k].a # 0
  <2>0. PICK u : u = a + k - 1
    OBVIOUS
  <2>1. u \in Nat /\ u # 0 /\ a <= u /\ u < b
    BY ONLY <1>1, <2>0, k \in 1..b - a
  <2>2. p[k] = [mark |-> "only_a", a |-> u, b |-> 0]
    BY ONLY <1>2, <2>0, k \in 1..b - a
  <2>3. p[k] \in RowSet /\ p[k].mark = "only_a" /\ p[k].b = 0 /\ p[k].a = u
    BY ONLY <2>1, <2>2 DEF RowSet, Marks
  <2> QED BY ONLY <2>0, <2>1, <2>3
<1>5. ASSUME NEW k \in 1..d - c
      PROVE  /\ q[k] \in RowSet /\ q[k].mark = "only_b" /\ q[k].a = 0 /\ q[k].b = c + k - 1
             /\ c <= q[k].b /\ q[k].b < d /\ q[k].b # 0
  <2>0. PICK u : u = c + k - 1
    OBVIOUS
  <2>1. u \in Nat /\ u # 0 /\ c <= u /\ u < d
    BY ONLY <1>1, <2>0, k \in 1..d - c
  <2>2. q[k] = [mark |-> "only_b", a |-> 0, b |-> u]
    BY ONLY <1>2, <2>0, k \in 1..d - c
  <2>3. q[k] \in RowSet /\ q[k].mark = "only_b" /\ q[k].a = 0 /\ q[k].b = u
    BY ONLY <2>1, <2>2 DEF RowSet, Marks
  <2> QED BY ONLY <2>0, <2>1, <2>3
<1>6. /\ p \in Seq(RowSet) /\ Len(p) \in Nat /\ 1..Len(p) = 1..b - a
      /\ q \in Seq(RowSet) /\ Len(q) \in Nat /\ 1..Len(q) = 1..d - c
  <2>1. PICK n : n \in Nat /\ 1..n = 1..b - a
    <3>1. CASE a <= b
      <4>1. b - a \in Nat
        BY ONLY <1>1, <3>1
      <4> QED BY ONLY <4>1
    <3>2. CASE ~(a <= b)
      <4>1. 1..0 = 1..b - a
        BY ONLY <1>1, <3>2
      <4> QED BY ONLY <4>1
    <3> QED BY ONLY <3>1, <3>2
  <2>2. PICK m : m \in Nat /\ 1..m = 1..d - c
    <3>1. CASE c <= d
      <4>1. d - c \in Nat
        BY ONLY <1>1, <3>1
      <4> QED BY ONLY <4>1
    <3>2. CASE ~(c <= d)
      <4>1. 1..0 = 1..d - c
        BY ONLY <1>1, <3>2
      <4> QED BY ONLY <4>1
    <3> QED BY ONLY <3>1, <3>2
  <2>3. p \in [1..n -> RowSet] /\ q \in [1..m -> RowSet]
    BY ONLY <1>2, <1>4, <1>5, <2>1, <2>2
  <2>4. p \in Seq(RowSet) /\ Len(p) = n /\ q \in Seq(RowSet) /\ Len(q) = m
    BY ONLY <2>1, <2>2, <2>3
  <2> QED BY ONLY <2>1, <2>2, <2>4
<1> PICK r, n, m : r = p \o q /\ n = Len(p) /\ m = Len(q)
  OBVIOUS
<1>7. /\ r \in Seq(RowSet) /\ n \in Nat /\ m \in Nat
      /\ DOMAIN p = 1..n /\ DOMAIN q = 1..m /\ DOMAIN r = 1..(n + m)
      /\ \A i \in 1..n : i \in DOMAIN r /\ r[i] = p[i]
      /\ \A i \in 1..m : n + i \in DOMAIN r /\ r[n + i] = q[i]
      /\ \A i \in DOMAIN r : i \in 1..n \/ \E j \in 1..m : i = n + j
  BY <1>6, Concat
<1>8. /\ \A i \in 1..n : r[i].b = 0 /\ r[i].a = a + i - 1
      /\ \A i \in 1..m : r[n + i].a = 0 /\ r[n + i].b = c + i - 1
  <2>1. 1..n = 1..b - a /\ 1..m = 1..d - c
    BY <1>6
  <2>2. ASSUME NEW i \in 1..n PROVE r[i].b = 0 /\ r[i].a = a + i - 1
    <3>1. i \in 1..b - a /\ r[i] = p[i]
      BY ONLY <1>7, <2>1, i \in 1..n
    <3> QED BY ONLY <1>4, <3>1
  <2>3. ASSUME NEW i \in 1..m PROVE r[n + i].a = 0 /\ r[n + i].b = c + i - 1
    <3>1. i \in 1..d - c /\ r[n + i] = q[i]
      BY ONLY <1>7, <2>1, i \in 1..m
    <3> QED BY ONLY <1>5, <3>1
  <2> QED BY ONLY <2>2, <2>3
<1>9. ASSUME NEW i \in DOMAIN r
      PROVE  \/ r[i].mark = "only_a" /\ r[i].b = 0 /\ a <= r[i].a /\ r[i].a < b /\ r[i].a # 0
             \/ r[i].mark = "only_b" /\ r[i].a = 0 /\ c <= r[i].b /\ r[i].b < d /\ r[i].b # 0
  <2>1. CASE i \in 1..n
    BY <1>4, <1>6, <1>7, <2>1
  <2>2. CASE i \notin 1..n
    <3>1. PICK j : j \in 1..m /\ i = n + j
      BY <1>7, <2>2
    <3>2. r[i] = q[j] /\ j \in 1..d - c
      BY <1>6, <1>7, <3>1
    <3> QED BY <1>5, <3>2
  <2> QED BY <2>1, <2>2
<1>10. ASSUME Proper(s) PROVE HasAll(s, r)
  <2>1. ASSUME NEW k \in Nat, a <= k, k < b PROVE \E i \in DOMAIN r : r[i].a = k
    <3>1. k - a + 1 \in 1..b - a /\ a + (k - a + 1) - 1 = k
      BY ONLY <1>1, <2>1
    <3>2. k - a + 1 \in 1..n
      BY <1>6, <3>1
    <3>3. r[k - a + 1].a = k /\ k - a + 1 \in DOMAIN r
      BY ONLY <1>4, <1>7, <3>1, <3>2
    <3> QED BY ONLY <3>3
  <2>2. ASSUME NEW k \in Nat, c <= k, k < d PROVE \E i \in DOMAIN r : r[i].b = k
    <3>1. k - c + 1 \in 1..d - c /\ c + (k - c + 1) - 1 = k
      BY ONLY <1>1, <2>2
    <3>2. k - c + 1 \in 1..m
      BY <1>6, <3>1
    <3>3. r[n + (k - c + 1)].b = k /\ n + (k - c + 1) \in DOMAIN r
      BY ONLY <1>5, <1>7, <3>1, <3>2
    <3> QED BY ONLY <3>3
  <2>3. ASSUME NEW i \in DOMAIN r, NEW j \in DOMAIN r, i < j
        PROVE  /\ r[i].a # 0 /\ r[j].a # 0 => r[i].a < r[j].a
               /\ r[i].b # 0 /\ r[j].b # 0 => r[i].b < r[j].b
    <3>1. CASE i \in 1..n /\ j \in 1..n
      <4>1. /\ r[i].a = a + i - 1 /\ r[j].a = a + j - 1 /\ r[i].b = 0
            /\ i \in Nat /\ j \in Nat
        BY ONLY <1>7, <1>8, <3>1
      <4> QED BY ONLY <1>1, <2>3, <4>1
    <3>2. CASE i \in 1..n /\ j \notin 1..n
      <4>1. PICK k : k \in 1..m /\ j = n + k
        BY <1>7, <3>2
      <4>2. r[i].b = 0 /\ r[j].a = 0
        BY ONLY <1>7, <1>8, <3>2, <4>1
      <4> QED BY ONLY <4>2
    <3>3. CASE i \notin 1..n
      <4>1. PICK k : k \in 1..m /\ i = n + k
        BY <1>7, <3>3
      <4>2. j \notin 1..n
        BY ONLY <1>7, <2>3, <4>1, j \in DOMAIN r
      <4>3. PICK l : l \in 1..m /\ j = n + l
        BY <1>7, <4>2
      <4>4. /\ r[i].b = c + k - 1 /\ r[j].b = c + l - 1 /\ r[i].a = 0
            /\ k \in Nat /\ l \in Nat
        <5>1. /\ r[n + k].a = 0 /\ r[n + k].b = c + k - 1 /\ r[n + l].b = c + l - 1
              /\ k \in Nat /\ l \in Nat
          BY ONLY <1>7, <1>8, <4>1, <4>3
        <5> QED BY ONLY <4>1, <4>3, <5>1
      <4> QED BY ONLY <1>1, <1>7, <2>3, <4>1, <4>3, <4>4
    <3> QED BY ONLY <3>1, <3>2, <3>3
  <2> QED BY <1>0, <2>1, <2>2, <2>3 DEF HasAll
<1> QED BY <1>0, <1>3, <1>7, <1>9, <1>10

\* A stretch of which no two actions have one key is lined up with nothing paired.
LEMMA UnpairedLinedUp ==
    ASSUME NEW x, NEW y, Sequences(x, y), NEW s \in Stretches(x, y), Proper(s),
           Blocks(s, OfOneKey(x, y)) = {}
    PROVE  LinedUp(x, y, s, Unpaired(s))
<1> PICK r : r = Unpaired(s)
  OBVIOUS
<1>1. /\ s.a \in Nat /\ s.b \in Nat /\ s.c \in Nat /\ s.d \in Nat /\ s.a # 0 /\ s.c # 0
      /\ \A n \in Nat : s.a <= n /\ n < s.b => n \in DOMAIN x
      /\ \A n \in Nat : s.c <= n /\ n < s.d => n \in DOMAIN y
      /\ s.a <= s.b /\ s.c <= s.d
  BY StretchFacts DEF IsStretch, Proper
<1>2. /\ r \in Seq(RowSet) /\ HasAll(s, r)
      /\ \A i \in DOMAIN r :
            \/ r[i].mark = "only_a" /\ r[i].b = 0 /\ s.a <= r[i].a /\ r[i].a < s.b /\ r[i].a # 0
            \/ r[i].mark = "only_b" /\ r[i].a = 0 /\ s.c <= r[i].b /\ r[i].b < s.d /\ r[i].b # 0
      /\ \A i \in DOMAIN r : r[i] \in RowSet
  <2>1. IsStretch(s)
    BY StretchFacts
  <2>2. /\ r \in Seq(RowSet) /\ HasAll(s, r)
        /\ \A i \in DOMAIN r :
              \/ r[i].mark = "only_a" /\ r[i].b = 0 /\ s.a <= r[i].a /\ r[i].a < s.b /\ r[i].a # 0
              \/ r[i].mark = "only_b" /\ r[i].a = 0 /\ s.c <= r[i].b /\ r[i].b < s.d /\ r[i].b # 0
    BY <2>1, UnpairedTyped
  <2> QED BY <2>2
<1>3. ASSUME NEW i \in DOMAIN r PROVE RowFits(x, y, s, r[i])
  BY ONLY <1>2, i \in DOMAIN r DEF RowFits
<1>4. Parted(x, y, r)
  <2>1. ASSUME NEW i \in DOMAIN r, NEW j \in DOMAIN r, r[i].mark = "only_a", r[j].mark = "only_b",
               SameKey(x[r[i].a], y[r[j].b])
        PROVE  FALSE
    <3>0. PICK u, v : u = r[i].a /\ v = r[j].b
      OBVIOUS
    <3>1. u \in Nat /\ v \in Nat /\ s.a <= u /\ u < s.b /\ s.c <= v /\ v < s.d
      BY ONLY <1>2, <2>1, <3>0 DEF RowSet
    <3>2. <<u, v>> \in OfOneKey(x, y)
      BY ONLY <1>1, <2>1, <3>0, <3>1 DEF OfOneKey
    <3>3. <<u, v, 1>> \in (s.a..s.b - 1) \X (s.c..s.d - 1) \X (1..s.b - s.a)
          /\ u + 1 <= s.b /\ v + 1 <= s.d
      BY ONLY <1>1, <3>1
    <3>4. \A k \in 0..1 - 1 : <<u + k, v + k>> = <<u, v>>
      BY ONLY <3>1
    <3>5. <<u, v, 1>> \in Blocks(s, OfOneKey(x, y))
      BY ONLY <3>2, <3>3, <3>4 DEF Blocks
    <3> QED BY <3>5
  <2> QED BY ONLY <2>1 DEF Parted
<1>5. AllSame(x, y, s, r)
  <2>1. ASSUME \A i \in DOMAIN r : r[i].mark = "same" PROVE s.a = s.b /\ s.c = s.d
    <3>1. \A i \in DOMAIN r : FALSE
      BY ONLY <1>2, <2>1
    <3>2. (\A n \in Nat : ~(s.a <= n /\ n < s.b)) /\ (\A n \in Nat : ~(s.c <= n /\ n < s.d))
      BY ONLY <1>2, <3>1 DEF HasAll
    <3> QED BY ONLY <1>1, <3>2
  <2>2. s.a = s.b /\ s.c = s.d => s.b - s.a = s.d - s.c /\ \A k \in Nat : ~(s.a <= k /\ k < s.b)
    BY ONLY <1>1
  <2> QED BY ONLY <2>1, <2>2 DEF AllSame
<1> QED BY <1>2, <1>3, <1>4, <1>5 DEF LinedUp

\* There is a longest block, where there is one.
LEMMA LongestExists ==
    ASSUME NEW s, IsStretch(s), NEW equal, Blocks(s, equal) # {}
    PROVE  /\ Longest(Blocks(s, equal)) \in Blocks(s, equal)
           /\ \A n \in Blocks(s, equal) : n[3] <= Longest(Blocks(s, equal))[3]
<1>0. PICK M : M = Blocks(s, equal)
  OBVIOUS
<1>1. \A m \in M : m[1] \in Nat /\ m[2] \in Nat /\ m[3] \in Nat /\ m[1] + m[3] <= s.b
  BY <1>0, BlockFits DEF Fitting
<1>2. s.b \in Nat
  BY DEF IsStretch
<1>3. PICK l : l \in Nat /\ (\E m \in M : m[3] = l) /\ \A m \in M : m[3] <= l
  <2>1. PICK L : L = {m[3] : m \in M}
    OBVIOUS
  <2>2. L \subseteq Nat /\ L # {} /\ \A k \in L : k <= s.b
    <3>1. \A m \in M : m[3] \in Nat /\ m[3] <= s.b
      BY ONLY <1>1, <1>2
    <3> QED BY <1>0, <2>1, <3>1
  <2>3. \E e \in L : \A k \in L : k <= e
    BY <1>2, <2>2, GreatestExists
  <2> QED BY ONLY <2>1, <2>2, <2>3
<1>4. PICK i : i \in Nat /\ (\E m \in M : m[3] = l /\ m[1] = i) /\ \A m \in M : m[3] = l => i <= m[1]
  <2>1. PICK I : I = {m[1] : m \in {n \in M : n[3] = l}}
    OBVIOUS
  <2>2. I \subseteq Nat /\ I # {}
    BY ONLY <1>1, <1>3, <2>1
  <2>3. Least(I) \in I /\ \A k \in I : Least(I) <= k
    BY <2>2, LeastExists
  <2> QED BY ONLY <2>1, <2>2, <2>3
<1>5. PICK j : /\ j \in Nat /\ \E m \in M : m[3] = l /\ m[1] = i /\ m[2] = j
               /\ \A m \in M : m[3] = l /\ m[1] = i => j <= m[2]
  <2>1. PICK J : J = {m[2] : m \in {n \in M : n[3] = l /\ n[1] = i}}
    OBVIOUS
  <2>2. J \subseteq Nat /\ J # {}
    BY ONLY <1>1, <1>4, <2>1
  <2>3. Least(J) \in J /\ \A k \in J : Least(J) <= k
    BY <2>2, LeastExists
  <2> QED BY ONLY <2>1, <2>2, <2>3
<1>6. PICK m \in M : m[3] = l /\ m[1] = i /\ m[2] = j
  BY <1>5
<1>7. ASSUME NEW n \in M PROVE Longer(m, n)
  <2>1. /\ n[3] \in Nat /\ n[3] <= l
        /\ n[1] \in Nat /\ (n[3] = l => i <= n[1])
        /\ n[2] \in Nat /\ (n[3] = l /\ n[1] = i => j <= n[2])
    BY ONLY <1>1, <1>3, <1>4, <1>5, n \in M
  <2> QED BY ONLY <1>3, <1>4, <1>5, <1>6, <2>1 DEF Longer
<1>8. PICK w : w = Longest(M)
  OBVIOUS
<1>9. w \in M /\ \A n \in M : Longer(w, n)
  <2>1. w = CHOOSE k \in M : \A n \in M : Longer(k, n)
    BY ONLY <1>8 DEF Longest
  <2> QED BY <1>6, <1>7, <2>1, Zenon
<1>10. \A n \in M : n[3] <= w[3]
  <2>1. \A n \in M : w[3] > n[3] \/ w[3] = n[3]
    BY ONLY <1>9 DEF Longer
  <2> QED BY ONLY <1>1, <1>9, <2>1
<1> QED BY ONLY <1>0, <1>8, <1>9, <1>10

\* A block splits its stretch.
LEMMA BlockSplits ==
    ASSUME NEW x, NEW y, Sequences(x, y), NEW s \in Stretches(x, y), NEW equal, NEW m,
           Fitting(s, m, equal)
    PROVE  /\ Before(s, m) \in Stretches(x, y) /\ After(s, m) \in Stretches(x, y)
           /\ Before(s, m).b - Before(s, m).a < s.b - s.a
           /\ After(s, m).b - After(s, m).a < s.b - s.a
           /\ Before(s, m).a = s.a /\ Before(s, m).b = m[1]
           /\ Before(s, m).c = s.c /\ Before(s, m).d = m[2]
           /\ After(s, m).a = m[1] + m[3] /\ After(s, m).b = s.b
           /\ After(s, m).c = m[2] + m[3] /\ After(s, m).d = s.d
<1>1. PICK n, p : n = Len(x) + 1 /\ p = Len(y) + 1
  OBVIOUS
<1>2. n \in Nat /\ p \in Nat
  BY <1>1 DEF Sequences
<1>3. Stretches(x, y) = [a : 1..n, b : 1..n, c : 1..p, d : 1..p]
  BY <1>1 DEF Stretches
<1>4. s \in [a : 1..n, b : 1..n, c : 1..p, d : 1..p]
  BY <1>3
<1>5. PICK i, j, l : i = m[1] /\ j = m[2] /\ l = m[3]
  OBVIOUS
<1>6. /\ i \in Nat /\ j \in Nat /\ l \in Nat /\ l # 0
      /\ s.a <= i /\ i < s.b /\ s.c <= j /\ j < s.d
      /\ i + l <= s.b /\ j + l <= s.d
  BY ONLY <1>5, Fitting(s, m, equal) DEF Fitting
<1>7. s.a \in 1..n /\ s.b \in 1..n /\ s.c \in 1..p /\ s.d \in 1..p
  BY ONLY <1>4
<1>8. i \in 1..n /\ j \in 1..p /\ i + l \in 1..n /\ j + l \in 1..p
      /\ i - s.a < s.b - s.a /\ s.b - (i + l) < s.b - s.a
  BY ONLY <1>2, <1>6, <1>7
<1>9. Before(s, m) = [a |-> s.a, b |-> i, c |-> s.c, d |-> j]
  <2>1. Before(s, m) = [s EXCEPT !.b = i, !.d = j]
    BY ONLY <1>5, Zenon DEF Before
  <2> QED BY ONLY <1>4, <2>1
<1>10. After(s, m) = [a |-> i + l, b |-> s.b, c |-> j + l, d |-> s.d]
  <2>1. After(s, m) = [s EXCEPT !.a = i + l, !.c = j + l]
    BY ONLY <1>5, Zenon DEF After
  <2> QED BY ONLY <1>4, <2>1
<1> QED BY ONLY <1>3, <1>5, <1>7, <1>8, <1>9, <1>10

\* What a block splits is lined up by what lies before it, its pairs and the rest.
LEMMA SplitLinedUp ==
    ASSUME NEW x, NEW y, Sequences(x, y), NEW s \in Stretches(x, y), Proper(s),
           NEW equal, equal \subseteq OfOneKey(x, y), NEW m, Fitting(s, m, equal)
    PROVE  /\ Proper(Before(s, m)) /\ Proper(After(s, m))
           /\ \A p, q : LinedUp(x, y, Before(s, m), p) /\ LinedUp(x, y, After(s, m), q) =>
                            LinedUp(x, y, s, p \o Pairs(x, y, m) \o q)
<1>0. PICK u, v, w, z : /\ u = Before(s, m) /\ v = Middle(m) /\ w = After(s, m)
                        /\ z = [a |-> s.a, b |-> m[1] + m[3], c |-> s.c, d |-> m[2] + m[3]]
  OBVIOUS
<1>1. PICK i, j, l : i = m[1] /\ j = m[2] /\ l = m[3]
  OBVIOUS
<1>2. /\ i \in Nat /\ j \in Nat /\ l \in Nat /\ l # 0
      /\ s.a <= i /\ i < s.b /\ s.c <= j /\ j < s.d /\ i + l <= s.b /\ j + l <= s.d
  BY <1>1 DEF Fitting
<1>3. s.a \in Nat /\ s.b \in Nat /\ s.c \in Nat /\ s.d \in Nat /\ s.a # 0 /\ s.c # 0 /\ IsStretch(s)
  BY StretchFacts DEF IsStretch
<1>4. /\ u.a = s.a /\ u.b = i /\ u.c = s.c /\ u.d = j
      /\ v.a = i /\ v.b = i + l /\ v.c = j /\ v.d = j + l
      /\ w.a = i + l /\ w.b = s.b /\ w.c = j + l /\ w.d = s.d
      /\ z.a = s.a /\ z.b = i + l /\ z.c = s.c /\ z.d = j + l
  <2>1. /\ u.a = s.a /\ u.b = i /\ u.c = s.c /\ u.d = j
        /\ w.a = i + l /\ w.b = s.b /\ w.c = j + l /\ w.d = s.d
    BY <1>0, <1>1, BlockSplits
  <2>2. v.a = i /\ v.b = i + l /\ v.c = j /\ v.d = j + l
    BY ONLY <1>0, <1>1 DEF Middle
  <2>3. z.a = s.a /\ z.b = i + l /\ z.c = s.c /\ z.d = j + l
    BY ONLY <1>0, <1>1
  <2> QED BY ONLY <2>1, <2>2, <2>3
<1>5. /\ IsStretch(u) /\ IsStretch(v) /\ IsStretch(w) /\ IsStretch(z)
      /\ Proper(u) /\ Proper(v) /\ Proper(w) /\ Proper(z)
  <2>1. /\ i # 0 /\ j # 0 /\ i + l \in Nat /\ j + l \in Nat /\ i + l # 0 /\ j + l # 0
        /\ i <= i + l /\ j <= j + l /\ s.a <= i + l /\ s.c <= j + l
    BY ONLY <1>2, <1>3
  <2> QED BY ONLY <1>2, <1>3, <1>4, <2>1 DEF IsStretch, Proper
<1>6. Adjoining(u, v, z) /\ Adjoining(z, w, s)
  BY ONLY <1>4 DEF Adjoining
<1>7. PICK r : r = Pairs(x, y, m)
  OBVIOUS
<1>8. LinedUp(x, y, v, r) /\ Len(r) = l /\ \A k \in DOMAIN r : PairRow(r[k])
  <2>1. IsStretch(s)
    BY <1>3
  <2> QED BY <1>0, <1>1, <1>7, <2>1, PairsLinedUp
<1>9. ASSUME NEW p, NEW q, LinedUp(x, y, u, p), LinedUp(x, y, w, q)
      PROVE  LinedUp(x, y, s, p \o r \o q)
  <2>1. PICK pr : pr = p \o r
    OBVIOUS
  <2>2. LinedUp(x, y, z, pr)
    BY ONLY <1>5, <1>6, <1>8, <1>9, <2>1, RowsJoined
  <2>3. Len(pr) # 0 /\ PairRow(pr[Len(pr)])
    <3>1. p \in Seq(RowSet) /\ r \in Seq(RowSet)
      BY ONLY <1>8, <1>9 DEF LinedUp
    <3>2. /\ pr \in Seq(RowSet) /\ Len(p) \in Nat /\ DOMAIN pr = 1..(Len(p) + l) /\ DOMAIN r = 1..l
          /\ \A k \in 1..l : pr[Len(p) + k] = r[k]
      BY ONLY <1>8, <2>1, <3>1, Concat
    <3>3. Len(pr) = Len(p) + l
      BY ONLY <1>2, <3>2
    <3>4. l \in 1..l /\ Len(p) + l # 0
      BY ONLY <1>2, <3>2
    <3> QED BY ONLY <1>8, <3>2, <3>3, <3>4
  <2>4. LinedUp(x, y, s, pr \o q)
    BY ONLY <1>3, <1>5, <1>6, <1>9, <2>2, <2>3, RowsJoined
  <2> QED BY ONLY <2>1, <2>4
<1> QED BY ONLY <1>0, <1>5, <1>7, <1>9

\* How both alignments come about: by a longest block of what counts as equal, and
\* where there is none by what the base has for the stretch.
Body(x, y, equal, base, g, s) ==
    LET m == Longest(Blocks(s, equal)) IN
    IF Blocks(s, equal) = {} THEN base[s]
    ELSE g[Before(s, m)] \o Pairs(x, y, m) \o g[After(s, m)]

\* A function that is its own body.
Solution(x, y, equal, base, g) == g = [s \in Stretches(x, y) |-> Body(x, y, equal, base, g, s)]

\* What a stretch without a block has is lined up.
Base(x, y, equal, base) ==
    /\ equal \subseteq OfOneKey(x, y)
    /\ base \in [Stretches(x, y) -> Seq(RowSet)]
    /\ \A s \in Stretches(x, y) :
          Proper(s) /\ Blocks(s, equal) = {} => LinedUp(x, y, s, base[s])

\* A stretch turned round has no block.
LEMMA NoBlocks ==
    ASSUME NEW s, IsStretch(s), NEW equal, s.b - s.a < 0
    PROVE  Blocks(s, equal) = {}
<1>1. \A m \in Blocks(s, equal) : FALSE
  <2>1. ASSUME NEW m \in Blocks(s, equal) PROVE FALSE
    <3>1. m[1] \in Nat /\ s.a <= m[1] /\ m[1] < s.b
      BY BlockFits DEF Fitting
    <3>2. s.a \in Nat /\ s.b \in Nat
      BY DEF IsStretch
    <3> QED BY ONLY <3>1, <3>2, s.b - s.a < 0
  <2> QED BY <2>1
<1> QED BY <1>1

\* The body's parts.
LEMMA BodyParts ==
    ASSUME NEW x, NEW y, Sequences(x, y), NEW equal, NEW s \in Stretches(x, y),
           Blocks(s, equal) # {}, NEW m, m = Longest(Blocks(s, equal))
    PROVE  /\ Fitting(s, m, equal)
           /\ Before(s, m) \in Stretches(x, y) /\ After(s, m) \in Stretches(x, y)
           /\ Before(s, m).b - Before(s, m).a < s.b - s.a
           /\ After(s, m).b - After(s, m).a < s.b - s.a
<1>1. IsStretch(s)
  BY StretchFacts
<1>2. m \in Blocks(s, equal)
  BY <1>1, LongestExists
<1>3. Fitting(s, m, equal)
  BY <1>1, <1>2, BlockFits
<1> QED BY <1>3, BlockSplits

\* A body is made of rows where the function's values for shorter stretches are.
LEMMA BodyTyped ==
    ASSUME NEW x, NEW y, Sequences(x, y), NEW equal, NEW base, Base(x, y, equal, base),
           NEW s \in Stretches(x, y), NEW g,
           \A t \in Stretches(x, y) : t.b - t.a < s.b - s.a => g[t] \in Seq(RowSet)
    PROVE  Body(x, y, equal, base, g, s) \in Seq(RowSet)
<1>1. CASE Blocks(s, equal) = {}
  BY <1>1 DEF Body, Base
<1>2. CASE Blocks(s, equal) # {}
  <2>0. PICK m, p, q, r : /\ m = Longest(Blocks(s, equal)) /\ p = g[Before(s, m)]
                          /\ q = g[After(s, m)] /\ r = Pairs(x, y, m)
    OBVIOUS
  <2>1. Fitting(s, m, equal) /\ p \in Seq(RowSet) /\ q \in Seq(RowSet)
    BY <1>2, <2>0, BodyParts
  <2>2. r \in Seq(RowSet)
    <3>1. IsStretch(s) /\ equal \subseteq OfOneKey(x, y)
      BY StretchFacts DEF Base
    <3> QED BY <2>0, <2>1, <3>1, PairsLinedUp DEF LinedUp
  <2>3. p \o r \o q \in Seq(RowSet)
    BY ONLY <2>1, <2>2
  <2> QED BY ONLY <1>2, <2>0, <2>3 DEF Body
<1> QED BY <1>1, <1>2

\* A body depends on what the function says of shorter stretches alone.
LEMMA BodyDepends ==
    ASSUME NEW x, NEW y, Sequences(x, y), NEW equal, NEW base, NEW s \in Stretches(x, y), NEW g, NEW h,
           \A t \in Stretches(x, y) : t.b - t.a < s.b - s.a => g[t] = h[t]
    PROVE  Body(x, y, equal, base, g, s) = Body(x, y, equal, base, h, s)
<1>1. CASE Blocks(s, equal) = {}
  BY ONLY <1>1 DEF Body
<1>2. CASE Blocks(s, equal) # {}
  <2>0. PICK m : m = Longest(Blocks(s, equal))
    OBVIOUS
  <2>1. g[Before(s, m)] = h[Before(s, m)] /\ g[After(s, m)] = h[After(s, m)]
    BY <1>2, <2>0, BodyParts
  <2> QED BY ONLY <2>0, <2>1 DEF Body
<1> QED BY <1>1, <1>2

\* The alignment's function exists.
LEMMA SolutionExists ==
    ASSUME NEW x, NEW y, Sequences(x, y), NEW equal, NEW base, Base(x, y, equal, base)
    PROVE  \E g : Solution(x, y, equal, base, g)
<1>0. PICK L, D, S, N : /\ L = Len(x) /\ D = Stretches(x, y)
                        /\ S = [D -> Seq(RowSet)] /\ N = L + 2
  OBVIOUS
<1>1. L \in Nat /\ N \in Nat /\ base \in S
  BY <1>0 DEF Sequences, Base
<1>2. \A s \in D : s.b - s.a <= L /\ IsStretch(s) /\ s.a \in Nat /\ s.b \in Nat
  <2>1. ASSUME NEW s \in D PROVE s.b - s.a <= L /\ IsStretch(s) /\ s.a \in Nat /\ s.b \in Nat
    <3>1. IsStretch(s) /\ s.b <= L + 1
      BY <1>0, StretchFacts
    <3>2. s.a \in Nat /\ s.a # 0 /\ s.b \in Nat
      BY ONLY <3>1 DEF IsStretch
    <3> QED BY ONLY <1>1, <3>1, <3>2
  <2> QED BY <2>1
<1>3. ASSUME NEW h \in S PROVE [s \in D |-> Body(x, y, equal, base, h, s)] \in S
  <2>1. ASSUME NEW s \in D PROVE Body(x, y, equal, base, h, s) \in Seq(RowSet)
    <3>1. \A t \in Stretches(x, y) : t.b - t.a < s.b - s.a => h[t] \in Seq(RowSet)
      BY <1>0
    <3> QED BY <1>0, <3>1, BodyTyped
  <2> QED BY ONLY <1>0, <2>1
<1>4. PICK step : step = [i \in 1..N |-> [h \in S |-> [s \in D |-> Body(x, y, equal, base, h, s)]]]
  OBVIOUS
<1>5. step \in [1..N -> [S -> S]]
  <2>1. [h \in S |-> [s \in D |-> Body(x, y, equal, base, h, s)]] \in [S -> S]
    BY ONLY <1>3
  <2> QED BY ONLY <1>4, <2>1
<1>6. PICK f : Runs(f, S, N, base, step)
  BY <1>1, <1>5, Recursion
<1>7. /\ \A i \in 0..N : f[i] \in S
      /\ f[0] = base
      /\ \A i \in 1..N : f[i] = [s \in D |-> Body(x, y, equal, base, f[i - 1], s)]
  <2>1. f \in [0..N -> S] /\ f[0] = base /\ \A i \in 1..N : f[i] = step[i][f[i - 1]]
    BY ONLY <1>6 DEF Runs
  <2>2. \A i \in 0..N : f[i] \in S
    BY ONLY <2>1
  <2>3. ASSUME NEW i \in 1..N PROVE f[i] = [s \in D |-> Body(x, y, equal, base, f[i - 1], s)]
    <3>1. i - 1 \in 0..N
      BY ONLY <1>1, i \in 1..N
    <3> PICK h : h = f[i - 1]
      OBVIOUS
    <3>2. h \in S
      BY ONLY <2>2, <3>1, h = f[i - 1]
    <3>3. step[i][h] = [s \in D |-> Body(x, y, equal, base, h, s)]
      BY ONLY <1>4, <3>2, i \in 1..N
    <3> QED BY ONLY <2>1, <3>3, h = f[i - 1], i \in 1..N
  <2> QED BY ONLY <2>1, <2>2, <2>3
<1> DEFINE T == {n \in Nat : n + 1 <= N => \A s \in D : s.b - s.a < n => f[n][s] = f[n + 1][s]}
<1>8. 0 \in T
  <2>1. ASSUME 0 + 1 <= N, NEW s \in D, s.b - s.a < 0 PROVE f[0][s] = f[0 + 1][s]
    <3>1. Blocks(s, equal) = {}
      BY <1>2, <2>1, NoBlocks
    <3>2. 1 \in 1..N /\ 1 - 1 = 0
      BY ONLY <1>1, <2>1
    <3>3. f[1][s] = Body(x, y, equal, base, f[0], s)
      <4>1. f[1] = [z \in D |-> Body(x, y, equal, base, f[1 - 1], z)]
        BY ONLY <1>7, <3>2
      <4> QED BY ONLY <3>2, <4>1, s \in D
    <3>4. Body(x, y, equal, base, f[0], s) = base[s]
      BY ONLY <3>1 DEF Body
    <3> QED BY ONLY <1>7, <3>3, <3>4
  <2> QED BY <2>1
<1>9. ASSUME NEW n \in T \cap Nat PROVE n + 1 \in T
  <2>0. n \in Nat /\ n + 1 \in Nat
    OBVIOUS
  <2>1. ASSUME (n + 1) + 1 <= N, NEW s \in D, s.b - s.a < n + 1
        PROVE  f[n + 1][s] = f[(n + 1) + 1][s]
    <3>1. n + 1 \in 1..N /\ (n + 1) + 1 \in 1..N /\ (n + 1) - 1 = n /\ ((n + 1) + 1) - 1 = n + 1
          /\ n + 1 <= N
      BY ONLY <1>1, <2>0, <2>1
    <3>2. \A t \in D : t.b - t.a < n => f[n][t] = f[n + 1][t]
      BY <3>1
    <3>3. \A t \in D : t.b - t.a < s.b - s.a => f[n][t] = f[n + 1][t]
      BY ONLY <1>2, <2>0, <2>1, <3>2, s \in D
    <3>4. Body(x, y, equal, base, f[n], s) = Body(x, y, equal, base, f[n + 1], s)
      BY <1>0, <3>3, BodyDepends
    <3>5. /\ f[n + 1][s] = Body(x, y, equal, base, f[n], s)
          /\ f[(n + 1) + 1][s] = Body(x, y, equal, base, f[n + 1], s)
      <4>1. /\ f[n + 1] = [z \in D |-> Body(x, y, equal, base, f[(n + 1) - 1], z)]
            /\ f[(n + 1) + 1] = [z \in D |-> Body(x, y, equal, base, f[((n + 1) + 1) - 1], z)]
        BY ONLY <1>7, <3>1
      <4> QED BY ONLY <3>1, <4>1, s \in D
    <3> QED BY ONLY <3>4, <3>5
  <2> QED BY <2>0, <2>1
<1> HIDE DEF T
<1>10. L + 1 \in T
  BY <1>1, <1>8, <1>9, Induction
<1>11. PICK g : g = f[L + 1]
  OBVIOUS
<1>12. g = [s \in D |-> Body(x, y, equal, base, g, s)]
  <2>1. /\ L + 1 \in 0..N /\ L + 2 \in 0..N /\ L + 2 \in 1..N /\ (L + 2) - 1 = L + 1
        /\ (L + 1) + 1 = L + 2 /\ L + 2 <= N
    BY ONLY <1>0, <1>1
  <2>2. \A s \in D : s.b - s.a < L + 1
    BY ONLY <1>1, <1>2
  <2>3. \A s \in D : f[L + 1][s] = f[L + 2][s]
    BY <1>10, <2>1, <2>2 DEF T
  <2>4. f[L + 1] = f[L + 2]
    BY ONLY <1>0, <1>7, <2>1, <2>3
  <2> QED BY ONLY <1>7, <1>11, <2>1, <2>4
<1> QED BY ONLY <1>0, <1>12 DEF Solution

\* What it says of each stretch.
LEMMA SolutionLinesUp ==
    ASSUME NEW x, NEW y, Sequences(x, y), NEW equal, NEW base, Base(x, y, equal, base),
           NEW g, Solution(x, y, equal, base, g)
    PROVE  \A s \in Stretches(x, y) :
               g[s] \in Seq(RowSet) /\ (Proper(s) => LinedUp(x, y, s, g[s]))
<1>0. PICK L, D : L = Len(x) /\ D = Stretches(x, y)
  OBVIOUS
<1>1. L \in Nat
  BY <1>0 DEF Sequences
<1>2. \A s \in D : s.b - s.a <= L /\ IsStretch(s) /\ s.a \in Nat /\ s.b \in Nat
  <2>1. ASSUME NEW s \in D PROVE s.b - s.a <= L /\ IsStretch(s) /\ s.a \in Nat /\ s.b \in Nat
    <3>1. IsStretch(s) /\ s.b <= L + 1
      BY <1>0, StretchFacts
    <3>2. s.a \in Nat /\ s.a # 0 /\ s.b \in Nat
      BY ONLY <3>1 DEF IsStretch
    <3> QED BY ONLY <1>1, <3>1, <3>2
  <2> QED BY <2>1
<1>3. \A s \in D : g[s] = Body(x, y, equal, base, g, s)
  BY <1>0 DEF Solution
<1> DEFINE Right(s) == g[s] \in Seq(RowSet) /\ (Proper(s) => LinedUp(x, y, s, g[s]))
           T == {n \in Nat : \A s \in D : s.b - s.a < n => Right(s)}
<1>4. ASSUME NEW s \in D, \A t \in D : t.b - t.a < s.b - s.a => Right(t)
      PROVE  Right(s)
  <2>1. g[s] \in Seq(RowSet)
    <3>1. \A t \in Stretches(x, y) : t.b - t.a < s.b - s.a => g[t] \in Seq(RowSet)
      BY <1>0, <1>4
    <3> QED BY <1>0, <1>3, <3>1, BodyTyped
  <2>2. ASSUME Proper(s), Blocks(s, equal) = {} PROVE LinedUp(x, y, s, g[s])
    <3>1. g[s] = base[s]
      BY <1>3, <2>2 DEF Body
    <3> QED BY <1>0, <2>2, <3>1 DEF Base
  <2>3. ASSUME Proper(s), Blocks(s, equal) # {} PROVE LinedUp(x, y, s, g[s])
    <3>0. PICK m, p, q : /\ m = Longest(Blocks(s, equal)) /\ p = g[Before(s, m)]
                         /\ q = g[After(s, m)]
      OBVIOUS
    <3>1. g[s] = p \o Pairs(x, y, m) \o q
      BY ONLY <1>3, <2>3, <3>0, s \in D DEF Body
    <3>2. /\ Fitting(s, m, equal) /\ Right(Before(s, m)) /\ Right(After(s, m))
      <4>1. /\ Fitting(s, m, equal)
            /\ Before(s, m) \in D /\ After(s, m) \in D
            /\ Before(s, m).b - Before(s, m).a < s.b - s.a
            /\ After(s, m).b - After(s, m).a < s.b - s.a
        BY <1>0, <2>3, <3>0, BodyParts
      <4> HIDE DEF Right
      <4> QED BY ONLY <1>4, <4>1
    <3>3. equal \subseteq OfOneKey(x, y)
      BY DEF Base
    <3>4. Proper(Before(s, m)) /\ Proper(After(s, m))
      BY <1>0, <2>3, <3>2, <3>3, SplitLinedUp
    <3>5. LinedUp(x, y, Before(s, m), p) /\ LinedUp(x, y, After(s, m), q)
      BY <3>0, <3>2, <3>4
    <3>6. LinedUp(x, y, s, p \o Pairs(x, y, m) \o q)
      BY <1>0, <2>3, <3>2, <3>3, <3>5, SplitLinedUp
    <3> QED BY ONLY <3>1, <3>6
  <2> QED BY <2>1, <2>2, <2>3
<1> HIDE DEF Right
<1>5. 0 \in T
  <2>1. ASSUME NEW s \in D, s.b - s.a < 0 PROVE Right(s)
    <3>1. g[s] = base[s] /\ ~Proper(s)
      <4>1. Blocks(s, equal) = {}
        BY <1>2, <2>1, NoBlocks
      <4>2. g[s] = base[s]
        BY <1>3, <4>1 DEF Body
      <4>3. ~(s.a <= s.b)
        BY ONLY <1>2, <2>1
      <4> QED BY ONLY <4>2, <4>3 DEF Proper
    <3> QED BY <1>0, <3>1 DEF Right, Base
  <2> QED BY <2>1
<1>6. ASSUME NEW n \in T \cap Nat PROVE n + 1 \in T
  <2>0. n \in Nat /\ n + 1 \in Nat /\ \A s \in D : s.b - s.a < n => Right(s)
    OBVIOUS
  <2>1. ASSUME NEW s \in D, s.b - s.a < n + 1 PROVE Right(s)
    <3>1. \A t \in D : t.b - t.a < s.b - s.a => t.b - t.a < n
      BY ONLY <1>2, <2>0, <2>1, s \in D
    <3> QED BY ONLY <1>4, <2>0, <3>1, s \in D
  <2> QED BY <2>0, <2>1
<1>7. ASSUME NEW s \in D PROVE Right(s)
  <2> HIDE DEF T
  <2>1. L + 1 \in T
    BY <1>1, <1>5, <1>6, Induction
  <2>2. s.b - s.a < L + 1
    BY ONLY <1>1, <1>2, s \in D
  <2> QED BY <2>1, <2>2 DEF T
<1> QED BY <1>0, <1>7 DEF Right

\* What is lined up by key.
LEMMA ByKeyLinesUp ==
    ASSUME NEW x, NEW y, Sequences(x, y)
    PROVE  \A s \in Stretches(x, y) :
               /\ ByKey(x, y, s) \in Seq(RowSet)
               /\ Proper(s) => LinedUp(x, y, s, ByKey(x, y, s))
<1>0. PICK base : base = [s \in Stretches(x, y) |-> Unpaired(s)]
  OBVIOUS
<1>1. Base(x, y, OfOneKey(x, y), base)
  <2>1. \A s \in Stretches(x, y) : Unpaired(s) \in Seq(RowSet)
    BY StretchFacts, UnpairedTyped
  <2>2. base \in [Stretches(x, y) -> Seq(RowSet)]
    BY ONLY <1>0, <2>1
  <2>3. ASSUME NEW s \in Stretches(x, y), Proper(s), Blocks(s, OfOneKey(x, y)) = {}
        PROVE  LinedUp(x, y, s, base[s])
    <3>1. LinedUp(x, y, s, Unpaired(s))
      BY <2>3, UnpairedLinedUp
    <3> QED BY ONLY <1>0, <3>1, s \in Stretches(x, y)
  <2> QED BY <2>2, <2>3 DEF Base
<1>2. PICK g : Solution(x, y, OfOneKey(x, y), base, g)
  BY <1>1, SolutionExists
<1> DEFINE rows[s \in Stretches(x, y)] ==
               LET blocks == Blocks(s, OfOneKey(x, y))
                   m == Longest(blocks)
               IN IF blocks = {} THEN Unpaired(s)
                  ELSE rows[Before(s, m)]
                       \o Pairs(x, y, m)
                       \o rows[After(s, m)]
<1>3. g = [s \in Stretches(x, y) |->
               LET blocks == Blocks(s, OfOneKey(x, y))
                   m == Longest(blocks)
               IN IF blocks = {} THEN Unpaired(s)
                  ELSE g[Before(s, m)]
                       \o Pairs(x, y, m)
                       \o g[After(s, m)]]
  <2>1. \A s \in Stretches(x, y) : base[s] = Unpaired(s)
    BY ONLY <1>0
  <2>2. g = [s \in Stretches(x, y) |-> Body(x, y, OfOneKey(x, y), base, g, s)]
    BY ONLY <1>2 DEF Solution
  <2> QED BY ONLY <2>1, <2>2 DEF Body
<1>4. rows = [s \in Stretches(x, y) |->
               LET blocks == Blocks(s, OfOneKey(x, y))
                   m == Longest(blocks)
               IN IF blocks = {} THEN Unpaired(s)
                  ELSE rows[Before(s, m)]
                       \o Pairs(x, y, m)
                       \o rows[After(s, m)]]
  BY <1>3
<1>5. \A s \in Stretches(x, y) : ByKey(x, y, s) = rows[s]
  BY DEF ByKey
<1> HIDE DEF rows
<1>6. Solution(x, y, OfOneKey(x, y), base, rows)
  <2>1. \A s \in Stretches(x, y) : base[s] = Unpaired(s)
    BY ONLY <1>0
  <2>2. \A s \in Stretches(x, y) : rows[s] = Body(x, y, OfOneKey(x, y), base, rows, s)
    BY ONLY <1>4, <2>1 DEF Body
  <2>3. rows = [s \in Stretches(x, y) |-> rows[s]]
    BY ONLY <1>4
  <2>4. rows = [s \in Stretches(x, y) |-> Body(x, y, OfOneKey(x, y), base, rows, s)]
    BY ONLY <2>2, <2>3
  <2> QED BY <2>4 DEF Solution
<1> QED BY <1>1, <1>5, <1>6, SolutionLinesUp

\* What is lined up by data first.
LEMMA AlignSolves ==
    ASSUME NEW x, NEW y, Sequences(x, y)
    PROVE  \E base, g : /\ Base(x, y, Alike(x, y), base) /\ Solution(x, y, Alike(x, y), base, g)
                        /\ Align(x, y) = g[Whole(x, y)]
<1>0. PICK base : base = [s \in Stretches(x, y) |-> ByKey(x, y, s)]
  OBVIOUS
<1>1. Base(x, y, Alike(x, y), base)
  <2>1. Alike(x, y) \subseteq OfOneKey(x, y)
    BY DEF Alike, OfOneKey, SameData, SameKey
  <2>2. base \in [Stretches(x, y) -> Seq(RowSet)]
    BY <1>0, ByKeyLinesUp
  <2>3. \A s \in Stretches(x, y) : Proper(s) => LinedUp(x, y, s, base[s])
    BY <1>0, ByKeyLinesUp
  <2> QED BY ONLY <2>1, <2>2, <2>3 DEF Base
<1>2. PICK g : Solution(x, y, Alike(x, y), base, g)
  BY <1>1, SolutionExists
<1> DEFINE rows[s \in Stretches(x, y)] ==
               LET blocks == Blocks(s, Alike(x, y))
                   m == Longest(blocks)
               IN IF blocks = {} THEN ByKey(x, y, s)
                  ELSE rows[Before(s, m)] \o Pairs(x, y, m)
                       \o rows[After(s, m)]
<1>3. g = [s \in Stretches(x, y) |->
               LET blocks == Blocks(s, Alike(x, y))
                   m == Longest(blocks)
               IN IF blocks = {} THEN ByKey(x, y, s)
                  ELSE g[Before(s, m)] \o Pairs(x, y, m)
                       \o g[After(s, m)]]
  <2>1. \A s \in Stretches(x, y) : base[s] = ByKey(x, y, s)
    BY ONLY <1>0
  <2>2. g = [s \in Stretches(x, y) |-> Body(x, y, Alike(x, y), base, g, s)]
    BY ONLY <1>2 DEF Solution
  <2> QED BY ONLY <2>1, <2>2 DEF Body
<1>4. rows = [s \in Stretches(x, y) |->
               LET blocks == Blocks(s, Alike(x, y))
                   m == Longest(blocks)
               IN IF blocks = {} THEN ByKey(x, y, s)
                  ELSE rows[Before(s, m)] \o Pairs(x, y, m)
                       \o rows[After(s, m)]]
  BY <1>3
<1>5. Align(x, y) = rows[Whole(x, y)]
  BY DEF Align
<1> HIDE DEF rows
<1>6. Solution(x, y, Alike(x, y), base, rows)
  <2>1. \A s \in Stretches(x, y) : base[s] = ByKey(x, y, s)
    BY ONLY <1>0
  <2>2. \A s \in Stretches(x, y) : rows[s] = Body(x, y, Alike(x, y), base, rows, s)
    BY ONLY <1>4, <2>1 DEF Body
  <2>3. rows = [s \in Stretches(x, y) |-> rows[s]]
    BY ONLY <1>4
  <2>4. rows = [s \in Stretches(x, y) |-> Body(x, y, Alike(x, y), base, rows, s)]
    BY ONLY <2>2, <2>3
  <2> QED BY <2>4 DEF Solution
<1> QED BY <1>1, <1>5, <1>6

\* The rows of two whole runs.
LEMMA AlignLinesUp ==
    ASSUME NEW x, NEW y, Sequences(x, y)
    PROVE  LinedUp(x, y, Whole(x, y), Align(x, y))
<1>1. Whole(x, y) \in Stretches(x, y) /\ Proper(Whole(x, y))
  <2>1. PICK n, m : n = Len(x) /\ m = Len(y)
    OBVIOUS
  <2>2. n \in Nat /\ m \in Nat
    BY <2>1 DEF Sequences
  <2>3. 1 \in 1..n + 1 /\ n + 1 \in 1..n + 1 /\ 1 \in 1..m + 1 /\ m + 1 \in 1..m + 1
        /\ 1 <= n + 1 /\ 1 <= m + 1
    BY ONLY <2>2
  <2> QED BY ONLY <2>1, <2>3 DEF Whole, Stretches, Proper
<1>2. PICK base, g : /\ Base(x, y, Alike(x, y), base) /\ Solution(x, y, Alike(x, y), base, g)
                     /\ Align(x, y) = g[Whole(x, y)]
  BY AlignSolves
<1> QED BY <1>1, <1>2, SolutionLinesUp

\* Runs of the same actions have only rows that say so.
LEMMA SameAligned ==
    ASSUME NEW x, NEW y, Sequences(x, y), Len(x) = Len(y),
           \A i \in DOMAIN x : SameData(x[i], y[i])
    PROVE  \A i \in DOMAIN Align(x, y) : Align(x, y)[i].mark = "same"
<1>0. PICK n, s, equal : n = Len(x) /\ s = Whole(x, y) /\ equal = Alike(x, y)
  OBVIOUS
<1>1. n \in Nat /\ DOMAIN x = 1..n /\ DOMAIN y = 1..n
  BY <1>0 DEF Sequences
<1>2. s = [a |-> 1, b |-> n + 1, c |-> 1, d |-> n + 1] /\ s \in Stretches(x, y)
  <2>1. 1 \in 1..n + 1 /\ n + 1 \in 1..n + 1
    BY ONLY <1>1
  <2> QED BY ONLY <1>0, <2>1, Len(x) = Len(y) DEF Whole, Stretches
<1>3. LinedUp(x, y, s, Align(x, y))
  BY <1>0, AlignLinesUp
<1>4. ASSUME NEW t, IsStretch(t), t.a = t.b, t.c = t.d, NEW p, LinedUp(x, y, t, p)
      PROVE  p = <<>>
  <2>1. t.a \in Nat /\ t.c \in Nat /\ t.b = t.a /\ t.d = t.c
    BY ONLY <1>4 DEF IsStretch
  <2>2. p \in Seq(RowSet) /\ \A i \in DOMAIN p : p[i] \in RowSet /\ RowFits(x, y, t, p[i])
    BY ONLY <1>4 DEF LinedUp
  <2>3. ASSUME NEW i \in DOMAIN p PROVE FALSE
    <3>1. p[i].a \in Nat /\ p[i].b \in Nat /\ p[i].mark \in Marks
      BY ONLY <2>2, i \in DOMAIN p DEF RowSet
    <3>2. p[i].a = 0 /\ p[i].b = 0
      BY ONLY <2>1, <2>2, <3>1, i \in DOMAIN p DEF RowFits
    <3> QED BY ONLY <2>2, <3>2, i \in DOMAIN p DEF RowFits
  <2> QED BY ONLY <2>2, <2>3
<1>5. CASE n = 0
  <2>1. IsStretch(s) /\ s.a = s.b /\ s.c = s.d
    BY ONLY <1>2, <1>5 DEF IsStretch
  <2>2. Align(x, y) = <<>>
    BY <1>3, <1>4, <2>1
  <2> QED BY <2>2
<1>6. CASE n # 0
  <2>1. PICK base, g : /\ Base(x, y, equal, base) /\ Solution(x, y, equal, base, g)
                       /\ Align(x, y) = g[s]
    BY <1>0, AlignSolves
  <2>2. <<1, 1, n>> \in Blocks(s, equal)
    <3>1. \A k \in 0..n - 1 : 1 + k \in 1..n
      BY ONLY <1>1
    <3>2. \A k \in 0..n - 1 : <<1 + k, 1 + k>> \in equal
      BY <1>0, <1>1, <3>1 DEF Alike
    <3>3. <<1, 1, n>> \in (s.a..s.b - 1) \X (s.c..s.d - 1) \X (1..s.b - s.a)
          /\ 1 + n <= s.b /\ 1 + n <= s.d
      BY ONLY <1>1, <1>2, <1>6
    <3> QED BY ONLY <3>2, <3>3 DEF Blocks
  <2>3. PICK m : m = Longest(Blocks(s, equal))
    OBVIOUS
  <2>4. Fitting(s, m, equal) /\ n <= m[3] /\ Before(s, m) \in Stretches(x, y)
        /\ After(s, m) \in Stretches(x, y)
    <3>1. IsStretch(s)
      BY <1>2, StretchFacts
    <3>2. m \in Blocks(s, equal) /\ \A k \in Blocks(s, equal) : k[3] <= m[3]
      BY <2>2, <2>3, <3>1, LongestExists
    <3>3. n <= m[3]
      BY ONLY <2>2, <3>2
    <3> QED BY <1>2, <2>2, <2>3, <3>3, BodyParts
  <2>5. m[1] = 1 /\ m[2] = 1 /\ m[3] = n
    BY ONLY <1>1, <1>2, <2>4 DEF Fitting
  <2>6. PICK u, w, p, q, r : /\ u = Before(s, m) /\ w = After(s, m) /\ p = g[u] /\ q = g[w]
                             /\ r = Pairs(x, y, m)
    OBVIOUS
  <2>7. /\ u.a = 1 /\ u.b = 1 /\ u.c = 1 /\ u.d = 1
        /\ w.a = n + 1 /\ w.b = n + 1 /\ w.c = n + 1 /\ w.d = n + 1
    <3>1. /\ u.a = s.a /\ u.b = m[1] /\ u.c = s.c /\ u.d = m[2]
          /\ w.a = m[1] + m[3] /\ w.b = s.b /\ w.c = m[2] + m[3] /\ w.d = s.d
      BY <1>2, <2>4, <2>6, BlockSplits
    <3> QED BY ONLY <1>1, <1>2, <2>5, <3>1
  <2>8. p = <<>> /\ q = <<>>
    <3>1. IsStretch(u) /\ IsStretch(w) /\ Proper(u) /\ Proper(w)
      <4>1. n + 1 \in Nat /\ n + 1 # 0 /\ n + 1 <= n + 1 /\ 1 <= 1
        BY ONLY <1>1
      <4> QED BY ONLY <2>7, <4>1 DEF IsStretch, Proper
    <3>2. LinedUp(x, y, u, p) /\ LinedUp(x, y, w, q)
      <4>1. u \in Stretches(x, y) /\ w \in Stretches(x, y)
        BY ONLY <2>4, <2>6
      <4> QED BY <1>0, <2>1, <2>6, <3>1, <4>1, SolutionLinesUp
    <3> QED BY <1>4, <2>7, <3>1, <3>2
  <2>9. g[s] = p \o r \o q
    <3>1. Blocks(s, equal) # {}
      BY ONLY <2>2
    <3>2. g[s] = Body(x, y, equal, base, g, s)
      BY ONLY <1>2, <2>1 DEF Solution
    <3> QED BY ONLY <2>3, <2>6, <3>1, <3>2 DEF Body
  <2>10. r = [k \in 1..n |-> [mark |-> PairMark(x[k], y[k]), a |-> k, b |-> k]]
    <3>1. \A k \in 1..n : 1 + k - 1 = k
      BY ONLY <1>1
    <3>2. r = [k \in 1..n |-> Row(PairMark(x[1 + k - 1], y[1 + k - 1]), 1 + k - 1, 1 + k - 1)]
      BY ONLY <2>5, <2>6 DEF Pairs
    <3> QED BY ONLY <3>1, <3>2 DEF Row
  <2>11. \A k \in 1..n : r[k].mark = "same"
    <3>1. \A k \in 1..n : PairMark(x[k], y[k]) = "same"
      BY <1>1 DEF PairMark, SameData
    <3> QED BY ONLY <2>10, <3>1
  <2>12. r \in Seq(RowSet) /\ DOMAIN r = 1..n
    <3>1. \A k \in 1..n : [mark |-> PairMark(x[k], y[k]), a |-> k, b |-> k] \in RowSet
      BY ONLY <1>1 DEF PairMark, RowSet, Marks
    <3>2. r \in [1..n -> RowSet]
      BY ONLY <2>10, <3>1
    <3> QED BY ONLY <1>1, <3>2
  <2>13. g[s] = r
    BY ONLY <2>8, <2>9, <2>12
  <2> QED BY ONLY <2>1, <2>11, <2>12, <2>13
<1> QED BY <1>5, <1>6

-----------------------------------------------------------------------------
(* Stored runs, and what their comparison says. *)

\* The events that have a line.
Listed == {e \in Recordable : HasLine(e)}

\* A run's lines are events of it that have one.
LEMMA LinesTyped ==
    ASSUME NEW run \in Seq(Recordable)
    PROVE  Lines(run) \in Seq(Listed)
<1>0. PICK N, S : N = Len(run) /\ S = Seq(Listed)
  OBVIOUS
<1>1. N \in Nat /\ \A n \in 1..N : run[n] \in Recordable
  BY <1>0
<1>2. \A n \in 1..N, h \in S : (IF HasLine(run[n]) THEN Append(h, run[n]) ELSE h) \in S
  <2>1. \A e \in Listed, h \in Seq(Listed) : Append(h, e) \in Seq(Listed)
    OBVIOUS
  <2>2. \A n \in 1..N : HasLine(run[n]) => run[n] \in Listed
    BY <1>1 DEF Listed
  <2> QED BY ONLY <1>0, <2>1, <2>2
<1>3. PICK step : step = [n \in 1..N |-> [h \in S |-> IF HasLine(run[n]) THEN Append(h, run[n]) ELSE h]]
  OBVIOUS
<1>4. step \in [1..N -> [S -> S]] /\ <<>> \in S
  BY ONLY <1>0, <1>2, <1>3
<1>5. PICK g : Runs(g, S, N, <<>>, step)
  BY <1>1, <1>4, Recursion
<1>6. g \in [0..N -> S] /\ g[0] = <<>> /\ \A n \in 1..N : g[n] = step[n][g[n - 1]]
  BY ONLY <1>5 DEF Runs
<1> DEFINE upTo[n \in 0..Len(run)] ==
            IF n = 0 THEN <<>>
            ELSE IF HasLine(run[n]) THEN Append(upTo[n - 1], run[n]) ELSE upTo[n - 1]
<1>7. g = [n \in 0..Len(run) |->
            IF n = 0 THEN <<>>
            ELSE IF HasLine(run[n]) THEN Append(g[n - 1], run[n]) ELSE g[n - 1]]
  <2>1. ASSUME NEW n \in 0..N
        PROVE  g[n] = IF n = 0 THEN <<>>
                      ELSE IF HasLine(run[n]) THEN Append(g[n - 1], run[n]) ELSE g[n - 1]
    <3>1. CASE n = 0
      BY ONLY <1>6, <3>1
    <3>2. CASE n # 0
      <4>1. n \in 1..N /\ n - 1 \in 0..N
        BY ONLY <1>1, <3>2, n \in 0..N
      <4>2. PICK h : h = g[n - 1]
        OBVIOUS
      <4>3. h \in S /\ g[n] = step[n][h]
        BY ONLY <1>6, <4>1, <4>2
      <4>4. step[n][h] = IF HasLine(run[n]) THEN Append(h, run[n]) ELSE h
        BY ONLY <1>3, <4>1, <4>3
      <4> QED BY ONLY <3>2, <4>2, <4>3, <4>4
    <3> QED BY ONLY <3>1, <3>2
  <2>2. g = [n \in 0..N |-> g[n]]
    BY ONLY <1>6
  <2> QED BY ONLY <1>0, <2>1, <2>2
<1>8. upTo = [n \in 0..Len(run) |->
            IF n = 0 THEN <<>>
            ELSE IF HasLine(run[n]) THEN Append(upTo[n - 1], run[n]) ELSE upTo[n - 1]]
  BY <1>7
<1>9. Lines(run) = upTo[N]
  BY <1>0 DEF Lines
<1> HIDE DEF upTo
<1> DEFINE T == {n \in Nat : n <= N => upTo[n] \in S}
<1>10. 0 \in T
  <2>1. 0 \in 0..Len(run)
    BY ONLY <1>0, <1>1
  <2>2. upTo[0] = <<>>
    BY <1>8, <2>1
  <2> QED BY <1>4, <2>2
<1>11. ASSUME NEW n \in T \cap Nat PROVE n + 1 \in T
  <2>1. PICK k : k = n + 1
    OBVIOUS
  <2>2. n \in Nat /\ k \in Nat /\ k - 1 = n /\ k # 0
    BY <2>1
  <2>3. ASSUME k <= N PROVE upTo[k] \in S
    <3>1. k \in 0..Len(run) /\ k \in 1..N /\ n <= N
      BY ONLY <1>0, <1>1, <2>1, <2>2, <2>3
    <3>2. upTo[n] \in S
      BY <3>1
    <3>3. upTo[k] = IF HasLine(run[k]) THEN Append(upTo[k - 1], run[k]) ELSE upTo[k - 1]
      BY <1>8, <2>2, <3>1
    <3>4. upTo[k - 1] = upTo[n]
      BY ONLY <2>2
    <3> HIDE DEF upTo
    <3> QED BY ONLY <1>2, <3>1, <3>2, <3>3, <3>4
  <2> QED BY <2>1, <2>2, <2>3
<1> HIDE DEF T
<1>12. N \in T
  BY <1>1, <1>10, <1>11, Induction
<1> QED BY <1>0, <1>1, <1>9, <1>12 DEF T

\* Two events are equal but for the flags that do not say what became of the write.
LEMMA SameButFlags ==
    ASSUME NEW e \in Recordable, NEW d \in Recordable
    PROVE  [e EXCEPT !.flags = @ \cap OutcomeFlags] = [d EXCEPT !.flags = @ \cap OutcomeFlags]
           <=> /\ e.tool = d.tool /\ e.name = d.name /\ e.sent = d.sent /\ e.json = d.json
               /\ e.by = d.by /\ e.outcome = d.outcome
               /\ e.flags \cap OutcomeFlags = d.flags \cap OutcomeFlags
<1>1. e = [field \in EventFields |-> e[field]] /\ d = [field \in EventFields |-> d[field]]
  BY CompareAssumption
<1>2. PICK u, v : u = e.flags \cap OutcomeFlags /\ v = d.flags \cap OutcomeFlags
  OBVIOUS
<1>3. PICK x, y : x = [e EXCEPT !.flags = u] /\ y = [d EXCEPT !.flags = v]
  OBVIOUS
<1>4. /\ x = [field \in EventFields |-> IF field = "flags" THEN u ELSE e[field]]
      /\ y = [field \in EventFields |-> IF field = "flags" THEN v ELSE d[field]]
  BY ONLY <1>1, <1>3 DEF EventFields
<1>5. x = y <=> \A field \in EventFields : x[field] = y[field]
  BY ONLY <1>4
<1>6. (\A field \in EventFields : x[field] = y[field])
      <=> /\ e.tool = d.tool /\ e.name = d.name /\ e.sent = d.sent /\ e.json = d.json
          /\ e.by = d.by /\ e.outcome = d.outcome /\ u = v
  BY ONLY <1>4 DEF EventFields
<1> QED BY ONLY <1>2, <1>3, <1>5, <1>6

\* Two actions are the same just when the writes are.
LEMMA SameWrites ==
    ASSUME NEW e \in Listed, NEW d \in Listed
    PROVE  SameData(ActionOf(e), ActionOf(d)) <=>
              /\ "body-truncated" \notin e.flags /\ (e.tool => e.json)
              /\ [e EXCEPT !.flags = @ \cap OutcomeFlags] = [d EXCEPT !.flags = @ \cap OutcomeFlags]
<1>1. /\ e \in Recordable /\ d \in Recordable /\ HasLine(e) /\ HasLine(d)
  BY DEF Listed
<1>2. /\ e.tool \in BOOLEAN /\ d.tool \in BOOLEAN /\ e.json \in BOOLEAN /\ d.json \in BOOLEAN
      /\ e.tool => e.flags = {}
      /\ d.tool => d.flags = {}
      /\ ~e.tool /\ ~d.tool /\ e.sent = d.sent => e.json = d.json
  BY <1>1, CompareAssumption
<1>3. (e.tool => e.by = "shadow") /\ (d.tool => d.by = "shadow")
  BY <1>1 DEF HasLine
<1>4. SameData(ActionOf(e), ActionOf(d)) <=>
         /\ ~(~e.tool /\ "body-truncated" \in e.flags) /\ ~(~d.tool /\ "body-truncated" \in d.flags)
         /\ e.json \/ ~e.tool
         /\ d.json \/ ~d.tool
         /\ e.tool = d.tool /\ e.name = d.name /\ e.sent = d.sent
         /\ (IF e.tool THEN <<e.outcome>> ELSE <<e.by, e.outcome, e.flags \cap OutcomeFlags>>)
            = (IF d.tool THEN <<d.outcome>> ELSE <<d.by, d.outcome, d.flags \cap OutcomeFlags>>)
  BY DEF SameData, ActionOf
<1>5. /\ "body-truncated" \in e.flags <=> "body-truncated" \in e.flags \cap OutcomeFlags
      /\ "body-truncated" \in d.flags <=> "body-truncated" \in d.flags \cap OutcomeFlags
  BY DEF OutcomeFlags
<1>6. SameData(ActionOf(e), ActionOf(d)) <=>
         /\ "body-truncated" \notin e.flags /\ (e.tool => e.json)
         /\ e.tool = d.tool /\ e.name = d.name /\ e.sent = d.sent /\ e.json = d.json
         /\ e.by = d.by /\ e.outcome = d.outcome
         /\ e.flags \cap OutcomeFlags = d.flags \cap OutcomeFlags
  <2>1. CASE e.tool /\ d.tool
    BY ONLY <1>2, <1>3, <1>4, <2>1
  <2>2. CASE ~e.tool /\ ~d.tool
    BY ONLY <1>2, <1>4, <1>5, <2>2
  <2>3. CASE e.tool # d.tool
    BY ONLY <1>4, <2>3
  <2> QED BY ONLY <1>2, <2>1, <2>2, <2>3
<1> QED BY <1>1, <1>6, SameButFlags

\* The actions of two runs are sequences, one action for each line.
LEMMA ActionsTyped ==
    ASSUME runA \in Seq(Recordable), runB \in Seq(Recordable)
    PROVE  /\ Sequences(A, B)
           /\ Len(A) = Len(Lines(runA)) /\ Len(B) = Len(Lines(runB))
           /\ \A i \in DOMAIN A : A[i] = ActionOf(Lines(runA)[i]) /\ Lines(runA)[i] \in Listed
           /\ \A i \in DOMAIN B : B[i] = ActionOf(Lines(runB)[i]) /\ Lines(runB)[i] \in Listed
<1>1. ASSUME NEW lines \in Seq(Listed), NEW x, x = [i \in DOMAIN lines |-> ActionOf(lines[i])]
      PROVE  /\ Len(x) \in Nat /\ DOMAIN x = 1..Len(x) /\ Len(x) = Len(lines)
             /\ \A i \in DOMAIN x : x[i] = ActionOf(lines[i]) /\ lines[i] \in Listed
  <2>1. PICK n : n = Len(lines)
    OBVIOUS
  <2>2. n \in Nat /\ DOMAIN lines = 1..n /\ \A i \in 1..n : lines[i] \in Listed
    BY <2>1
  <2>3. x = [i \in 1..n |-> ActionOf(lines[i])]
    BY ONLY <1>1, <2>2
  <2>4. Len(x) = n /\ DOMAIN x = 1..n /\ \A i \in 1..n : x[i] = ActionOf(lines[i])
    BY ONLY <2>2, <2>3
  <2> QED BY ONLY <2>1, <2>2, <2>3, <2>4
<1>2. PICK a, b : a = Lines(runA) /\ b = Lines(runB)
  OBVIOUS
<1>3. a \in Seq(Listed) /\ b \in Seq(Listed)
  BY <1>2, LinesTyped
<1>4. A = [i \in DOMAIN a |-> ActionOf(a[i])] /\ B = [i \in DOMAIN b |-> ActionOf(b[i])]
  BY <1>2 DEF A, B, ActionsOf
<1>5. /\ Len(A) \in Nat /\ DOMAIN A = 1..Len(A) /\ Len(A) = Len(a)
      /\ \A i \in DOMAIN A : A[i] = ActionOf(a[i]) /\ a[i] \in Listed
  BY ONLY <1>1, <1>3, <1>4
<1>6. /\ Len(B) \in Nat /\ DOMAIN B = 1..Len(B) /\ Len(B) = Len(b)
      /\ \A i \in DOMAIN B : B[i] = ActionOf(b[i]) /\ b[i] \in Listed
  BY ONLY <1>1, <1>3, <1>4
<1> QED BY <1>2, <1>5, <1>6 DEF Sequences

\* The rows of a comparison have the writes of both runs, as they were made.
LEMMA RowsFound ==
    ASSUME runA \in Seq(Recordable), runB \in Seq(Recordable)
    PROVE  RowsLineUp
<1>0. PICK rows, s, x, y : rows = Rows /\ s = Whole(A, B) /\ x = A /\ y = B
  OBVIOUS
<1>1. Sequences(x, y)
  BY <1>0, ActionsTyped
<1>2. LinedUp(x, y, s, rows)
  BY <1>0, <1>1, AlignLinesUp DEF Rows
<1>3. PICK n, m : n = Len(x) /\ m = Len(y)
  OBVIOUS
<1>4. n \in Nat /\ m \in Nat /\ DOMAIN x = 1..n /\ DOMAIN y = 1..m
  BY <1>1, <1>3 DEF Sequences
<1>5. s.a = 1 /\ s.b = n + 1 /\ s.c = 1 /\ s.d = m + 1
  BY <1>0, <1>3 DEF Whole
<1>6. rows \in Seq(RowSet) /\ HasAll(s, rows) /\ Parted(x, y, rows)
      /\ \A i \in DOMAIN rows : RowFits(x, y, s, rows[i])
  BY <1>2 DEF LinedUp
<1>7. \A i \in DOMAIN rows : rows[i] \in RowSet
  BY <1>6
<1>8. \A i \in DOMAIN rows : /\ rows[i].a \in Nat /\ rows[i].b \in Nat
                             /\ rows[i].a # 0 => rows[i].a \in DOMAIN x
                             /\ rows[i].b # 0 => rows[i].b \in DOMAIN y
  <2> SUFFICES ASSUME NEW i \in DOMAIN rows
               PROVE  /\ rows[i].a \in Nat /\ rows[i].b \in Nat
                      /\ rows[i].a # 0 => rows[i].a \in DOMAIN x
                      /\ rows[i].b # 0 => rows[i].b \in DOMAIN y
    OBVIOUS
  <2>1. rows[i].a \in Nat /\ rows[i].b \in Nat
    BY <1>7 DEF RowSet
  <2>2. /\ rows[i].a # 0 => 1 <= rows[i].a /\ rows[i].a < n + 1
        /\ rows[i].b # 0 => 1 <= rows[i].b /\ rows[i].b < m + 1
    BY ONLY <1>5, <1>6, i \in DOMAIN rows DEF RowFits
  <2> QED BY ONLY <1>4, <2>1, <2>2
<1>9. /\ \A k \in DOMAIN x : \E i \in DOMAIN rows : rows[i].a = k
      /\ \A k \in DOMAIN y : \E i \in DOMAIN rows : rows[i].b = k
  <2>1. /\ \A k \in DOMAIN x : k \in Nat /\ 1 <= k /\ k < n + 1
        /\ \A k \in DOMAIN y : k \in Nat /\ 1 <= k /\ k < m + 1
    BY ONLY <1>4
  <2> QED BY ONLY <1>5, <1>6, <2>1 DEF HasAll
<1>10. 0 \notin DOMAIN x /\ 0 \notin DOMAIN y
  BY ONLY <1>4
<1>11. InOrder(rows, LAMBDA r : r.a, x)
  <2>1. {rows[i].a : i \in DOMAIN rows} \ {0} = DOMAIN x
    BY ONLY <1>8, <1>9, <1>10
  <2> QED BY ONLY <1>6, <2>1 DEF InOrder, HasAll
<1>12. InOrder(rows, LAMBDA r : r.b, y)
  <2>1. {rows[i].b : i \in DOMAIN rows} \ {0} = DOMAIN y
    BY ONLY <1>8, <1>9, <1>10
  <2> QED BY ONLY <1>6, <2>1 DEF InOrder, HasAll
<1>13. \A i \in DOMAIN rows :
          rows[i].a # 0 /\ rows[i].b # 0 => SameKey(x[rows[i].a], y[rows[i].b])
  BY ONLY <1>6 DEF RowFits
<1>14. \A i, j \in DOMAIN rows :
          rows[i].mark = "only_a" /\ rows[j].mark = "only_b" /\ SameKey(x[rows[i].a], y[rows[j].b]) =>
              \E k \in DOMAIN rows :
                  /\ rows[k].a # 0 /\ rows[k].b # 0
                  /\ (i < k /\ k < j) \/ (j < k /\ k < i)
  BY ONLY <1>6 DEF Parted, PairRow
<1> QED BY ONLY <1>0, <1>11, <1>12, <1>13, <1>14 DEF RowsLineUp

\* The exit code says whether the runs are the same.
LEMMA CodeTells ==
    ASSUME runA \in Seq(Recordable), runB \in Seq(Recordable), dropped \in BOOLEAN
    PROVE  OkMeansSameWrites
<1>0. PICK rows, s, x, y, a, b : /\ rows = Rows /\ s = Whole(A, B) /\ x = A /\ y = B
                                 /\ a = Lines(runA) /\ b = Lines(runB)
  OBVIOUS
<1>1. /\ Sequences(x, y) /\ Len(x) = Len(a) /\ Len(y) = Len(b)
      /\ \A i \in DOMAIN x : x[i] = ActionOf(a[i]) /\ a[i] \in Listed
      /\ \A i \in DOMAIN y : y[i] = ActionOf(b[i]) /\ b[i] \in Listed
  BY <1>0, ActionsTyped
<1>2. a \in Seq(Listed) /\ b \in Seq(Listed)
  BY <1>0, LinesTyped
<1>3. PICK n, m : n = Len(x) /\ m = Len(y)
  OBVIOUS
<1>4. n \in Nat /\ m \in Nat /\ DOMAIN x = 1..n /\ DOMAIN y = 1..m
  BY <1>1, <1>3 DEF Sequences
<1>5. Len(a) = n /\ Len(b) = m /\ DOMAIN a = 1..n /\ DOMAIN b = 1..m
  <2>1. DOMAIN a = 1..Len(a) /\ DOMAIN b = 1..Len(b)
    BY ONLY <1>2
  <2> QED BY ONLY <1>1, <1>3, <2>1
<1>6. s.a = 1 /\ s.b = n + 1 /\ s.c = 1 /\ s.d = m + 1
  BY <1>0, <1>3 DEF Whole
<1>7. (\A i \in DOMAIN rows : rows[i].mark = "same")
      <=> n = m /\ \A i \in 1..n : SameData(x[i], y[i])
  <2>1. ASSUME \A i \in DOMAIN rows : rows[i].mark = "same"
        PROVE  n = m /\ \A i \in 1..n : SameData(x[i], y[i])
    <3>1. AllSame(x, y, s, rows)
      BY <1>0, <1>1, AlignLinesUp DEF Rows, LinedUp
    <3>2. /\ (n + 1) - 1 = (m + 1) - 1
          /\ \A k \in Nat : 1 <= k /\ k < n + 1 => SameData(x[k], y[1 + (k - 1)])
      BY ONLY <1>6, <2>1, <3>1 DEF AllSame
    <3>3. ASSUME NEW i \in 1..n PROVE SameData(x[i], y[i])
      <4>1. i \in Nat /\ 1 <= i /\ i < n + 1 /\ 1 + (i - 1) = i
        BY ONLY <1>4, i \in 1..n
      <4>2. SameData(x[i], y[1 + (i - 1)])
        BY ONLY <3>2, <4>1
      <4> QED BY ONLY <4>1, <4>2
    <3> QED BY ONLY <1>4, <3>2, <3>3
  <2>2. ASSUME n = m, \A i \in 1..n : SameData(x[i], y[i])
        PROVE  \A i \in DOMAIN rows : rows[i].mark = "same"
    <3>1. Len(x) = Len(y) /\ \A i \in DOMAIN x : SameData(x[i], y[i])
      BY ONLY <1>3, <1>4, <2>2
    <3>2. rows = Align(x, y)
      BY ONLY <1>0 DEF Rows
    <3>3. \A i \in DOMAIN Align(x, y) : Align(x, y)[i].mark = "same"
      BY ONLY <1>1, <3>1, SameAligned
    <3> QED BY ONLY <3>2, <3>3
  <2> QED BY <2>1, <2>2
<1>8. ReportCode(rows) = OK <=> ~dropped /\ \A i \in DOMAIN rows : rows[i].mark = "same"
  BY ONLY dropped \in BOOLEAN DEF ReportCode, ComparisonCode, OK, DIFFERENT
<1>9. ASSUME n = m, NEW i \in 1..n
      PROVE  SameData(x[i], y[i])
             <=> /\ "body-truncated" \notin a[i].flags /\ (a[i].tool => a[i].json)
                 /\ [a[i] EXCEPT !.flags = @ \cap OutcomeFlags]
                      = [b[i] EXCEPT !.flags = @ \cap OutcomeFlags]
  <2>1. x[i] = ActionOf(a[i]) /\ y[i] = ActionOf(b[i]) /\ a[i] \in Listed /\ b[i] \in Listed
    BY ONLY <1>1, <1>4, <1>9
  <2> QED BY <2>1, SameWrites
<1>10. ReportCode(rows) = OK
       <=> /\ ~dropped
           /\ Len(a) = Len(b)
           /\ \A i \in DOMAIN a :
                  /\ "body-truncated" \notin a[i].flags /\ (a[i].tool => a[i].json)
                  /\ [a[i] EXCEPT !.flags = @ \cap OutcomeFlags]
                       = [b[i] EXCEPT !.flags = @ \cap OutcomeFlags]
  BY ONLY <1>5, <1>7, <1>8, <1>9
<1> QED BY ONLY <1>0, <1>10 DEF OkMeansSameWrites

\* The stored runs hold events that runs may hold.
CompareInv ==
    runA \in Seq(Recordable) /\ runB \in Seq(Recordable) /\ dropped \in BOOLEAN

\* A comparison shows every write of both runs in its place, and its exit code is
\* OK just when they wrote the same, whatever the two runs are (align, exit_code).
THEOREM RunsAreCompared == ReplaysSpec => []ComparisonTells
<1>1. ReplaysInit => CompareInv
  <2>1. <<>> \in Seq(Recordable)
    OBVIOUS
  <2> QED BY ONLY <2>1 DEF ReplaysInit, CompareInit, CompareInv
<1>2. CompareInv /\ [ReplaysNext]_<<part, vars, summaryVars, compareVars>> => CompareInv'
  <2> SUFFICES ASSUME CompareInv, [ReplaysNext]_<<part, vars, summaryVars, compareVars>>
               PROVE  CompareInv'
    OBVIOUS
  <2>1. ASSUME NEW e \in Recordable, RecordA(e) PROVE CompareInv'
    BY <2>1 DEF RecordA, CompareInv
  <2>2. ASSUME NEW e \in Recordable, RecordB(e) PROVE CompareInv'
    BY <2>2 DEF RecordB, CompareInv
  <2>3. CASE Drop
    BY <2>3 DEF Drop, CompareInv
  <2>4. CASE UNCHANGED compareVars
    BY <2>4 DEF compareVars, CompareInv
  <2> QED BY <2>1, <2>2, <2>3, <2>4 DEF ReplaysNext, CompareNext
<1>3. CompareInv => ComparisonTells
  BY RowsFound, CodeTells DEF CompareInv, ComparisonTells
<1> QED BY <1>1, <1>2, <1>3, PTL DEF ReplaysSpec

-----------------------------------------------------------------------------
\* A replay's answers come about as its index's specification says, also where
\* the summary and the comparison are looked at: what is proved of them above
\* holds of every behaviour of Replays.
THEOREM AnswersInReplays == ReplaysSpec => Spec
<1>1. ReplaysInit => Init
  BY DEF ReplaysInit
<1>2. [ReplaysNext]_<<part, vars, summaryVars, compareVars>> => [Next]_vars
  BY DEF ReplaysNext
<1> QED BY <1>1, <1>2, PTL DEF ReplaysSpec, Spec

=============================================================================
