----------------------------- MODULE ReplayIndex -----------------------------
(***************************************************************************)
(* A replay: an agent run again under a policy that answers from a stored  *)
(* run (ReplayPolicy, ReplayIndex).                                        *)
(*                                                                         *)
(* Each recorded exchange answers once, in recorded order, the request it  *)
(* matches.  A recorded read, and a write that was checked, may show       *)
(* earlier writes; once the replay has not made one of those, the answer   *)
(* is stale and the replay has diverged.  Requests are decided on worker   *)
(* threads: a lookup of the standing of a write's idempotency key, the     *)
(* index's lookup and the mark that the replay diverged are three calls    *)
(* under two locks, and the calls of several requests interleave.          *)
(***************************************************************************)
EXTENDS Naturals, Sequences, FiniteSets

CONSTANTS
    Live,        \* the replay's requests and read tool calls
    Matches,     \* what requests are matched by, a set of MatchSet
    Keys,        \* idempotency keys
    NoKey, NoMatch,
    Recordings   \* stored runs, sequences of EventSet

Kinds == {"read", "llm", "write", "tool"}

\* A request's match key (its redacted content) or a tool call's name and args.
MatchSet == [name : STRING, kind : Kinds, key : Keys \cup {NoKey}]
Standings == {"", "replay", "conflict"}

\* An event: a match, the idempotency standing its answer had, whether a replay
\* may serve it (_servable, _tool_servable), whether it is a write irimi faked
\* (is_authored_write) or checked, and its clock.
EventSet == [match : Matches, standing : Standings, servable : BOOLEAN, faked : BOOLEAN,
             checked : BOOLEAN, from : Nat, to : Nat]

ASSUME ReplayAssumption ==
    /\ Matches \subseteq MatchSet
    /\ \A rec \in Recordings : rec \in Seq(EventSet)
    /\ NoKey \notin Keys
    /\ NoMatch \notin Matches

VARIABLES
    rec,       \* the stored run's events, the agent's in seq order
    consumed,  \* the entries used up
    diverged,
    held,      \* idempotency.Store: the match a key's first answer was given to
    pc, want,  \* where each request is, and what it asks
    standing,  \* of its key, as it was looked up
    took,      \* the entry its lookup used up, 0 for none
    served,    \* the entry that answers it, 0 for none
    after      \* history: the requests already answered when it was sent

requestVars == <<pc, want, standing, took, served, after>>
vars == <<rec, consumed, diverged, held, pc, want, standing, took, served, after>>

-----------------------------------------------------------------------------
(* from_events: what the index knows of a recording.                        *)

Entries(k) == {i \in DOMAIN rec : rec[i].match.kind = k}
Exchanges == DOMAIN rec \ Entries("tool")

\* made_within: i's span lies in j's; a start of 0 is no clock.
Within(i, j) == rec[i].from > 0 /\ rec[j].from <= rec[i].from /\ rec[i].to <= rec[j].to

\* The exchanges recorded in a tool call's span.
Inner(t) == {i \in Exchanges : Within(i, t)}

\* The read tool calls nested in t's span; calls clocked alike never nest.
NestedIn(t) ==
    {u \in Entries("tool") :
        Within(u, t) /\ <<rec[u].from, rec[u].to>> # <<rec[t].from, rec[t].to>>}

\* Those that answering t uses up: a later call like it lies outside the span.
Displaced(t) ==
    {u \in NestedIn(t) :
        \E v \in Entries("tool") \ NestedIn(t) : v > u /\ rec[v].match = rec[u].match}

\* Where an entry stands: a tool call where its body began.
Least(S) == CHOOSE i \in S : \A j \in S : i <= j
Position(i) == IF i \in Exchanges THEN i ELSE Least({i} \cup Inner(i))

FakedWrites == {i \in Exchanges : rec[i].match.kind = "write" /\ rec[i].faked}

DependsOnPriorWrites(i) ==
    \/ rec[i].match.kind \in {"read", "tool"}
    \/ rec[i].match.kind = "write" /\ rec[i].checked

\* Mutant: the writes before it are not looked at.
StaleOnceDiverged(i) == diverged

\* _stale: diverged, or a faked write before it is unused.
Stale(i) == diverged \/ \E w \in FakedWrites \ consumed : w < Position(i)

-----------------------------------------------------------------------------

Init ==
    /\ rec \in Recordings
    /\ consumed = {}
    /\ diverged = FALSE
    /\ held = [k \in Keys |-> NoMatch]
    /\ pc = [f \in Live |-> "unsent"]
    /\ want = [f \in Live |-> NoMatch]
    /\ standing = [f \in Live |-> ""]
    /\ took = [f \in Live |-> 0]
    /\ served = [f \in Live |-> 0]
    /\ after = [f \in Live |-> {}]

Kind(f) == want[f].kind
Keyed(f) == Kind(f) = "write" /\ want[f].key # NoKey
Go(f, place) == pc' = [pc EXCEPT ![f] = place]

\* The agent sends a request, or its SDK asks for a read tool call's answer.
Send(f, m) ==
    /\ pc[f] = "unsent"
    /\ Go(f, IF m.kind = "write" THEN "sent" ELSE "ready")
    /\ want' = [want EXCEPT ![f] = m]
    /\ after' = [after EXCEPT ![f] = {g \in Live : pc[g] = "done"}]
    /\ UNCHANGED <<rec, consumed, diverged, held, standing, took, served>>

\* policy.idempotency_standing: what shadow mode would say of the key.
Stand(f) ==
    /\ pc[f] = "sent"
    /\ Go(f, "ready")
    /\ standing' = [standing EXCEPT ![f] =
           IF ~Keyed(f) \/ held[want[f].key] = NoMatch THEN ""
           ELSE IF held[want[f].key] = want[f] THEN "replay" ELSE "conflict"]
    /\ UNCHANGED <<rec, consumed, diverged, held, want, took, served, after>>

\* The unused entries that match f, and the first of them (mutant: the last).
Bucket(f) == {i \in DOMAIN rec : rec[i].match = want[f] /\ rec[i].standing = standing[f]}
Unused(f) == Bucket(f) \ consumed
First(f) == Least(Unused(f))

\* The recording has no unused match.  An llm call or a read that misses goes
\* live, and a tool's body runs: the recording is done with it.
LookupMisses(f) ==
    /\ pc[f] = "ready"
    /\ Unused(f) = {}
    /\ Go(f, IF Kind(f) = "write" THEN "missed" ELSE "done")
    /\ UNCHANGED <<rec, consumed, diverged, held, want, standing, took, served, after>>

\* A stale match is not used up; a request that meets one diverges the replay,
\* a tool call does not.
LookupStale(f) ==
    /\ pc[f] = "ready"
    /\ Unused(f) # {}
    /\ DependsOnPriorWrites(First(f)) /\ Stale(First(f))
    /\ diverged' = (diverged \/ Kind(f) # "tool")
    /\ Go(f, IF Kind(f) = "write" THEN "missed" ELSE "done")
    /\ UNCHANGED <<rec, consumed, held, want, standing, took, served, after>>

\* Mutant of UsedUp: an answered tool call leaves its inner exchanges unused.
UsedUpAlone(i) == {i}

\* What answering with i uses up.
UsedUp(i) ==
    IF rec[i].match.kind = "tool" /\ rec[i].servable THEN {i} \cup Inner(i) \cup Displaced(i) ELSE {i}

\* The first match is used up; one that cannot be served is still a miss.
Lookup(f) ==
    /\ pc[f] = "ready"
    /\ Unused(f) # {}
    /\ ~(DependsOnPriorWrites(First(f)) /\ Stale(First(f)))
    /\ consumed' = consumed \cup UsedUp(First(f))
    /\ took' = [took EXCEPT ![f] = First(f)]
    /\ served' = [served EXCEPT ![f] = IF rec[First(f)].servable THEN First(f) ELSE 0]
    /\ Go(f, IF Kind(f) # "write" THEN "done"
             ELSE IF rec[First(f)].servable THEN "found" ELSE "missed")
    /\ UNCHANGED <<rec, diverged, held, want, standing, after>>

\* A lookup that raises is a miss.
LookupRaises(f) ==
    /\ pc[f] = "ready"
    /\ Go(f, IF Kind(f) = "write" THEN "missed" ELSE "done")
    /\ UNCHANGED <<rec, consumed, diverged, held, want, standing, took, served, after>>

\* The answer is kept under its key; the first one wins.
Remember(f) ==
    held' = IF Keyed(f) /\ held[want[f].key] = NoMatch
            THEN [held EXCEPT ![want[f].key] = want[f]] ELSE held

\* A write is answered from the recording.
AnswerRecorded(f) ==
    /\ pc[f] = "found"
    /\ Remember(f)
    /\ Go(f, "done")
    /\ UNCHANGED <<rec, consumed, diverged, want, standing, took, served, after>>

\* A write that the recording does not answer diverges the replay,
Diverge(f) ==
    /\ pc[f] = "missed"
    /\ diverged' = TRUE
    /\ Go(f, "shadow")
    /\ UNCHANGED <<rec, consumed, held, want, standing, took, served, after>>

\* and is faked as shadow mode fakes it.
AnswerAsShadow(f) ==
    /\ pc[f] = "shadow"
    /\ Remember(f)
    /\ Go(f, "done")
    /\ UNCHANGED <<rec, consumed, diverged, want, standing, took, served, after>>

Step(f) ==
    \/ \E m \in Matches : Send(f, m)
    \/ Stand(f)
    \/ LookupMisses(f) \/ LookupStale(f) \/ Lookup(f) \/ LookupRaises(f)
    \/ AnswerRecorded(f) \/ Diverge(f) \/ AnswerAsShadow(f)

Next == \E f \in Live : Step(f)

Spec == Init /\ [][Next]_vars

-----------------------------------------------------------------------------
(* report.outcome: what the replay's report counts.                         *)

\* _answered: the calls the recording answered, and those it did not.
AnsweredCalls == {f \in Live : pc[f] = "done" /\ served[f] # 0}
MissedCalls == {f \in Live : pc[f] = "done" /\ served[f] = 0}

\* Mutant: a tool's call lies in its own span.
InOrAtATool(i) == \E t \in Entries("tool") : Within(i, t)

\* _in_a_tool: recorded in the span of a read tool's call.
InATool(i) ==
    \E t \in Entries("tool") \ {i} : IF i \in Exchanges THEN Within(i, t) ELSE i \in NestedIn(t)

\* _looked_up: the recorded calls that a replay should make.  What a target
\* answered and what was refused before it was decided is not in the model.
ToBeMade == {i \in DOMAIN rec : ~InATool(i)}

NeverMade ==
    LET made == Cardinality(AnsweredCalls) IN
    IF made > Cardinality(ToBeMade) THEN 0 ELSE Cardinality(ToBeMade) - made

\* _diverged: "no divergence: every call was answered from the recording".
NoDivergence == MissedCalls = {} /\ NeverMade = 0

-----------------------------------------------------------------------------
(* What a replay promises.                                                  *)

TypeOK ==
    /\ rec \in Recordings
    /\ consumed \subseteq DOMAIN rec
    /\ diverged \in BOOLEAN
    /\ held \in [Keys -> Matches \cup {NoMatch}]
    /\ pc \in [Live -> {"unsent", "sent", "ready", "missed", "found", "shadow", "done"}]
    /\ want \in [Live -> Matches \cup {NoMatch}]
    /\ standing \in [Live -> Standings]
    /\ took \in [Live -> {0} \cup DOMAIN rec]
    /\ served \in [Live -> {0} \cup DOMAIN rec]
    /\ after \in [Live -> SUBSET Live]

Sent(f) == pc[f] # "unsent"

\* The recorded exchanges and calls that g's lookup stands for.
TakenBy(g) ==
    IF took[g] = 0 THEN {}
    ELSE IF Kind(g) = "tool" /\ served[g] # 0 THEN {took[g]} \cup Inner(took[g])
    ELSE {took[g]}

\* No recorded event answers twice, not even as part of a tool call that was
\* answered as a whole, and requests that ask the same get the recorded answers
\* in recorded order, also when other requests, unservable answers and divergence
\* come between them (_Entry.consumed, _ToolEntry.inner).
AnswersOnceInOrder ==
    \A f, g \in Live :
        f # g /\ took[f] # 0 =>
            /\ took[f] # took[g]
            /\ g \in after[f] => took[f] \notin TakenBy(g)
            /\ g \in after[f] /\ took[g] # 0 /\ want[f] = want[g] /\ standing[f] = standing[g]
               => took[g] < took[f]

\* A request sent after a write that the recording did not answer never gets a
\* recorded answer that may show writes (diverge, _stale).
NothingServedPastAMiss ==
    \A f, g \in Live :
        /\ g \in after[f]
        /\ Kind(g) = "write" /\ served[g] = 0
        /\ served[f] # 0
        => ~DependsOnPriorWrites(served[f])

\* A recorded answer that may show writes is served only once every faked write
\* recorded before it was taken, by a write of the replay or with a tool call.
ServedBehindItsWrites ==
    \A f \in Live :
        served[f] # 0 /\ DependsOnPriorWrites(served[f]) =>
            \A w \in FakedWrites :
                w < Position(served[f]) =>
                    \E g \in Live : g # f /\ w \in TakenBy(g)

\* A write sent after its idempotency key was answered is never answered as the
\* key's first sending was (idempotency_standing, remember_answer).
RetriesAnsweredAsRetries ==
    \A f, g \in Live :
        /\ g \in after[f]
        /\ Sent(g) /\ Keyed(f) /\ Keyed(g) /\ want[f].key = want[g].key
        /\ served[f] # 0
        => rec[served[f]].standing # ""

InAnother(i) == \E t \in Entries("tool") \ {i} : Within(i, t)

\* A replay is reported to have made every recorded call only if it did: each one
\* outside the tool calls' spans was taken by a request of it, although answers
\* are only counted.  A call recorded in a tool's span by another task, which a
\* replay answers by itself, is left out: it counts as answered and not as one
\* that should be made (outcome, _in_a_tool).
NothingMissedSilently ==
    /\ \A f \in Live : pc[f] \in {"unsent", "done"}
    /\ NoDivergence
    /\ \A f \in AnsweredCalls : ~InAnother(served[f])
    => \A i \in DOMAIN rec : InAnother(i) \/ \E f \in Live : i \in TakenBy(f)

\* A replay's answers are the recording's: each used once, in its order, and a
\* retry's for a retry.
AnswersAsRecorded == TypeOK /\ AnswersOnceInOrder /\ RetriesAnsweredAsRetries

\* No recorded answer is served that may show a write the replay has not made, or
\* miss one that it made otherwise.
NothingStaleServed == NothingServedPastAMiss /\ ServedBehindItsWrites

=============================================================================
