------------------------ MODULE ShadowSession_proofs ------------------------
(***************************************************************************)
(* Proofs about ShadowSession for every number of flows, runs, keys and    *)
(* objects, every set of requests and every bound.                         *)
(***************************************************************************)
EXTENDS ShadowSession, SequenceTheorems, TLAPS

(* The bounded memory of ended runs. *)

\* Forgetting one element leaves a sequence of the others.
LEMMA WithoutSeq ==
    ASSUME NEW S, NEW s \in Seq(S), NEW i \in 1..Len(s)
    PROVE  /\ Without(s, i) \in Seq(S)
           /\ Len(Without(s, i)) = Len(s) - 1
           /\ \A x : Remembers(Without(s, i), x) => Remembers(s, x)
<1> DEFINE t == Without(s, i)
<1>1. Len(s) - 1 \in Nat /\ \A j \in 1..(Len(s) - 1) : t[j] \in S
  BY DEF Without
<1>2. t \in Seq(S) /\ Len(t) = Len(s) - 1
  BY <1>1, IsASeq DEF Without
<1>3. ASSUME NEW x, Remembers(t, x) PROVE Remembers(s, x)
  <2>1. PICK j \in 1..(Len(s) - 1) : t[j] = x
    BY <1>2, <1>3 DEF Remembers
  <2>2. t[j] = s[j] \/ t[j] = s[j + 1]
    BY DEF Without
  <2>3. j \in 1..Len(s) /\ j + 1 \in 1..Len(s)
    OBVIOUS
  <2> QED BY <2>1, <2>2, <2>3 DEF Remembers
<1> QED BY <1>2, <1>3

\* Adding a run to the memory adds no other run to it.
LEMMA EndedAddSound ==
    ASSUME NEW S, NEW s \in Seq(S), NEW r \in S
    PROVE  /\ EndedAdd(s, r) \in Seq(S)
           /\ \A x : Remembers(EndedAdd(s, r), x) => x = r \/ Remembers(s, x)
<1> DEFINE i == CHOOSE i \in 1..Len(s) : s[i] = r
           kept == IF Remembers(s, r) THEN Without(s, i) ELSE s
           added == Append(kept, r)
<1>1. Remembers(s, r) => i \in 1..Len(s)
  BY DEF Remembers
<1>2. kept \in Seq(S) /\ \A x : Remembers(kept, x) => Remembers(s, x)
  BY <1>1, WithoutSeq
<1> HIDE DEF kept
<1>3. added \in Seq(S) /\ Len(added) = Len(kept) + 1
  BY <1>2
<1>4. ASSUME NEW x, Remembers(added, x) PROVE x = r \/ Remembers(s, x)
  <2>1. PICK j \in 1..Len(added) : added[j] = x
    BY <1>4 DEF Remembers
  <2>2. CASE j = Len(added)
    BY <1>2, <1>3, <2>1, <2>2
  <2>3. CASE j # Len(added)
    <3>1. j \in 1..Len(kept) /\ kept[j] = x
      BY <1>2, <1>3, <2>1, <2>3
    <3> QED BY <1>2, <3>1 DEF Remembers
  <2> QED BY <2>2, <2>3
<1> HIDE DEF added
<1>5. Tail(added) \in Seq(S) /\ \A x : Remembers(Tail(added), x) => Remembers(added, x)
  <2>1. added # <<>>
    BY <1>2, <1>3
  <2>2. /\ Tail(added) \in Seq(S)
        /\ Len(Tail(added)) = Len(added) - 1
        /\ \A j \in 1..Len(Tail(added)) : Tail(added)[j] = added[j + 1]
    BY <1>3, <2>1, HeadTailProperties
  <2>3. ASSUME NEW x, Remembers(Tail(added), x) PROVE Remembers(added, x)
    <3>1. PICK j \in 1..Len(Tail(added)) : Tail(added)[j] = x
      BY <2>3 DEF Remembers
    <3>2. j + 1 \in 1..Len(added) /\ added[j + 1] = x
      BY <1>3, <2>2, <3>1
    <3> QED BY <3>2 DEF Remembers
  <2> QED BY <2>2, <2>3
<1>6. EndedAdd(s, r) = IF Len(added) > MaxEndedRuns THEN Tail(added) ELSE added
  BY DEF EndedAdd, added, kept
<1> QED BY <1>3, <1>4, <1>5, <1>6

-----------------------------------------------------------------------------
(* Types. *)

\* The initial state is well typed.
LEMMA TypeInit == Init => TypeOK
<1> SUFFICES ASSUME Init PROVE TypeOK
  OBVIOUS
<1>1. (CHOOSE r \in Requests : TRUE) \in Requests
  BY SessionAssumption
<1> QED
  BY <1>1 DEF Init, TypeOK, Places, Decisions, Verdicts, Coverages

\* Every step keeps the types.
LEMMA TypeStep == TypeOK /\ [Next]_vars => TypeOK'
<1> SUFFICES ASSUME TypeOK, [Next]_vars PROVE TypeOK'
  OBVIOUS
<1> USE SessionAssumption DEF TypeOK, Places, Decisions, flowVars, endVars, Go
<1>1. ASSUME NEW f \in Flows, NEW r \in Requests, Send(f, r) PROVE TypeOK'
  BY <1>1 DEF Send
<1>2. ASSUME NEW f \in Flows, Plan(f) PROVE TypeOK'
  <2>0. Run(f) \in Runs /\ (Keyed(f) => req[f].key \in Keys)
    BY DEF RequestSet, Run, Keyed
  <2>1. CASE DecisionFailed(f)
    BY <2>1 DEF DecisionFailed
  <2>2. CASE PlanDelegate(f)
    BY <2>2 DEF PlanDelegate
  <2>3. CASE PlanForward(f)
    BY <2>3 DEF PlanForward
  <2>4. CASE Snapshot(f)
    BY <2>0, <2>4 DEF Snapshot
  <2>5. CASE RecallFresh(f)
    BY <2>5 DEF RecallFresh
  <2>6. CASE RecallRetry(f)
    <3>1. Held(f) \in Flows
      BY <2>0, <2>6 DEF RecallRetry, Held
    <3> QED BY <2>6, <3>1 DEF RecallRetry
  <2>7. CASE RecallConflict(f)
    BY <2>7 DEF RecallConflict
  <2>8. CASE Check(f)
    <3>1. \A doc : VerdictOn(f, doc) \in Verdicts
      BY DEF VerdictOn, Verdicts
    <3>2. CASE req[f].checked
      <4>1. PICK doc \in {"open", "spent", "unread"} :
               verdict' = [verdict EXCEPT ![f] = VerdictOn(f, doc)]
        BY <2>8, <3>2 DEF Check
      <4>2. verdict' \in [Flows -> Verdicts]
        BY <3>1, <4>1
      <4> QED BY <2>8, <4>2 DEF Check
    <3>3. CASE ~req[f].checked
      BY <2>8, <3>3 DEF Check
    <3> QED BY <3>2, <3>3
  <2>9. CASE AnswerLocally(f)
    <3>1. CASE UNCHANGED keys
      BY <2>9, <3>1 DEF AnswerLocally
    <3>2. CASE Keyed(f) /\ keys' = [keys EXCEPT ![Run(f)][req[f].key] = f]
      <4>1. keys' \in [Runs -> [Keys -> Flows \cup {NoFlow}]]
        BY <2>0, <3>2
      <4> QED BY <2>9, <4>1 DEF AnswerLocally
    <3> QED BY <2>9, <3>1, <3>2 DEF AnswerLocally, Put
  <2> HIDE DEF TypeOK
  <2> QED
    BY <1>2, <2>1, <2>2, <2>3, <2>4, <2>5, <2>6, <2>7, <2>8, <2>9 DEF Plan, Decide
<1>3. ASSUME NEW f \in Flows, Finish(f) PROVE TypeOK'
  <2>0. Run(f) \in Runs
    BY DEF RequestSet, Run
  <2>1. CASE CompleteAnswer(f)
    <3>1. writeLog' \in [Runs -> SUBSET Flows]
      <4>1. CASE writeLog' = [writeLog EXCEPT ![Run(f)] = @ \cup {f}]
        BY <2>0, <4>1
      <4>2. CASE UNCHANGED writeLog
        BY <4>2
      <4> QED BY <2>1, <4>1, <4>2 DEF CompleteAnswer, File
    <3> QED BY <2>1, <3>1 DEF CompleteAnswer
  <2>2. CASE CompleteForward(f)
    <3>1. PICK body \in {"plain", "short", "streamed"} :
             LET mine == InScope(f, writeLog[Run(f)])
             IN  /\ coverage' = [coverage EXCEPT ![f] =
                        CASE body = "streamed" -> "streamed"
                          [] body # "streamed" /\ mine = {} -> "none"
                          [] body = "plain" /\ mine # {} -> "full"
                          [] body = "short" /\ mine # {} -> "partial"]
                 /\ seen' = [seen EXCEPT ![f] = IF body = "plain" THEN mine ELSE {}]
      BY <2>2 DEF CompleteForward
    <3>2. InScope(f, writeLog[Run(f)]) \subseteq Flows
      BY <2>0 DEF InScope
    <3>3. coverage' \in [Flows -> Coverages] /\ seen' \in [Flows -> SUBSET Flows]
      BY <3>1, <3>2 DEF Coverages
    <3> QED BY <2>2, <3>3 DEF CompleteForward
  <2>3. CASE Fail(f)
    BY <2>3 DEF Fail
  <2>4. CASE CarryFails(f)
    BY <2>4 DEF CarryFails
  <2> QED BY <1>3, <2>1, <2>2, <2>3, <2>4 DEF Finish
<1>4. ASSUME NEW r \in Runs, EndWriteLog(r) PROVE TypeOK'
  BY <1>4, EndedAddSound DEF EndWriteLog
<1>5. CASE EndKeys
  BY <1>5, EndedAddSound DEF EndKeys
<1>6. CASE UNCHANGED vars
  BY <1>6 DEF vars
<1> QED BY <1>1, <1>2, <1>3, <1>4, <1>5, <1>6 DEF Next

\* Every variable keeps its type, for every instance.
THEOREM TypeCorrect == Spec => []TypeOK
  BY TypeInit, TypeStep, PTL DEF Spec

-----------------------------------------------------------------------------
(* Placement and ends. *)

\* Every step keeps what a flow's place says of its decision.
LEMMA PlacedStep == TypeOK /\ Placed /\ [Next]_vars => Placed'
<1> SUFFICES ASSUME TypeOK, Placed, [Next]_vars PROVE Placed'
  OBVIOUS
<1> USE SessionAssumption DEF TypeOK, Placed, Places, Decisions, Undecided, Planning, IsLive, Go
<1>1. ASSUME NEW f \in Flows, NEW r \in Requests, Send(f, r) PROVE Placed'
  BY <1>1 DEF Send
<1>2. ASSUME NEW f \in Flows, Plan(f) PROVE Placed'
  <2>1. CASE DecisionFailed(f)
    BY <2>1 DEF DecisionFailed
  <2>2. CASE PlanDelegate(f)
    BY <2>2 DEF PlanDelegate
  <2>3. CASE PlanForward(f)
    BY <2>3 DEF PlanForward
  <2>4. CASE Snapshot(f)
    BY <2>4 DEF Snapshot
  <2>5. CASE RecallFresh(f)
    BY <2>5 DEF RecallFresh
  <2>6. CASE RecallRetry(f)
    BY <2>6 DEF RecallRetry
  <2>7. CASE RecallConflict(f)
    BY <2>7 DEF RecallConflict
  <2>8. CASE Check(f)
    BY <2>8 DEF Check
  <2>9. CASE AnswerLocally(f)
    BY <2>9 DEF AnswerLocally
  <2> HIDE DEF Placed
  <2> QED
    BY <1>2, <2>1, <2>2, <2>3, <2>4, <2>5, <2>6, <2>7, <2>8, <2>9 DEF Plan, Decide
<1>3. ASSUME NEW f \in Flows, Finish(f) PROVE Placed'
  <2>1. CASE CompleteAnswer(f)
    BY <2>1 DEF CompleteAnswer
  <2>2. CASE CompleteForward(f)
    BY <2>2 DEF CompleteForward
  <2>3. CASE Fail(f)
    BY <2>3 DEF Fail
  <2>4. CASE CarryFails(f)
    BY <2>4 DEF CarryFails
  <2> HIDE DEF Placed
  <2> QED BY <1>3, <2>1, <2>2, <2>3, <2>4 DEF Finish
<1>4. ASSUME NEW r \in Runs, EndWriteLog(r) PROVE Placed'
  BY <1>4 DEF EndWriteLog, flowVars
<1>5. CASE EndKeys
  BY <1>5 DEF EndKeys, flowVars
<1>6. CASE UNCHANGED vars
  BY <1>6 DEF vars
<1> HIDE DEF Placed
<1> QED BY <1>1, <1>2, <1>3, <1>4, <1>5, <1>6 DEF Next

\* Only the two calls of the `ended` callback touch what the ended runs are.
LEMMA EndsFrame ==
    ASSUME [Next]_vars
    PROVE  \/ UNCHANGED endVars
           \/ \E r \in Runs : EndWriteLog(r)
           \/ EndKeys
<1>1. ASSUME NEW f \in Flows, NEW r \in Requests, Send(f, r) PROVE UNCHANGED endVars
  BY <1>1 DEF Send
<1>2. ASSUME NEW f \in Flows, Plan(f) PROVE UNCHANGED endVars
  BY <1>2 DEF Plan, Decide, DecisionFailed, PlanDelegate, PlanForward, Snapshot, RecallFresh,
              RecallRetry, RecallConflict, Check, AnswerLocally
<1>3. ASSUME NEW f \in Flows, Finish(f) PROVE UNCHANGED endVars
  BY <1>3 DEF Finish, CompleteAnswer, CompleteForward, Fail, CarryFails
<1>4. CASE UNCHANGED vars
  BY <1>4 DEF vars, endVars
<1> QED BY <1>1, <1>2, <1>3, <1>4 DEF Next

\* The write log and the keys change only where an answer is filed or
\* remembered, and where a run ends.
LEMMA StoresFrame ==
    ASSUME [Next]_vars
    PROVE  \/ UNCHANGED <<writeLog, keys, endVars>>
           \/ \E f \in Flows : CompleteAnswer(f) \/ AnswerLocally(f)
           \/ \E r \in Runs : EndWriteLog(r)
           \/ EndKeys
<1>1. ASSUME NEW f \in Flows, NEW r \in Requests, Send(f, r)
      PROVE  UNCHANGED <<writeLog, keys, endVars>>
  BY <1>1 DEF Send
<1>2. ASSUME NEW f \in Flows, Plan(f)
      PROVE  UNCHANGED <<writeLog, keys, endVars>> \/ AnswerLocally(f)
  BY <1>2 DEF Plan, Decide, DecisionFailed, PlanDelegate, PlanForward, Snapshot, RecallFresh,
              RecallRetry, RecallConflict, Check
<1>3. ASSUME NEW f \in Flows, Finish(f)
      PROVE  UNCHANGED <<writeLog, keys, endVars>> \/ CompleteAnswer(f)
  BY <1>3 DEF Finish, CompleteForward, Fail, CarryFails
<1>4. CASE UNCHANGED vars
  BY <1>4 DEF vars, endVars
<1> QED BY <1>1, <1>2, <1>3, <1>4 DEF Next

\* Both memories keep only runs that ended, and no run's end is undone.
LEMMA EndsStep == TypeOK /\ EndsKnown /\ [Next]_vars => EndsKnown' /\ everEnded \subseteq everEnded'
<1> SUFFICES ASSUME TypeOK, EndsKnown, [Next]_vars
             PROVE  EndsKnown' /\ everEnded \subseteq everEnded'
  OBVIOUS
<1> USE DEF EndsKnown
<1>1. CASE UNCHANGED endVars
  BY <1>1 DEF endVars, Remembers
<1>2. ASSUME NEW r \in Runs, EndWriteLog(r) PROVE EndsKnown' /\ everEnded \subseteq everEnded'
  <2>1. \A x : Remembers(logEnded', x) => x = r \/ Remembers(logEnded, x)
    BY <1>2, EndedAddSound DEF EndWriteLog, TypeOK
  <2>2. keyEnded' = keyEnded /\ everEnded' = everEnded \cup {r} /\ ending' = r
    BY <1>2 DEF EndWriteLog
  <2> QED BY <2>1, <2>2 DEF Remembers
<1>3. CASE EndKeys
  <2>1. ending \in Runs
    BY <1>3 DEF EndKeys, TypeOK
  <2>2. \A x : Remembers(keyEnded', x) => x = ending \/ Remembers(keyEnded, x)
    BY <1>3, <2>1, EndedAddSound DEF EndKeys, TypeOK
  <2>3. logEnded' = logEnded /\ everEnded' = everEnded /\ ending' = NoRun /\ ending # NoRun
    BY <1>3 DEF EndKeys
  <2> QED BY <2>2, <2>3 DEF Remembers
<1> QED BY <1>1, <1>2, <1>3, EndsFrame

\* A remembered run is kept empty by WriteLog.add and Store.put.
LEMMA EndedHoldNothingStep ==
    TypeOK /\ EndsKnown /\ EndedRunsHoldNothing /\ [Next]_vars => EndedRunsHoldNothing'
<1> SUFFICES ASSUME TypeOK, EndsKnown, EndedRunsHoldNothing, [Next]_vars
             PROVE  EndedRunsHoldNothing'
  OBVIOUS
<1> USE DEF EndedRunsHoldNothing
<1>1. CASE UNCHANGED <<writeLog, keys, endVars>>
  BY <1>1 DEF endVars, Remembers
<1>2. ASSUME NEW f \in Flows, CompleteAnswer(f) PROVE EndedRunsHoldNothing'
  <2>1. UNCHANGED <<keys, logEnded, keyEnded>>
    BY <1>2 DEF CompleteAnswer, endVars
  <2>2. ASSUME NEW r \in Runs, Remembers(logEnded, r) PROVE writeLog'[r] = {}
    BY <1>2, <2>2 DEF CompleteAnswer, File, TypeOK
  <2> QED BY <2>1, <2>2 DEF Remembers
<1>3. ASSUME NEW f \in Flows, AnswerLocally(f) PROVE EndedRunsHoldNothing'
  <2>1. UNCHANGED <<writeLog, logEnded, keyEnded>>
    BY <1>3 DEF AnswerLocally, endVars
  <2>2. ASSUME NEW r \in Runs, Remembers(keyEnded, r), NEW k \in Keys PROVE keys'[r][k] = NoFlow
    <3>1. keys[r][k] = NoFlow
      BY <2>2
    <3>2. CASE UNCHANGED keys
      BY <3>1, <3>2
    <3>3. CASE ~Remembers(keyEnded, Run(f)) /\ keys' = [keys EXCEPT ![Run(f)][req[f].key] = f]
      BY <2>2, <3>1, <3>3 DEF TypeOK
    <3> QED BY <1>3, <3>2, <3>3 DEF AnswerLocally, Put
  <2> QED BY <2>1, <2>2 DEF Remembers
<1>4. ASSUME NEW r \in Runs, EndWriteLog(r) PROVE EndedRunsHoldNothing'
  <2>1. \A x : Remembers(logEnded', x) => x = r \/ Remembers(logEnded, x)
    BY <1>4, EndedAddSound DEF EndWriteLog, TypeOK
  <2>2. /\ keys' = keys /\ keyEnded' = keyEnded
        /\ writeLog' = [writeLog EXCEPT ![r] = {}]
    BY <1>4 DEF EndWriteLog
  <2>3. ASSUME NEW q \in Runs, Remembers(logEnded', q) PROVE writeLog'[q] = {}
    BY <2>1, <2>2, <2>3 DEF TypeOK
  <2>4. ASSUME NEW q \in Runs, Remembers(keyEnded', q) PROVE \A k \in Keys : keys'[q][k] = NoFlow
    BY <2>2, <2>4 DEF Remembers
  <2> QED BY <2>3, <2>4
<1>5. CASE EndKeys
  <2>1. ending \in Runs
    BY <1>5 DEF EndKeys, TypeOK
  <2>2. \A x : Remembers(keyEnded', x) => x = ending \/ Remembers(keyEnded, x)
    BY <1>5, <2>1, EndedAddSound DEF EndKeys, TypeOK
  <2>3. /\ writeLog' = writeLog /\ logEnded' = logEnded
        /\ keys' = [keys EXCEPT ![ending] = [k \in Keys |-> NoFlow]]
    BY <1>5 DEF EndKeys
  <2> QED BY <2>1, <2>2, <2>3 DEF Remembers, TypeOK
<1>6. \/ UNCHANGED <<writeLog, keys, endVars>>
      \/ \E f \in Flows : CompleteAnswer(f) \/ AnswerLocally(f)
      \/ \E r \in Runs : EndWriteLog(r)
      \/ EndKeys
  BY StoresFrame
<1> QED BY <1>1, <1>2, <1>3, <1>4, <1>5, <1>6

-----------------------------------------------------------------------------
(* The idempotency keys. *)

\* An open run's key keeps the answer its retries got (Store.put: the first wins).
LEMMA KeysHoldStep == TypeOK /\ Placed /\ EndsKnown /\ KeysHold /\ [Next]_vars => KeysHold'
<1> SUFFICES ASSUME TypeOK, Placed, EndsKnown, KeysHold, [Next]_vars PROVE KeysHold'
  OBVIOUS
<1> USE SessionAssumption DEF TypeOK, KeysHold, Go, Run, Keyed, Held, DecidedAfresh, endVars
<1>1. ASSUME NEW f \in Flows, NEW r \in Requests, Send(f, r) PROVE KeysHold'
  BY <1>1 DEF Send
<1>2. ASSUME NEW f \in Flows, Plan(f) PROVE KeysHold'
  <2>1. CASE DecisionFailed(f)
    BY <2>1 DEF DecisionFailed
  <2>2. CASE PlanDelegate(f)
    BY <2>2 DEF PlanDelegate
  <2>3. CASE PlanForward(f)
    BY <2>3 DEF PlanForward
  <2>4. CASE Snapshot(f)
    BY <2>4 DEF Snapshot
  <2>5. CASE RecallFresh(f)
    BY <2>5 DEF RecallFresh
  <2>6. CASE RecallRetry(f)
    BY <2>6 DEF RecallRetry
  <2>7. CASE RecallConflict(f)
    BY <2>7 DEF RecallConflict
  <2>8. CASE Check(f)
    BY <2>8 DEF Check
  <2>9. CASE AnswerLocally(f)
    <3>1. /\ UNCHANGED <<req, everEnded>>
          /\ decided' = [decided EXCEPT ![f] = IF verdict[f] = "rejected" THEN "rejected" ELSE "fresh"]
          /\ answer' = [answer EXCEPT ![f] = f]
      BY <2>9 DEF AnswerLocally
    <3>2. \A g \in Flows : Run(g) \in Runs /\ (Keyed(g) => req[g].key \in Keys)
      BY DEF RequestSet
    <3>3. CASE /\ UNCHANGED keys
               /\ ~Keyed(f) \/ Held(f) # NoFlow \/ Remembers(keyEnded, Run(f))
      BY <3>1, <3>2, <3>3 DEF EndsKnown
    <3>4. CASE /\ keys' = [keys EXCEPT ![Run(f)][req[f].key] = f]
               /\ Keyed(f) /\ Held(f) = NoFlow
      <4>1. \A r \in Runs, k \in Keys :
               keys'[r][k] = IF r = Run(f) /\ k = req[f].key THEN f ELSE keys[r][k]
        BY <3>2, <3>4
      <4> QED BY <3>1, <3>2, <3>4, <4>1
    <3> QED BY <2>9, <3>3, <3>4 DEF AnswerLocally, Put
  <2> HIDE DEF KeysHold
  <2> QED
    BY <1>2, <2>1, <2>2, <2>3, <2>4, <2>5, <2>6, <2>7, <2>8, <2>9 DEF Plan, Decide
<1>3. ASSUME NEW f \in Flows, Finish(f) PROVE KeysHold'
  <2>1. CASE CompleteAnswer(f)
    BY <2>1 DEF CompleteAnswer
  <2>2. CASE CompleteForward(f)
    BY <2>2 DEF CompleteForward
  <2>3. CASE Fail(f)
    BY <2>3 DEF Fail
  <2>4. CASE CarryFails(f)
    BY <2>4 DEF CarryFails
  <2> HIDE DEF KeysHold
  <2> QED BY <1>3, <2>1, <2>2, <2>3, <2>4 DEF Finish
<1>4. ASSUME NEW r \in Runs, EndWriteLog(r) PROVE KeysHold'
  BY <1>4 DEF EndWriteLog, flowVars
<1>5. CASE EndKeys
  <2>1. ending \in Runs /\ ending \in everEnded
    BY <1>5 DEF EndKeys, EndsKnown
  <2>2. \A r \in Runs : r # ending => keys'[r] = keys[r]
    BY <1>5 DEF EndKeys
  <2>3. UNCHANGED <<req, decided, answer, everEnded>>
    BY <1>5 DEF EndKeys, flowVars
  <2>4. \A f \in Flows : Run(f) \in Runs
    BY DEF RequestSet
  <2> QED BY <2>1, <2>2, <2>3, <2>4
<1>6. CASE UNCHANGED vars
  BY <1>6 DEF vars
<1> HIDE DEF KeysHold
<1> QED BY <1>1, <1>2, <1>3, <1>4, <1>5, <1>6 DEF Next

\* A write sent after its key was answered stays at the recall.
LEMMA RecallStopsStep ==
    TypeOK /\ Placed /\ EndsKnown /\ KeysHold /\ RecallStops /\ [Next]_vars => RecallStops'
<1> SUFFICES ASSUME TypeOK, Placed, EndsKnown, KeysHold, RecallStops, [Next]_vars
             PROVE  RecallStops'
  OBVIOUS
<1> USE SessionAssumption DEF TypeOK, RecallStops, Go, Run, Keyed, SameSlot, Follows, DecidedAfresh, endVars
<1>1. ASSUME NEW f \in Flows, NEW r \in Requests, Send(f, r) PROVE RecallStops'
  BY <1>1 DEF Send
<1>2. ASSUME NEW f \in Flows, Plan(f) PROVE RecallStops'
  <2>1. CASE DecisionFailed(f)
    BY <2>1 DEF DecisionFailed
  <2>2. CASE PlanDelegate(f)
    BY <2>2 DEF PlanDelegate
  <2>3. CASE PlanForward(f)
    BY <2>3 DEF PlanForward
  <2>4. CASE Snapshot(f)
    BY <2>4 DEF Snapshot
  <2>5. CASE RecallFresh(f)
    BY <2>5 DEF RecallFresh, KeysHold, Held
  <2>6. CASE RecallRetry(f)
    BY <2>6 DEF RecallRetry
  <2>7. CASE RecallConflict(f)
    BY <2>7 DEF RecallConflict
  <2>8. CASE Check(f)
    BY <2>8 DEF Check
  <2>9. CASE AnswerLocally(f)
    BY <2>9 DEF AnswerLocally, Placed
  <2> HIDE DEF RecallStops
  <2> QED
    BY <1>2, <2>1, <2>2, <2>3, <2>4, <2>5, <2>6, <2>7, <2>8, <2>9 DEF Plan, Decide
<1>3. ASSUME NEW f \in Flows, Finish(f) PROVE RecallStops'
  <2>1. CASE CompleteAnswer(f)
    BY <2>1 DEF CompleteAnswer
  <2>2. CASE CompleteForward(f)
    BY <2>2 DEF CompleteForward
  <2>3. CASE Fail(f)
    BY <2>3 DEF Fail
  <2>4. CASE CarryFails(f)
    BY <2>4 DEF CarryFails
  <2> HIDE DEF RecallStops
  <2> QED BY <1>3, <2>1, <2>2, <2>3, <2>4 DEF Finish
<1>4. ASSUME NEW r \in Runs, EndWriteLog(r) PROVE RecallStops'
  BY <1>4 DEF EndWriteLog, flowVars
<1>5. CASE EndKeys
  BY <1>5 DEF EndKeys, flowVars
<1>6. CASE UNCHANGED vars
  BY <1>6 DEF vars
<1> HIDE DEF RecallStops
<1> QED BY <1>1, <1>2, <1>3, <1>4, <1>5, <1>6 DEF Next

-----------------------------------------------------------------------------
(* The write log. *)

\* What filing an answered write does.
LEMMA FileEffect ==
    ASSUME TypeOK, EndsKnown, NEW f \in Flows, CompleteAnswer(f)
    PROVE  /\ \A r \in Runs : writeLog[r] \subseteq writeLog'[r]
           /\ \A r \in Runs : \A g \in writeLog'[r] :
                 g \in writeLog[r] \/ (g = f /\ r = Run(f) /\ IsAuthoredWrite(f))
           /\ IsAuthoredWrite(f) /\ Run(f) \notin everEnded => f \in writeLog'[Run(f)]
<1>0. Run(f) \in Runs
  BY SessionAssumption DEF TypeOK, RequestSet, Run
<1>1. CASE writeLog' = [writeLog EXCEPT ![Run(f)] = @ \cup {f}] /\ IsAuthoredWrite(f)
  BY <1>0, <1>1 DEF TypeOK
<1>2. CASE UNCHANGED writeLog /\ (~IsAuthoredWrite(f) \/ Remembers(logEnded, Run(f)))
  BY <1>0, <1>2 DEF EndsKnown
<1> QED BY <1>1, <1>2 DEF CompleteAnswer, File

\* No step takes an answered fake out of an open run's log.
LEMMA LogHoldsStep ==
    TypeOK /\ Placed /\ EndsKnown /\ LogHolds /\ [Next]_vars => LogHolds'
<1> SUFFICES ASSUME TypeOK, Placed, EndsKnown, LogHolds, [Next]_vars PROVE LogHolds'
  OBVIOUS
<1>0. \A f \in Flows : Run(f) \in Runs
  BY SessionAssumption DEF TypeOK, RequestSet, Run
<1> USE SessionAssumption DEF TypeOK, LogHolds, Go, Run, IsAuthoredWrite, IsLive, endVars
<1>1. ASSUME NEW f \in Flows, NEW r \in Requests, Send(f, r) PROVE LogHolds'
  BY <1>1 DEF Send
<1>2. ASSUME NEW f \in Flows, Plan(f) PROVE LogHolds'
  <2>1. CASE DecisionFailed(f)
    BY <2>1 DEF DecisionFailed
  <2>2. CASE PlanDelegate(f)
    BY <2>2 DEF PlanDelegate
  <2>3. CASE PlanForward(f)
    BY <2>3 DEF PlanForward
  <2>4. CASE Snapshot(f)
    BY <2>4 DEF Snapshot
  <2>5. CASE RecallFresh(f)
    BY <2>5 DEF RecallFresh
  <2>6. CASE RecallRetry(f)
    BY <2>6 DEF RecallRetry
  <2>7. CASE RecallConflict(f)
    BY <2>7 DEF RecallConflict
  <2>8. CASE Check(f)
    BY <2>8 DEF Check
  <2>9. CASE AnswerLocally(f)
    BY <2>9 DEF AnswerLocally, Placed
  <2> HIDE DEF LogHolds
  <2> QED
    BY <1>2, <2>1, <2>2, <2>3, <2>4, <2>5, <2>6, <2>7, <2>8, <2>9 DEF Plan, Decide
<1>3. ASSUME NEW f \in Flows, Finish(f) PROVE LogHolds'
  <2>1. CASE CompleteAnswer(f)
    <3>1. UNCHANGED <<req, decided, everEnded>> /\ pc' = [pc EXCEPT ![f] = "done"]
      BY <2>1 DEF CompleteAnswer
    <3> QED BY <1>0, <2>1, <3>1, FileEffect
  <2>2. CASE CompleteForward(f)
    BY <2>2 DEF CompleteForward
  <2>3. CASE Fail(f)
    BY <2>3 DEF Fail
  <2>4. CASE CarryFails(f)
    BY <2>4 DEF CarryFails
  <2> HIDE DEF LogHolds
  <2> QED BY <1>3, <2>1, <2>2, <2>3, <2>4 DEF Finish
<1>4. ASSUME NEW r \in Runs, EndWriteLog(r) PROVE LogHolds'
  <2>1. UNCHANGED <<req, decided, pc>> /\ everEnded' = everEnded \cup {r}
    BY <1>4 DEF EndWriteLog, flowVars
  <2>2. \A q \in Runs : q # r => writeLog'[q] = writeLog[q]
    BY <1>4 DEF EndWriteLog
  <2> QED BY <1>0, <2>1, <2>2
<1>5. CASE EndKeys
  BY <1>5 DEF EndKeys, flowVars
<1>6. CASE UNCHANGED vars
  BY <1>6 DEF vars
<1> HIDE DEF LogHolds
<1> QED BY <1>1, <1>2, <1>3, <1>4, <1>5, <1>6 DEF Next

\* A write keeps being judged on every fake answered before it.
LEMMA SnapshotHoldsStep ==
    TypeOK /\ Placed /\ LogHolds /\ SharedWithin /\ SnapshotHolds /\ [Next]_vars
        => SnapshotHolds'
<1> SUFFICES ASSUME TypeOK, Placed, LogHolds, SharedWithin, SnapshotHolds, [Next]_vars
             PROVE  SnapshotHolds'
  OBVIOUS
<1> USE SessionAssumption DEF TypeOK, SnapshotHolds, Go, Run, Follows, Planning,
                              IsAuthoredWrite, IsLive, InScope, endVars
<1>1. ASSUME NEW f \in Flows, NEW r \in Requests, Send(f, r) PROVE SnapshotHolds'
  <2>1. /\ req' = [req EXCEPT ![f] = r] /\ pc[f] = "unsent"
        /\ pc' = [pc EXCEPT ![f] = "admitted"]
        /\ decided' = [decided EXCEPT ![f] = "none"]
        /\ after' = [after EXCEPT ![f] = {g \in Flows : pc[g] = "done"}]
        /\ UNCHANGED <<verdict, seen, everEnded>>
    BY <1>1 DEF Send
  <2>2. \A x \in Flows : x # f => InScope(x, seen[x])' = InScope(x, seen[x])
    BY <2>1 DEF SharedWithin
  <2>3. \A x, y \in Flows : x # f /\ Follows(x, y)' => Follows(x, y) /\ y # f
    BY <2>1 DEF Placed
  <2> QED BY <2>1, <2>2, <2>3
<1>2. ASSUME NEW f \in Flows, Plan(f) PROVE SnapshotHolds'
  <2>1. CASE DecisionFailed(f)
    BY <2>1 DEF DecisionFailed
  <2>2. CASE PlanDelegate(f)
    BY <2>2 DEF PlanDelegate
  <2>3. CASE PlanForward(f)
    BY <2>3 DEF PlanForward
  <2>4. CASE Snapshot(f)
    BY <2>4 DEF Snapshot, LogHolds, Placed
  <2>5. CASE RecallFresh(f)
    BY <2>5 DEF RecallFresh
  <2>6. CASE RecallRetry(f)
    BY <2>6 DEF RecallRetry, Placed
  <2>7. CASE RecallConflict(f)
    BY <2>7 DEF RecallConflict
  <2>8. CASE Check(f)
    <3>1. CASE req[f].checked
      <4>1. PICK doc \in {"open", "spent", "unread"} :
               verdict' = [verdict EXCEPT ![f] = VerdictOn(f, doc)]
        BY <2>8, <3>1 DEF Check
      <4>2. verdict'[f] = "passed" => InScope(f, seen[f]) = {}
        BY <4>1 DEF VerdictOn
      <4> QED BY <2>8, <4>1, <4>2 DEF Check
    <3>2. CASE ~req[f].checked
      BY <2>8, <3>2 DEF Check
    <3> QED BY <3>1, <3>2
  <2>9. CASE AnswerLocally(f)
    BY <2>9 DEF AnswerLocally, Placed
  <2> HIDE DEF SnapshotHolds
  <2> QED
    BY <1>2, <2>1, <2>2, <2>3, <2>4, <2>5, <2>6, <2>7, <2>8, <2>9 DEF Plan, Decide
<1>3. ASSUME NEW f \in Flows, Finish(f) PROVE SnapshotHolds'
  <2>1. CASE CompleteAnswer(f)
    BY <2>1 DEF CompleteAnswer
  <2>2. CASE CompleteForward(f)
    BY <2>2 DEF CompleteForward, Placed
  <2>3. CASE Fail(f)
    BY <2>3 DEF Fail
  <2>4. CASE CarryFails(f)
    BY <2>4 DEF CarryFails
  <2> HIDE DEF SnapshotHolds
  <2> QED BY <1>3, <2>1, <2>2, <2>3, <2>4 DEF Finish
<1>4. ASSUME NEW r \in Runs, EndWriteLog(r) PROVE SnapshotHolds'
  BY <1>4 DEF EndWriteLog, flowVars
<1>5. CASE EndKeys
  BY <1>5 DEF EndKeys, flowVars
<1>6. CASE UNCHANGED vars
  BY <1>6 DEF vars
<1> HIDE DEF SnapshotHolds
<1> QED BY <1>1, <1>2, <1>3, <1>4, <1>5, <1>6 DEF Next

-----------------------------------------------------------------------------
(* What is shared between flows. *)

\* A key only ever gains the answer of a flow of its own run.
LEMMA PutEffect ==
    ASSUME TypeOK, NEW f \in Flows, AnswerLocally(f)
    PROVE  \A r \in Runs, k \in Keys :
              keys'[r][k] = keys[r][k] \/ (keys'[r][k] = f /\ r = Run(f))
<1>1. CASE UNCHANGED keys
  BY <1>1
<1>2. CASE keys' = [keys EXCEPT ![Run(f)][req[f].key] = f]
  BY <1>2 DEF TypeOK
<1> QED BY <1>1, <1>2 DEF AnswerLocally, Put

\* An overlaid read sees writes of its own run, and nothing else changes.
LEMMA OverlayEffect ==
    ASSUME TypeOK, NEW f \in Flows, CompleteForward(f)
    PROVE  /\ UNCHANGED <<req, decided, answer, keys, writeLog>>
           /\ pc' = [pc EXCEPT ![f] = "done"]
           /\ pc[f] = "planned"
           /\ \E mine \in SUBSET writeLog[Run(f)] : seen' = [seen EXCEPT ![f] = mine]
<1>1. InScope(f, writeLog[Run(f)]) \subseteq writeLog[Run(f)]
  BY DEF InScope
<1>2. \E body \in {"plain", "short", "streamed"} :
         seen' = [seen EXCEPT ![f] = IF body = "plain" THEN InScope(f, writeLog[Run(f)]) ELSE {}]
  BY DEF CompleteForward
<1> QED BY <1>1, <1>2 DEF CompleteForward

\* Only an answered fake is ever filed.
LEMMA FiledStep ==
    TypeOK /\ Placed /\ EndsKnown /\ OnlyAnsweredFakesAreFiled /\ [Next]_vars
        => OnlyAnsweredFakesAreFiled'
<1> SUFFICES ASSUME TypeOK, Placed, EndsKnown, OnlyAnsweredFakesAreFiled, [Next]_vars
             PROVE  OnlyAnsweredFakesAreFiled'
  OBVIOUS
<1>0. \A f \in Flows : Run(f) \in Runs
  BY SessionAssumption DEF TypeOK, RequestSet, Run
<1> USE DEF TypeOK, OnlyAnsweredFakesAreFiled, Go, IsAuthoredWrite, IsLive, endVars
<1>1. ASSUME NEW f \in Flows, NEW r \in Requests, Send(f, r) PROVE OnlyAnsweredFakesAreFiled'
  BY <1>1 DEF Send
<1>2. ASSUME NEW f \in Flows, Plan(f) PROVE OnlyAnsweredFakesAreFiled'
  <2>1. CASE DecisionFailed(f)
    BY <2>1 DEF DecisionFailed
  <2>2. CASE PlanDelegate(f)
    BY <2>2 DEF PlanDelegate
  <2>3. CASE PlanForward(f)
    BY <2>3 DEF PlanForward
  <2>4. CASE Snapshot(f)
    BY <2>4 DEF Snapshot
  <2>5. CASE RecallFresh(f)
    BY <2>5 DEF RecallFresh
  <2>6. CASE RecallRetry(f)
    BY <2>6 DEF RecallRetry
  <2>7. CASE RecallConflict(f)
    BY <2>7 DEF RecallConflict
  <2>8. CASE Check(f)
    BY <2>8 DEF Check
  <2>9. CASE AnswerLocally(f)
    BY <2>9 DEF AnswerLocally
  <2> HIDE DEF OnlyAnsweredFakesAreFiled
  <2> QED
    BY <1>2, <2>1, <2>2, <2>3, <2>4, <2>5, <2>6, <2>7, <2>8, <2>9 DEF Plan, Decide
<1>3. ASSUME NEW f \in Flows, Finish(f) PROVE OnlyAnsweredFakesAreFiled'
  <2>1. CASE CompleteAnswer(f)
    <3>1. UNCHANGED <<req, decided, seen, answer, keys>> /\ pc' = [pc EXCEPT ![f] = "done"]
      BY <2>1 DEF CompleteAnswer
    <3>2. \A r \in Runs : \A g \in writeLog'[r] :
             g \in writeLog[r] \/ (g = f /\ r = Run(f) /\ IsAuthoredWrite(f))
      BY <2>1, FileEffect
    <3> QED BY <2>1, <3>1, <3>2 DEF Placed
  <2>2. CASE CompleteForward(f)
    BY <2>2 DEF CompleteForward
  <2>3. CASE Fail(f)
    BY <2>3 DEF Fail
  <2>4. CASE CarryFails(f)
    BY <2>4 DEF CarryFails
  <2> HIDE DEF OnlyAnsweredFakesAreFiled
  <2> QED BY <1>3, <2>1, <2>2, <2>3, <2>4 DEF Finish
<1>4. ASSUME NEW r \in Runs, EndWriteLog(r) PROVE OnlyAnsweredFakesAreFiled'
  BY <1>4 DEF EndWriteLog, flowVars
<1>5. CASE EndKeys
  BY <1>5 DEF EndKeys, flowVars
<1>6. CASE UNCHANGED vars
  BY <1>6 DEF vars
<1> HIDE DEF OnlyAnsweredFakesAreFiled
<1> QED BY <1>1, <1>2, <1>3, <1>4, <1>5, <1>6 DEF Next

\* What the stores hand out was sent, by the run it belongs to.
LEMMA SharedWithinStep ==
    /\ TypeOK /\ Placed /\ EndsKnown /\ OnlyAnsweredFakesAreFiled /\ SharedWithin
    /\ [Next]_vars
    => SharedWithin'
<1> SUFFICES ASSUME TypeOK, Placed, EndsKnown, OnlyAnsweredFakesAreFiled, SharedWithin,
                    [Next]_vars
             PROVE  SharedWithin'
  OBVIOUS
<1>0. \A f \in Flows : Run(f) \in Runs
  BY SessionAssumption DEF TypeOK, RequestSet, Run
<1> USE SessionAssumption DEF TypeOK, SharedWithin, Go, Run, endVars
<1>1. ASSUME NEW f \in Flows, NEW r \in Requests, Send(f, r) PROVE SharedWithin'
  BY <1>1 DEF Send
<1>2. ASSUME NEW f \in Flows, Plan(f) PROVE SharedWithin'
  <2>1. CASE DecisionFailed(f)
    BY <2>1 DEF DecisionFailed
  <2>2. CASE PlanDelegate(f)
    BY <2>2 DEF PlanDelegate
  <2>3. CASE PlanForward(f)
    BY <2>3 DEF PlanForward
  <2>4. CASE Snapshot(f)
    BY <1>0, <2>4 DEF Snapshot, OnlyAnsweredFakesAreFiled, RequestSet
  <2>5. CASE RecallFresh(f)
    BY <2>5 DEF RecallFresh
  <2>6. CASE RecallRetry(f)
    <3>1. Held(f) \in Flows /\ pc[Held(f)] # "unsent"
      BY <1>0, <2>6 DEF RecallRetry, Held, Keyed, RequestSet
    <3> QED BY <2>6, <3>1 DEF RecallRetry
  <2>7. CASE RecallConflict(f)
    BY <2>7 DEF RecallConflict
  <2>8. CASE Check(f)
    BY <2>8 DEF Check
  <2>9. CASE AnswerLocally(f)
    <3>1. \A r \in Runs, k \in Keys : keys'[r][k] = keys[r][k] \/ (keys'[r][k] = f /\ r = Run(f))
      BY <1>0, <2>9, PutEffect
    <3>2. /\ UNCHANGED <<req, seen, writeLog>> /\ pc' = [pc EXCEPT ![f] = "planned"]
          /\ pc[f] = "checked" /\ answer' = [answer EXCEPT ![f] = f]
          /\ decided' = [decided EXCEPT ![f] = IF verdict[f] = "rejected" THEN "rejected" ELSE "fresh"]
      BY <2>9 DEF AnswerLocally
    <3> QED BY <3>1, <3>2
  <2> HIDE DEF SharedWithin
  <2> QED
    BY <1>2, <2>1, <2>2, <2>3, <2>4, <2>5, <2>6, <2>7, <2>8, <2>9 DEF Plan, Decide
<1>3. ASSUME NEW f \in Flows, Finish(f) PROVE SharedWithin'
  <2>1. CASE CompleteAnswer(f)
    BY <2>1 DEF CompleteAnswer
  <2>2. CASE CompleteForward(f)
    <3>1. /\ UNCHANGED <<req, decided, answer, keys, writeLog>>
          /\ pc' = [pc EXCEPT ![f] = "done"]
          /\ pc[f] = "planned"
          /\ \E mine \in SUBSET writeLog[Run(f)] : seen' = [seen EXCEPT ![f] = mine]
      BY <1>0, <2>2, OverlayEffect
    <3> QED BY <1>0, <3>1 DEF OnlyAnsweredFakesAreFiled
  <2>3. CASE Fail(f)
    BY <2>3 DEF Fail
  <2>4. CASE CarryFails(f)
    BY <2>4 DEF CarryFails
  <2> HIDE DEF SharedWithin
  <2> QED BY <1>3, <2>1, <2>2, <2>3, <2>4 DEF Finish
<1>4. ASSUME NEW r \in Runs, EndWriteLog(r) PROVE SharedWithin'
  BY <1>4 DEF EndWriteLog, flowVars
<1>5. CASE EndKeys
  <2>1. \A r \in Runs, k \in Keys : keys'[r][k] = keys[r][k] \/ keys'[r][k] = NoFlow
    BY <1>5 DEF EndKeys
  <2>2. UNCHANGED <<req, pc, seen, answer, decided, writeLog>>
    BY <1>5 DEF EndKeys, flowVars
  <2> QED BY <2>1, <2>2
<1>6. CASE UNCHANGED vars
  BY <1>6 DEF vars
<1> HIDE DEF SharedWithin
<1> QED BY <1>1, <1>2, <1>3, <1>4, <1>5, <1>6 DEF Next

\* No step shows one run another's writes or answers.
LEMMA RunsNeverMixStep ==
    /\ TypeOK /\ Placed /\ EndsKnown /\ OnlyAnsweredFakesAreFiled /\ SharedWithin
    /\ RunsNeverMix /\ [Next]_vars
    => RunsNeverMix'
<1> SUFFICES ASSUME TypeOK, Placed, EndsKnown, OnlyAnsweredFakesAreFiled, SharedWithin,
                    RunsNeverMix, [Next]_vars
             PROVE  RunsNeverMix'
  OBVIOUS
<1>0. \A f \in Flows : Run(f) \in Runs
  BY SessionAssumption DEF TypeOK, RequestSet, Run
<1> USE SessionAssumption DEF TypeOK, RunsNeverMix, Go, Run, endVars
<1>1. ASSUME NEW f \in Flows, NEW r \in Requests, Send(f, r) PROVE RunsNeverMix'
  BY <1>1 DEF Send, SharedWithin, Placed, OnlyAnsweredFakesAreFiled
<1>2. ASSUME NEW f \in Flows, Plan(f) PROVE RunsNeverMix'
  <2>1. CASE DecisionFailed(f)
    BY <2>1 DEF DecisionFailed
  <2>2. CASE PlanDelegate(f)
    BY <2>2 DEF PlanDelegate
  <2>3. CASE PlanForward(f)
    BY <2>3 DEF PlanForward
  <2>4. CASE Snapshot(f)
    BY <1>0, <2>4 DEF Snapshot
  <2>5. CASE RecallFresh(f)
    BY <2>5 DEF RecallFresh
  <2>6. CASE RecallRetry(f)
    <3>1. Held(f) \in Flows /\ Run(Held(f)) = Run(f)
      BY <1>0, <2>6, SMTT(60) DEF RecallRetry, Held, Keyed, RequestSet, SharedWithin
    <3> QED BY <2>6, <3>1 DEF RecallRetry
  <2>7. CASE RecallConflict(f)
    BY <2>7 DEF RecallConflict
  <2>8. CASE Check(f)
    BY <2>8 DEF Check
  <2>9. CASE AnswerLocally(f)
    BY <2>9 DEF AnswerLocally
  <2> HIDE DEF RunsNeverMix
  <2> QED
    BY <1>2, <2>1, <2>2, <2>3, <2>4, <2>5, <2>6, <2>7, <2>8, <2>9 DEF Plan, Decide
<1>3. ASSUME NEW f \in Flows, Finish(f) PROVE RunsNeverMix'
  <2>1. CASE CompleteAnswer(f)
    <3>1. UNCHANGED <<req, decided, seen, answer, keys>> /\ pc' = [pc EXCEPT ![f] = "done"]
      BY <2>1 DEF CompleteAnswer
    <3>2. \A r \in Runs : \A g \in writeLog'[r] :
             g \in writeLog[r] \/ (g = f /\ r = Run(f) /\ IsAuthoredWrite(f))
      BY <2>1, FileEffect
    <3> QED BY <2>1, <3>1, <3>2 DEF Placed
  <2>2. CASE CompleteForward(f)
    <3>1. /\ UNCHANGED <<req, decided, answer, keys, writeLog>>
          /\ pc' = [pc EXCEPT ![f] = "done"]
          /\ pc[f] = "planned"
          /\ \E mine \in SUBSET writeLog[Run(f)] : seen' = [seen EXCEPT ![f] = mine]
      BY <1>0, <2>2, OverlayEffect
    <3> QED BY <1>0, <3>1 DEF OnlyAnsweredFakesAreFiled
  <2>3. CASE Fail(f)
    BY <2>3 DEF Fail
  <2>4. CASE CarryFails(f)
    BY <2>4 DEF CarryFails
  <2> HIDE DEF RunsNeverMix
  <2> QED BY <1>3, <2>1, <2>2, <2>3, <2>4 DEF Finish
<1>4. ASSUME NEW r \in Runs, EndWriteLog(r) PROVE RunsNeverMix'
  BY <1>4 DEF EndWriteLog, flowVars
<1>5. CASE EndKeys
  BY <1>5 DEF EndKeys, flowVars
<1>6. CASE UNCHANGED vars
  BY <1>6 DEF vars
<1> HIDE DEF RunsNeverMix
<1> QED BY <1>1, <1>2, <1>3, <1>4, <1>5, <1>6 DEF Next

\* A read that completes shows the fakes answered before it.
LEMMA ReadsShowStep ==
    /\ TypeOK /\ Placed /\ EndsKnown /\ LogHolds /\ ReadsShowAnsweredWrites /\ [Next]_vars
    => ReadsShowAnsweredWrites'
<1> SUFFICES ASSUME TypeOK, Placed, EndsKnown, LogHolds, ReadsShowAnsweredWrites, [Next]_vars
             PROVE  ReadsShowAnsweredWrites'
  OBVIOUS
<1> USE SessionAssumption DEF TypeOK, ReadsShowAnsweredWrites, Go, Run, Follows,
                              IsAuthoredWrite, IsLive, endVars
<1>1. ASSUME NEW f \in Flows, NEW r \in Requests, Send(f, r) PROVE ReadsShowAnsweredWrites'
  BY <1>1 DEF Send, Placed
<1>2. ASSUME NEW f \in Flows, Plan(f) PROVE ReadsShowAnsweredWrites'
  <2>1. CASE DecisionFailed(f)
    BY <2>1 DEF DecisionFailed
  <2>2. CASE PlanDelegate(f)
    BY <2>2 DEF PlanDelegate
  <2>3. CASE PlanForward(f)
    BY <2>3 DEF PlanForward
  <2>4. CASE Snapshot(f)
    BY <2>4 DEF Snapshot, Placed, Undecided
  <2>5. CASE RecallFresh(f)
    BY <2>5 DEF RecallFresh
  <2>6. CASE RecallRetry(f)
    BY <2>6 DEF RecallRetry
  <2>7. CASE RecallConflict(f)
    BY <2>7 DEF RecallConflict
  <2>8. CASE Check(f)
    BY <2>8 DEF Check
  <2>9. CASE AnswerLocally(f)
    BY <2>9 DEF AnswerLocally, Placed
  <2> HIDE DEF ReadsShowAnsweredWrites
  <2> QED
    BY <1>2, <2>1, <2>2, <2>3, <2>4, <2>5, <2>6, <2>7, <2>8, <2>9 DEF Plan, Decide
<1>3. ASSUME NEW f \in Flows, Finish(f) PROVE ReadsShowAnsweredWrites'
  <2>1. CASE CompleteAnswer(f)
    BY <2>1 DEF CompleteAnswer
  <2>2. CASE CompleteForward(f)
    <3>0. Run(f) \in Runs
      BY DEF RequestSet
    <3>1. PICK body \in {"plain", "short", "streamed"} :
             LET mine == InScope(f, writeLog[Run(f)])
             IN  /\ coverage' = [coverage EXCEPT ![f] =
                        CASE body = "streamed" -> "streamed"
                          [] body # "streamed" /\ mine = {} -> "none"
                          [] body = "plain" /\ mine # {} -> "full"
                          [] body = "short" /\ mine # {} -> "partial"]
                 /\ seen' = [seen EXCEPT ![f] = IF body = "plain" THEN mine ELSE {}]
      BY <2>2 DEF CompleteForward
    <3>2. /\ UNCHANGED <<req, decided, after, everEnded>>
          /\ pc' = [pc EXCEPT ![f] = "done"]
      BY <2>2 DEF CompleteForward
    <3>3. ASSUME NEW g \in Flows, Follows(f, g), IsAuthoredWrite(g), req[g].obj = req[f].obj
          PROVE  \/ coverage'[f] = "full" /\ g \in seen'[f]
                 \/ coverage'[f] \in {"partial", "streamed"}
      <4>1. g \in InScope(f, writeLog[Run(f)])
        BY <3>3 DEF InScope, LogHolds, Placed
      <4>2. CASE body = "streamed"
        BY <3>1, <4>2
      <4>3. CASE body = "plain"
        BY <3>1, <4>1, <4>3
      <4>4. CASE body = "short"
        BY <3>1, <4>1, <4>4
      <4> QED BY <4>2, <4>3, <4>4
    <3>4. \A x \in Flows \ {f} : pc'[x] = pc[x] /\ coverage'[x] = coverage[x] /\ seen'[x] = seen[x]
      BY <3>1, <3>2
    <3>5. ASSUME NEW x \in Flows, NEW g \in Flows
          PROVE  /\ Follows(x, g)' => Follows(x, g)
                 /\ IsAuthoredWrite(g)' => IsAuthoredWrite(g)
      BY <3>2
    <3> HIDE DEF Follows, IsAuthoredWrite
    <3> QED BY <3>2, <3>3, <3>4, <3>5
  <2>3. CASE Fail(f)
    BY <2>3 DEF Fail
  <2>4. CASE CarryFails(f)
    BY <2>4 DEF CarryFails
  <2> HIDE DEF ReadsShowAnsweredWrites
  <2> QED BY <1>3, <2>1, <2>2, <2>3, <2>4 DEF Finish
<1>4. ASSUME NEW r \in Runs, EndWriteLog(r) PROVE ReadsShowAnsweredWrites'
  BY <1>4 DEF EndWriteLog, flowVars
<1>5. CASE EndKeys
  BY <1>5 DEF EndKeys, flowVars
<1>6. CASE UNCHANGED vars
  BY <1>6 DEF vars
<1> HIDE DEF ReadsShowAnsweredWrites
<1> QED BY <1>1, <1>2, <1>3, <1>4, <1>5, <1>6 DEF Next

-----------------------------------------------------------------------------
(* The theorems. *)

\* The inductive invariant holds at the start.
LEMMA IInvInit == Init => IInv
<1> SUFFICES ASSUME Init PROVE IInv
  OBVIOUS
<1>1. TypeOK
  BY TypeInit
<1>2. Placed /\ EndsKnown /\ EndedRunsHoldNothing
  BY SessionAssumption
     DEF Init, Placed, Undecided, Planning, EndsKnown, EndedRunsHoldNothing, Remembers
<1>3. KeysHold /\ RecallStops
  BY DEF Init, KeysHold, RecallStops, DecidedAfresh, Follows
<1>4. LogHolds /\ SnapshotHolds /\ ReadsShowAnsweredWrites
  BY DEF Init, LogHolds, SnapshotHolds, ReadsShowAnsweredWrites, Follows, IsAuthoredWrite, InScope
<1>5. OnlyAnsweredFakesAreFiled /\ SharedWithin /\ RunsNeverMix
  BY DEF Init, OnlyAnsweredFakesAreFiled, SharedWithin, RunsNeverMix
<1> QED BY <1>1, <1>2, <1>3, <1>4, <1>5 DEF IInv

\* Every step keeps the inductive invariant.
LEMMA IInvStep == IInv /\ [Next]_vars => IInv'
  BY TypeStep, PlacedStep, EndsStep, EndedHoldNothingStep, KeysHoldStep, RecallStopsStep,
     LogHoldsStep, SnapshotHoldsStep, ReadsShowStep, FiledStep, SharedWithinStep,
     RunsNeverMixStep
  DEF IInv

\* The inductive invariant holds, for every instance.
THEOREM Inductive == Spec => []IInv
  BY IInvInit, IInvStep, PTL DEF Spec

\* A keyed write sent after its key was answered is never decided again.
THEOREM RetriedOnce == Spec => []RetryAppliedOnce
<1>1. IInv => RetryAppliedOnce
  BY DEF IInv, RecallStops, RetryAppliedOnce
<1> QED BY <1>1, Inductive, PTL

\* All retries of one key get one answer.
THEOREM RetriesSame == Spec => []RetriesAgree
<1>1. IInv => RetriesAgree
  BY DEF IInv, KeysHold, RetriesAgree, SameSlot, Held, Run
<1> QED BY <1>1, Inductive, PTL

\* A precondition check sees every faked write answered before its request.
THEOREM ChecksSee == Spec => []CheckSeesEarlierWrites
<1>1. IInv => CheckSeesEarlierWrites
  BY DEF IInv, SnapshotHolds, CheckSeesEarlierWrites, InScope
<1> QED BY <1>1, Inductive, PTL

\* An agent reads its own faked writes.
THEOREM ReadsShow == Spec => []ReadsShowAnsweredWrites
<1>1. IInv => ReadsShowAnsweredWrites
  BY DEF IInv
<1> QED BY <1>1, Inductive, PTL

\* No run sees another's writes, keys or answers.
THEOREM Isolation == Spec => []RunsNeverMix
<1>1. IInv => RunsNeverMix
  BY DEF IInv
<1> QED BY <1>1, Inductive, PTL

\* While an ended run is remembered it holds nothing.
THEOREM EndedHoldNothing == Spec => []EndedRunsHoldNothing
<1>1. IInv => EndedRunsHoldNothing
  BY DEF IInv
<1> QED BY <1>1, Inductive, PTL

\* Nothing but an answered fake is ever filed.
THEOREM OnlyFakesFiled == Spec => []OnlyAnsweredFakesAreFiled
<1>1. IInv => OnlyAnsweredFakesAreFiled
  BY DEF IInv
<1> QED BY <1>1, Inductive, PTL

-----------------------------------------------------------------------------
(* The session implements RunMemory.                                         *)

\* A flow's answer is its own until it is decided, and a faked write's stays so.
OwnAnswers ==
    \A f \in Flows : /\ decided[f] = "none" => answer[f] = NoFlow
                     /\ decided[f] = "fresh" => answer[f] = f

\* Every step keeps a fresh decision's answer its own.
LEMMA OwnAnswersStep == TypeOK /\ Placed /\ OwnAnswers /\ [Next]_vars => OwnAnswers'
<1> SUFFICES ASSUME TypeOK, Placed, OwnAnswers, [Next]_vars PROVE OwnAnswers'
  OBVIOUS
<1> USE SessionAssumption DEF TypeOK, Placed, Undecided, OwnAnswers, Go
<1>1. ASSUME NEW f \in Flows, NEW r \in Requests, Send(f, r) PROVE OwnAnswers'
  BY <1>1 DEF Send
<1>2. ASSUME NEW f \in Flows, Plan(f) PROVE OwnAnswers'
  <2>1. CASE DecisionFailed(f) \/ PlanDelegate(f) \/ PlanForward(f)
    BY <2>1 DEF DecisionFailed, PlanDelegate, PlanForward
  <2>2. CASE Snapshot(f) \/ RecallFresh(f) \/ Check(f)
    BY <2>2 DEF Snapshot, RecallFresh, Check
  <2>3. CASE RecallRetry(f) \/ RecallConflict(f)
    BY <2>3 DEF RecallRetry, RecallConflict
  <2>4. CASE AnswerLocally(f)
    BY <2>4 DEF AnswerLocally
  <2> QED BY <1>2, <2>1, <2>2, <2>3, <2>4 DEF Plan, Decide
<1>3. ASSUME NEW f \in Flows, Finish(f) PROVE OwnAnswers'
  <2>1. CASE CompleteAnswer(f) \/ Fail(f)
    BY <2>1 DEF CompleteAnswer, Fail
  <2>2. CASE CompleteForward(f)
    BY <2>2 DEF CompleteForward
  <2>3. CASE CarryFails(f)
    BY <2>3 DEF CarryFails
  <2> QED BY <1>3, <2>1, <2>2, <2>3 DEF Finish
<1>4. CASE EndKeys \/ (\E r \in Runs : EndWriteLog(r)) \/ UNCHANGED vars
  BY <1>4 DEF EndKeys, EndWriteLog, vars, flowVars
<1> QED BY <1>1, <1>2, <1>3, <1>4 DEF Next

\* A flow that was sent and is not answered yet may move without a trace in the memory.
LEMMA MoveUnseen ==
    ASSUME TypeOK, NEW f \in Flows, NEW place, NEW decision,
           pc[f] \notin {"unsent", "done"}, place # "unsent",
           pc' = [pc EXCEPT ![f] = place], decided' = [decided EXCEPT ![f] = decision],
           place # "done" \/ decision # "fresh" \/ IsLive(f), req' = req
    PROVE  Owner' = Owner /\ Told' = Told
<1> USE DEF TypeOK
<1>1. \A g \in Flows : /\ (pc'[g] = "unsent") <=> (pc[g] = "unsent")
                       /\ (pc'[g] = "done" /\ decided'[g] = "fresh" /\ ~IsLive(g))
                            <=> (pc[g] = "done" /\ decided[g] = "fresh" /\ ~IsLive(g))
  OBVIOUS
<1>2. Owner' = Owner
  BY <1>1 DEF Owner, Run
<1>3. Told' = Told
  BY <1>1 DEF Told, IsAuthoredWrite, IsLive
<1> QED BY <1>2, <1>3

\* The first state is a memory that holds nothing.
LEMMA MemoryInit == Init => Memory!Init
  BY DEF Init, Memory!Init, Owner, Told

\* Every step of the session is a step of the memory, or none.
LEMMA MemoryStep == IInv /\ OwnAnswers /\ [Next]_vars => [Memory!Next]_(Memory!vars)
<1> SUFFICES ASSUME IInv, OwnAnswers, [Next]_vars
             PROVE  Memory!Next \/ UNCHANGED Memory!vars
  OBVIOUS
<1> USE SessionAssumption
<1>0. TypeOK /\ Placed /\ EndsKnown /\ SharedWithin
  BY DEF IInv
<1>a. \A f \in Flows : Run(f) \in Runs
  BY <1>0 DEF TypeOK, Run, RequestSet
<1>b. \A f \in Flows : pc[f] # "unsent" => Owner[f] = Run(f) /\ Owner[f] \in Runs
  BY <1>a DEF Owner
<1>1. ASSUME NEW f \in Flows, NEW r \in Requests, Send(f, r) PROVE Memory!Next
  <2>1. Owner[f] = NoRun /\ Owner' = [Owner EXCEPT ![f] = r.run] /\ r.run \in Runs
    BY <1>0, <1>1 DEF Send, Go, Owner, Run, TypeOK, RequestSet
  <2>2. Told' = Told
    BY <1>0, <1>1 DEF Send, Go, Told, TypeOK, IsAuthoredWrite, IsLive
  <2>3. UNCHANGED <<writeLog, keys, answer, seen, everEnded>>
    BY <1>1 DEF Send, endVars
  <2>4. Memory!Send(f, r.run)
    BY <2>1, <2>2, <2>3 DEF Memory!Send
  <2> QED BY <2>1, <2>4 DEF Memory!Next
<1>2. ASSUME NEW f \in Flows, Plan(f) PROVE Memory!Next \/ UNCHANGED Memory!vars
  <2> USE DEF Go
  <2>0. pc[f] \notin {"unsent", "done"}
    BY <1>2 DEF Plan, Decide, DecisionFailed, PlanDelegate, PlanForward, Snapshot, RecallFresh,
                RecallRetry, RecallConflict, Check, AnswerLocally
  <2>1. CASE DecisionFailed(f) \/ PlanDelegate(f) \/ PlanForward(f) \/ RecallConflict(f)
    <3>1. Owner' = Owner /\ Told' = Told
      BY <1>0, <2>0, <2>1, MoveUnseen
      DEF DecisionFailed, PlanDelegate, PlanForward, RecallConflict
    <3>2. UNCHANGED <<writeLog, keys, answer, seen, everEnded>>
      BY <2>1 DEF DecisionFailed, PlanDelegate, PlanForward, RecallConflict, endVars
    <3> QED BY <3>1, <3>2 DEF Memory!vars
  <2>2. CASE RecallFresh(f) \/ Check(f)
    <3>1. Owner' = Owner /\ Told' = Told
      BY <1>0, <2>0, <2>2 DEF TypeOK, RecallFresh, Check, Owner, Told, Run, IsAuthoredWrite, IsLive
    <3>2. UNCHANGED <<writeLog, keys, answer, seen, everEnded>>
      BY <2>2 DEF RecallFresh, Check, endVars
    <3> QED BY <3>1, <3>2 DEF Memory!vars
  <2>3. CASE Snapshot(f)
    <3>1. Owner' = Owner /\ Told' = Told
      BY <1>0, <2>0, <2>3 DEF TypeOK, Snapshot, Owner, Told, Run, IsAuthoredWrite, IsLive
    <3>2. /\ seen' = [seen EXCEPT ![f] = writeLog[Run(f)]]
          /\ UNCHANGED <<writeLog, keys, answer, everEnded>>
      BY <2>3 DEF Snapshot, endVars
    <3>3. Memory!Look(f, writeLog[Run(f)])
      BY <1>b, <2>0, <3>1, <3>2 DEF Memory!Look
    <3>4. writeLog[Run(f)] \in SUBSET Flows
      BY <1>0, <1>a DEF TypeOK
    <3> QED BY <3>3, <3>4 DEF Memory!Next
  <2>4. CASE RecallRetry(f)
    <3>1. Owner' = Owner /\ Told' = Told
      BY <1>0, <2>0, <2>4, MoveUnseen DEF RecallRetry
    <3>2. /\ answer' = [answer EXCEPT ![f] = Held(f)]
          /\ UNCHANGED <<writeLog, keys, seen, everEnded>>
      BY <2>4 DEF RecallRetry, endVars
    <3>3. req[f].key \in Keys /\ Held(f) = keys[Run(f)][req[f].key]
      BY <1>0, <2>4 DEF RecallRetry, Held, Keyed, TypeOK, RequestSet
    <3>4. answer[f] = NoFlow
      BY <1>0, <2>4 DEF RecallRetry, OwnAnswers, Placed, Undecided
    <3>5. Memory!Repeat(f, req[f].key)
      BY <1>b, <2>0, <3>1, <3>2, <3>3, <3>4 DEF Memory!Repeat
    <3> QED BY <3>3, <3>5 DEF Memory!Next
  <2>5. CASE AnswerLocally(f)
    <3>1. Owner' = Owner /\ Told' = Told
      BY <1>0, <2>0, <2>5, MoveUnseen DEF AnswerLocally
    <3>2. /\ answer' = [answer EXCEPT ![f] = f]
          /\ UNCHANGED <<writeLog, seen, everEnded>>
      BY <2>5 DEF AnswerLocally, endVars
    <3>3. answer[f] = NoFlow
      BY <1>0, <2>5 DEF AnswerLocally, OwnAnswers, Placed, Undecided
    <3>4. \/ UNCHANGED keys
          \/ \E k \in Keys : /\ keys[Run(f)][k] = NoFlow
                             /\ keys' = [keys EXCEPT ![Run(f)][k] = f]
      <4>1. Put(f)
        BY <2>5 DEF AnswerLocally
      <4>2. CASE Keyed(f) /\ Held(f) = NoFlow /\ ~Remembers(keyEnded, Run(f))
        <5>1. req[f].key \in Keys
          BY <1>0, <4>2 DEF Keyed, TypeOK, RequestSet
        <5>2. keys[Run(f)][req[f].key] = NoFlow
          BY <4>2 DEF Held
        <5>3. keys' = [keys EXCEPT ![Run(f)][req[f].key] = f]
          BY <4>1, <4>2 DEF Put
        <5> QED BY <5>1, <5>2, <5>3
      <4>3. CASE ~(Keyed(f) /\ Held(f) = NoFlow /\ ~Remembers(keyEnded, Run(f)))
        BY <4>1, <4>3 DEF Put
      <4> QED BY <4>2, <4>3
    <3>5. Memory!Mint(f)
      BY <1>b, <2>0, <3>1, <3>2, <3>3, <3>4 DEF Memory!Mint
    <3> QED BY <3>5 DEF Memory!Next
  <2> QED BY <1>2, <2>1, <2>2, <2>3, <2>4, <2>5 DEF Plan, Decide
<1>3. ASSUME NEW f \in Flows, Finish(f) PROVE Memory!Next \/ UNCHANGED Memory!vars
  <2> USE DEF Go
  <2>0. pc[f] = "planned"
    BY <1>3 DEF Finish, CompleteAnswer, CompleteForward, Fail, CarryFails
  <2>1. CASE CarryFails(f)
    <3>1. Owner' = Owner /\ Told' = Told
      BY <1>0, <2>0, <2>1, MoveUnseen DEF CarryFails
    <3>2. UNCHANGED <<writeLog, keys, answer, seen, everEnded>>
      BY <2>1 DEF CarryFails, endVars
    <3> QED BY <3>1, <3>2 DEF Memory!vars
  <2>2. CASE Fail(f)
    <3>1. Owner' = Owner /\ Told' = Told
      BY <1>0, <2>0, <2>2 DEF TypeOK, Fail, Owner, Told, Run, IsAuthoredWrite, IsLive
    <3>2. UNCHANGED <<writeLog, keys, answer, seen, everEnded>>
      BY <2>2 DEF Fail, endVars
    <3> QED BY <3>1, <3>2 DEF Memory!vars
  <2>3. CASE CompleteForward(f)
    <3>1. Owner' = Owner /\ Told' = Told
      BY <1>0, <2>0, <2>3
      DEF TypeOK, CompleteForward, Owner, Told, Run, IsAuthoredWrite, IsLive
    <3>2. UNCHANGED <<writeLog, keys, answer, everEnded>>
      BY <2>3 DEF CompleteForward, endVars
    <3>3. PICK writes \in SUBSET writeLog[Run(f)] : seen' = [seen EXCEPT ![f] = writes]
      <4>1. InScope(f, writeLog[Run(f)]) \in SUBSET writeLog[Run(f)]
        BY DEF InScope
      <4>2. PICK body : seen' = [seen EXCEPT ![f] = IF body = "plain"
                                                    THEN InScope(f, writeLog[Run(f)]) ELSE {}]
        BY <2>3 DEF CompleteForward
      <4> QED BY <4>1, <4>2
    <3>4. Memory!Look(f, writes)
      BY <1>b, <2>0, <3>1, <3>2, <3>3 DEF Memory!Look
    <3>5. writes \in SUBSET Flows
      BY <1>0, <1>a, <3>3 DEF TypeOK
    <3> QED BY <3>4, <3>5 DEF Memory!Next
  <2>4. CASE CompleteAnswer(f) /\ IsAuthoredWrite(f)
    <3>1. Owner' = Owner
      BY <1>0, <2>0, <2>4 DEF TypeOK, CompleteAnswer, Owner, Run
    <3>2. f \notin Told /\ Told' = Told \cup {f}
      BY <1>0, <2>0, <2>4 DEF TypeOK, CompleteAnswer, Told, IsAuthoredWrite, IsLive
    <3>3. UNCHANGED <<keys, answer, seen, everEnded>>
      BY <2>4 DEF CompleteAnswer, endVars
    <3>4. answer[f] = f
      BY <2>4 DEF IsAuthoredWrite, OwnAnswers
    <3>5. \/ writeLog' = [writeLog EXCEPT ![Run(f)] = @ \cup {f}]
          \/ Run(f) \in everEnded /\ UNCHANGED writeLog
      BY <1>0, <1>a, <2>4 DEF CompleteAnswer, File, EndsKnown
    <3>6. Memory!Apply(f)
      BY <1>b, <2>0, <3>1, <3>2, <3>3, <3>4, <3>5 DEF Memory!Apply
    <3> QED BY <3>6 DEF Memory!Next
  <2>5. CASE CompleteAnswer(f) /\ ~IsAuthoredWrite(f)
    <3>1. Owner' = Owner
      BY <1>0, <2>0, <2>5 DEF TypeOK, CompleteAnswer, Owner, Run
    <3>2. Told' = Told
      BY <1>0, <2>0, <2>5 DEF TypeOK, CompleteAnswer, Told, IsAuthoredWrite, IsLive
    <3>3. UNCHANGED <<writeLog, keys, answer, seen, everEnded>>
      BY <2>5 DEF CompleteAnswer, File, endVars
    <3> QED BY <3>1, <3>2, <3>3 DEF Memory!vars
  <2> QED BY <1>3, <2>1, <2>2, <2>3, <2>4, <2>5 DEF Finish
<1>4. ASSUME NEW r \in Runs, EndWriteLog(r) PROVE Memory!Next
  <2>1. Owner' = Owner /\ Told' = Told
    BY <1>4 DEF EndWriteLog, flowVars, Owner, Told, Run, IsAuthoredWrite, IsLive
  <2>2. Memory!Close(r)
    BY <1>4, <2>1 DEF EndWriteLog, flowVars, Memory!Close
  <2> QED BY <2>2 DEF Memory!Next
<1>5. CASE EndKeys
  <2>1. Owner' = Owner /\ Told' = Told
    BY <1>5 DEF EndKeys, flowVars, Owner, Told, Run, IsAuthoredWrite, IsLive
  <2>2. ending \in Runs /\ ending \in everEnded
    BY <1>0, <1>5 DEF EndKeys, EndsKnown, TypeOK
  <2>3. Memory!Forget(ending)
    BY <1>5, <2>1, <2>2 DEF EndKeys, flowVars, Memory!Forget
  <2> QED BY <2>2, <2>3 DEF Memory!Next
<1>6. CASE UNCHANGED vars
  <2>1. Owner' = Owner /\ Told' = Told
    BY <1>6 DEF vars, Owner, Told, Run, IsAuthoredWrite, IsLive
  <2> QED BY <1>6, <2>1 DEF vars, Memory!vars
<1> QED BY <1>1, <1>2, <1>3, <1>4, <1>5, <1>6 DEF Next

\* The session, with its threads, hooks and two locked stores, behaves as a run
\* memory that is changed in single steps.
THEOREM Refinement == Spec => ImplementsMemory
<1>1. Init => OwnAnswers
  <2> SUFFICES ASSUME Init PROVE OwnAnswers
    OBVIOUS
  <2>1. /\ answer = [f \in Flows |-> NoFlow]
        /\ decided = [f \in Flows |-> "none"]
    BY Zenon DEF Init
  <2> QED BY <2>1 DEF OwnAnswers
<1>2. IInv /\ OwnAnswers /\ [Next]_vars => OwnAnswers'
  BY OwnAnswersStep DEF IInv
<1> QED BY <1>1, <1>2, IInvInit, IInvStep, MemoryInit, MemoryStep, PTL
        DEF Spec, ImplementsMemory, Memory!Spec

=============================================================================
