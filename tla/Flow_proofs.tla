----------------------------- MODULE Flow_proofs -----------------------------
(***************************************************************************)
(* Proofs about Flow for every bound on faults and chunks and every stream *)
(* a service may send.  The inductive invariant says, for each place a     *)
(* flow may be at, which of the few shapes its answer, its plan and its    *)
(* record are in.                                                          *)
(***************************************************************************)
EXTENDS Flow, FiniteSetTheorems, SequenceTheorems, NaturalsInduction, WellFoundedInduction, TLAPS

(* The shapes of a flow. *)

\* Nothing has answered, planned or recorded it.
Untouched == answer = None /\ meta = None /\ recorded = <<>> /\ told = <<>>

\* irimi answered and recorded it in the request hook.
BySelf ==
    /\ answer = [by |-> "irimi", stamp |-> "irimi"] /\ meta = None
    /\ recorded = <<"irimi">> /\ told = <<>>

\* The endpoint answered it, and told the store what it confirmed.
ByControl ==
    /\ answer \in [by : {"control"}, stamp : Nat]
    /\ meta = None /\ recorded = <<>> /\ req.door = "control"
    /\ (told # <<>>) = (answer.stamp = 204)

\* A plan is on the flow, and nothing of it is recorded yet.
Planned == meta = plan /\ plan \in Plans /\ recorded = <<>> /\ told = <<>>

ByFake == Planned /\ plan.by = "fake" /\ answer = [by |-> "fake", stamp |-> "fake"]

Forwarded == Planned /\ Stamp(plan) \in {"live", "delegated"}

\* A service's answer: stamped as planned unless stamping it raised, and
\* always so when it streams.
ByService ==
    /\ answer \in [by : {"service"}, stamp : {None, HeaderStamp(plan)}]
    /\ answer.stamp = HeaderStamp(plan) \/ faults > 0
    /\ tee # None => answer.stamp = HeaderStamp(plan)

\* Where a request may go, and with which headers.
Home == IF req.door = "reverse" THEN "upstream" ELSE "service"
MayGo(to, hs) ==
    /\ to = IF plan.by = "delegated" THEN "target" ELSE Home
    /\ "run" \in hs => faults > 0
    /\ "credential" \in hs => plan.by # "delegated" \/ plan.auth

Gone ==
    /\ sent # None /\ plan \in Plans /\ Stamp(plan) \in {"live", "delegated"}
    /\ MayGo(sent.to, sent.headers)

\* What is left of a flow that is done.
LeftOver ==
    /\ plan # None => plan \in Plans
    /\ sent # None => Gone
    /\ \/ recorded = <<>>
       \/ sent = None /\ \E by \in {"irimi", "fake"} : recorded = <<by>>
       \/ sent = None /\ got = NoAnswer /\ \E by \in {"live", "delegated"} : recorded = <<by>>
       \/ sent # None /\ \E by \in {"live", "overlay", "delegated"} : recorded = <<by>>

-----------------------------------------------------------------------------
(* The inductive invariant, place by place. *)

Doors == {"forward", "reverse", "control"}
Places == {"none", "parse", "admit", "point", "strip", "plan", "carry", "hooked", "returned",
           "sent", "body", "streaming", "error", "response", "done", "dropped"}

TypeInv ==
    /\ at \in Places /\ faults \in Nat
    /\ at # "none" => req \in Requests
    /\ dial \in {None, "service", "listener", "upstream", "target"}
    /\ headers \in SUBSET {"credential", "run"}

InHook ==
    at \in {"none", "parse", "admit", "point", "strip", "plan", "carry"} =>
        /\ Untouched /\ sent = None /\ got = None /\ tee = None
        /\ IF at = "carry" THEN plan \in Plans ELSE plan = None

\* A request is on its way to the service its client named, and has lost
\* irimi's header unless removing it raised.
OnItsWay ==
    /\ at \in {"parse", "admit"} =>
          dial = (IF req.door = "forward" THEN "service" ELSE "listener")
    /\ at = "point" => req.door = "reverse"
    /\ at \in {"strip", "plan", "carry"} => dial = Home /\ req.door # "control"
    /\ at \in {"plan", "carry"} => ("run" \in headers => faults > 0)

Decided ==
    at \in {"hooked", "returned"} =>
        /\ sent = None /\ got = None /\ tee = None
        /\ plan # None => plan \in Plans
        /\ \/ BySelf \/ ByControl \/ ByFake
           \/ Forwarded /\ answer = None /\ MayGo(dial, headers)

Outside ==
    at \in {"sent", "body", "streaming"} =>
        /\ Forwarded /\ Gone /\ got = None
        /\ at \in {"sent", "body"} => tee = None
        /\ at \in {"body", "streaming"} => ByService
        /\ at = "streaming" => answer.stamp = HeaderStamp(plan)

Answering ==
    at = "response" =>
        /\ got = None
        /\ plan # None => plan \in Plans
        /\ \/ sent = None /\ tee = None /\ (BySelf \/ ByControl \/ ByFake)
           \/ Gone /\ Forwarded /\ ByService

\* A flow that fails has left, or was settled or planned when its agent did.
Failing ==
    at = "error" =>
        /\ got = None
        /\ plan # None => plan \in Plans
        /\ \/ sent = None /\ tee = None /\ (BySelf \/ ByControl \/ ByFake \/ Forwarded)
           \/ Gone /\ Forwarded /\ (tee # None => ByService)

Finished ==
    /\ at \in {"done", "dropped"} => LeftOver
    /\ at = "done" => meta = None
Settled == at = "done" => RecordedAsAnswered /\ AnswersStamped

IInv ==
    /\ TypeInv /\ InHook /\ OnItsWay /\ Decided /\ Outside /\ Answering /\ Failing /\ Finished
    /\ Settled

-----------------------------------------------------------------------------
(* Lemmas. *)

\* What a plan can be: irimi's own error is settled, what leaves is not.
LEMMA PlanFacts ==
    ASSUME NEW p \in Plans
    PROVE  /\ p # None
           /\ p.by \in {"live", "live, translated", "fake", "delegated", "irimi"}
           /\ p.settled <=> p.by = "irimi"
           /\ p.by # "delegated" => p.auth = FALSE
<1>1. p # None
  BY NoneAssumption
<1>2. CASE p \in [by : {"live", "live, translated", "fake"}, settled : {FALSE}, why : {None},
                  auth : {FALSE}]
  BY <1>1, <1>2
<1>3. CASE p \in [by : {"delegated"}, settled : {FALSE}, why : {None}, auth : BOOLEAN]
  BY <1>1, <1>3
<1>4. CASE p \in {Error("decision-failed"), Error("target-failed")}
  <2>1. p.by = "irimi" /\ p.settled = TRUE /\ p.auth = FALSE
    BY <1>4 DEF Error
  <2> QED BY <1>1, <2>1
<1> QED BY <1>2, <1>3, <1>4 DEF Plans

\* The doors a request comes in by.
LEMMA DoorFacts == \A r \in Requests : r.door \in Doors
<1> QED BY DEF Requests, Proxied, BaseUrl, Control, Doors

\* None is none of the answers.
LEMMA AnswerFacts ==
    /\ [by |-> "irimi", stamp |-> "irimi"] # None
    /\ [by |-> "fake", stamp |-> "fake"] # None
    /\ \A a \in [by : {"control"}, stamp : Nat] : a # None /\ a.by = "control" /\ a.stamp # None
    /\ \A a \in [by : {"service"}, stamp : {None, "delegated"}] : a # None
<1> DEFINE Named == {"irimi", "fake", "delegated"}
<1>1. /\ [by |-> "irimi", stamp |-> "irimi"] \in Stamped(Named)
      /\ [by |-> "fake", stamp |-> "fake"] \in Stamped(Named)
  BY DEF Stamped
<1>2. \A a \in [by : {"control"}, stamp : Nat] : a \in Stamped(Nat)
  BY DEF Stamped
<1>3. \A a \in [by : {"service"}, stamp : {None}] : a \in Stamped({None})
  BY DEF Stamped
<1>4. \A a \in [by : {"service"}, stamp : {"delegated"}] : a \in Stamped(Named)
  BY DEF Stamped
<1>5. \A a \in [by : {"service"}, stamp : {None, "delegated"}] :
        \/ a \in [by : {"service"}, stamp : {None}]
        \/ a \in [by : {"service"}, stamp : {"delegated"}]
  OBVIOUS
<1> QED BY <1>1, <1>2, <1>3, <1>4, <1>5, NoneAssumption

\* The first exchange of a flow is all its record holds.
LEMMA AppendFirst == \A x : Append(<<>>, x) = <<x>>
<1> QED OBVIOUS

\* irimi's answer in the hook settles a flow, whatever it is about.
LEMMA SelfSettles ==
    ASSUME IInv, NEW p, p.by = "irimi", at \in {"parse", "admit", "point", "strip", "plan", "carry"},
           AnswerNow(p), UNCHANGED <<req, told, sent, got, plan>>,
           faults' \in Nat, dial' = dial, headers' \in SUBSET headers
    PROVE  IInv'
<1>1. BySelf' /\ sent' = None /\ got' = None /\ tee' = None /\ at' = "hooked"
  BY AppendFirst DEF AnswerNow, Stamp, IInv, InHook, Untouched, BySelf
<1>2. plan' # None => plan' \in Plans
  BY DEF IInv, InHook
<1>3. TypeInv'
  BY <1>1 DEF IInv, TypeInv, Places
<1> QED
  BY <1>1, <1>2, <1>3
  DEF IInv, InHook, OnItsWay, Decided, Outside, Answering, Failing, Finished, Settled

-----------------------------------------------------------------------------
(* The invariant holds at first, and every step keeps it. *)

\* No flow is in the proxy yet.
LEMMA InvInit == Init => IInv
<1> QED
  BY DEF Init, IInv, TypeInv, Places, InHook, Untouched, OnItsWay, Decided, Outside, Answering, Failing,
         Finished, Settled

\* A step that leaves the flow alone keeps what is known of it.
LEMMA InvStutter == IInv /\ UNCHANGED flowVars => IInv'
<1> QED
  BY DEF flowVars, requestVars, answerVars, outVars, IInv, TypeInv, InHook, Untouched, OnItsWay,
         Home, Decided, BySelf, ByControl, ByFake, Planned, Forwarded, MayGo, Outside, Gone,
         ByService, Answering, Failing, Finished, LeftOver, Settled, RecordedAsAnswered,
         AnswersStamped, FromTheNetwork, Confirmed, NoAnswer

\* The request hook, up to its answer or its plan.
LEMMA InvHook ==
    ASSUME IInv, Parse \/ AnswerControl \/ Admit \/ PointUpstream \/ StripHeaders \/ MakePlan
    PROVE  IInv'
<1> USE DEF requestVars, answerVars, outVars, engineVars, TypeInv, Places, InHook, Untouched,
            OnItsWay, Home, Fault
<1>1. CASE Parse
  BY <1>1 DEF Parse, IInv, Decided, Outside, Answering, Failing, Finished, Settled
<1>2. CASE AnswerControl
  <2>1. at = "admit" /\ at' = "hooked" /\ Untouched /\ req.door = "control" /\ req' = req
    BY <1>2 DEF AnswerControl, IInv
  <2>2. answer' \in [by : {"control"}, stamp : Nat] /\ (told' # <<>>) = (answer'.stamp = 204)
    <3>1. CASE \E status \in Statuses(req) :
                  /\ answer' = [by |-> "control", stamp |-> status]
                  /\ told' = IF Refusal(req) = None /\ Tells(req) THEN Append(told, req.route)
                             ELSE told
      <4>1. PICK status \in Statuses(req) :
                  /\ answer' = [by |-> "control", stamp |-> status]
                  /\ told' = IF Refusal(req) = None /\ Tells(req) THEN Append(told, req.route)
                             ELSE told
        BY <3>1
      <4>2. Refusal(req) \in {426, 404, 405, 400, 413, None}
        BY DEF Refusal
      <4>3. status \in Nat /\ (status = 204 <=> Refusal(req) = None /\ Tells(req))
        <5>1. CASE Refusal(req) # None
          BY <4>2, <5>1 DEF Statuses
        <5>2. CASE Refusal(req) = None /\ req.route = "recorded"
          BY <5>2 DEF Statuses, Tells
        <5>3. CASE Refusal(req) = None /\ req.route = "health"
          BY <5>3 DEF Statuses, Tells
        <5>4. CASE Refusal(req) = None /\ req.route \notin {"recorded", "health"}
          <6>1. Statuses(req) = {204}
            BY <5>4 DEF Statuses
          <6>2. req.route \in {"none", "start", "end", "tool-calls"}
            BY <2>1, <5>4 DEF IInv, Requests, Proxied, BaseUrl, Control
          <6>3. req.route # "none"
            <7>1. 404 # None /\ 426 # None
              BY NoneAssumption
            <7>2. req.route = "none" => Refusal(req) \in {404, 426}
              BY DEF Refusal
            <7> QED BY <5>4, <7>1, <7>2
          <6> QED BY <5>4, <6>1, <6>2, <6>3 DEF Tells
        <5> QED BY <5>1, <5>2, <5>3, <5>4
      <4>4. Append(told, req.route) # <<>>
        BY <2>1, AppendFirst
      <4> QED BY <2>1, <4>1, <4>3, <4>4
    <3>2. CASE answer' = [by |-> "control", stamp |-> 500] /\ UNCHANGED told
      BY <2>1, <3>2
    <3> QED BY <1>2, <3>1, <3>2 DEF AnswerControl
  <2>3. ByControl'
    BY <1>2, <2>1, <2>2 DEF AnswerControl, ByControl
  <2>4. sent' = None /\ got' = None /\ tee' = None /\ plan' = None
    BY <1>2, <2>1 DEF AnswerControl, IInv
  <2>5. TypeInv'
    BY <1>2, <2>1 DEF AnswerControl, IInv
  <2> QED
    BY <2>1, <2>3, <2>4, <2>5 DEF IInv, Decided, Outside, Answering, Failing, Finished, Settled
<1>3. CASE Admit
  <2>1. CASE Refuse
    <3>1. Error("refused").by = "irimi"
      BY DEF Error
    <3> QED BY <1>3, <2>1, <3>1, SelfSettles DEF Admit, Refuse, IInv
  <2>2. CASE ~Refuse
    BY <1>3, <2>2, DoorFacts
    DEF Admit, IInv, Doors, Decided, Outside, Answering, Failing, Finished, Settled
  <2> QED BY <2>1, <2>2
<1>4. CASE PointUpstream
  BY <1>4 DEF PointUpstream, IInv, Decided, Outside, Answering, Failing, Finished, Settled
<1>5. CASE StripHeaders
  <2>1. at = "strip" /\ at' = "plan" /\ UNCHANGED <<req, dial, answerVars, outVars>>
    BY <1>5 DEF StripHeaders
  <2>2. headers' \in SUBSET {"credential", "run"} /\ faults' \in Nat
    <3>1. headers \in SUBSET {"credential", "run"} /\ faults \in Nat
      BY DEF IInv
    <3>2. headers' = headers \ {"run"} \/ UNCHANGED headers
      BY <1>5 DEF StripHeaders
    <3>3. UNCHANGED faults \/ faults' = faults + 1
      BY <1>5 DEF StripHeaders
    <3>4. headers' \in SUBSET {"credential", "run"}
      BY <3>1, <3>2
    <3>5. faults' \in Nat
      BY <3>1, <3>3
    <3> QED BY <3>4, <3>5
  <2>3. "run" \in headers' => faults' > 0
    BY <1>5 DEF StripHeaders, IInv
  <2> QED
    BY <2>1, <2>2, <2>3 DEF IInv, Decided, Outside, Answering, Failing, Finished, Settled
<1>6. CASE MakePlan
  BY <1>6 DEF MakePlan, IInv, Decided, Outside, Answering, Failing, Finished, Settled
<1> QED BY <1>1, <1>2, <1>3, <1>4, <1>5, <1>6

\* A request comes in, or a step of the hook raises.
LEMMA InvRaise ==
    ASSUME IInv, Arrive \/ Raise \/ RefuseRaised
    PROVE  IInv'
<1>0. \A why : Error(why).by = "irimi"
  BY DEF Error
<1>1. CASE Arrive
  <2>1. PICK r \in Requests :
           /\ req' = r
           /\ dial' = IF r.door = "forward" THEN "service" ELSE "listener"
           /\ headers' = {"credential"} \cup {h \in {"run"} : r.door # "control" /\ r.run}
    BY <1>1 DEF Arrive
  <2>2. headers' \in SUBSET {"credential", "run"}
    BY <2>1
  <2>3. dial' \in {"service", "listener"}
    BY <2>1
  <2>4. at = "none" /\ at' = "parse" /\ UNCHANGED <<engineVars, answerVars, outVars, faults>>
    BY <1>1 DEF Arrive
  <2>5. TypeInv' /\ OnItsWay'
    BY <2>1, <2>2, <2>3, <2>4 DEF IInv, TypeInv, Places, OnItsWay
  <2>6. InHook'
    BY <2>4 DEF IInv, InHook, Untouched, answerVars, outVars
  <2> QED
    BY <2>4, <2>5, <2>6 DEF IInv, Decided, Outside, Answering, Failing, Finished, Settled
<1>2. CASE Raise
  BY <1>0, <1>2, SelfSettles DEF Raise, Hooked, Fault, requestVars, IInv, TypeInv
<1>3. CASE RefuseRaised
  BY <1>0, <1>3, SelfSettles DEF RefuseRaised, Refuse, Fault, requestVars, IInv, TypeInv
<1> QED BY <1>1, <1>2, <1>3

\* Going by its plan: irimi answers, a target is dialled or the service is.
LEMMA InvCarry ==
    ASSUME IInv, Settle \/ CarryForward \/ CarryDelegate \/ DelegateFails \/ CarryRespond
    PROVE  IInv'
<1>0. /\ at = "carry" /\ Untouched /\ sent = None /\ got = None /\ tee = None /\ plan \in Plans
      /\ faults \in Nat /\ headers \in SUBSET {"credential", "run"}
      /\ dial = Home /\ req.door # "control" /\ ("run" \in headers => faults > 0)
      /\ req \in Requests /\ plan # None
  BY PlanFacts
  DEF IInv, InHook, OnItsWay, TypeInv, Settle, CarryForward, CarryDelegate, DelegateFails,
      CarryRespond
<1>1. CASE Settle
  BY <1>0, <1>1, PlanFacts, SelfSettles DEF Settle, requestVars
<1>2. CASE DelegateFails
  <2>1. Error("target-failed").by = "irimi"
    BY DEF Error
  <2> QED BY <1>0, <1>2, <2>1, SelfSettles DEF DelegateFails, Fault
<1>3. ASSUME /\ at' = "hooked" /\ meta' = plan /\ plan' = plan
             /\ UNCHANGED <<req, tee, recorded, told, sent, got, faults>>
             /\ dial' \in {"service", "upstream", "target"}
             /\ headers' \in SUBSET {"credential", "run"}
             /\ \/ ByFake'
                \/ Forwarded' /\ answer' = None /\ MayGo(dial, headers)'
      PROVE  IInv'
  BY <1>0, <1>3
  DEF IInv, TypeInv, Places, InHook, OnItsWay, Decided, Outside, Answering, Failing, Finished, Settled
<1>4. CASE CarryForward
  <2>1. Forwarded' /\ answer' = None
    BY <1>0, <1>4, PlanFacts
    DEF CarryForward, Keep, Forwarded, Planned, Untouched, Stamp
  <2>2. MayGo(dial, headers)'
    BY <1>0, <1>4, PlanFacts DEF CarryForward, Keep, requestVars, MayGo, Home
  <2> QED
    BY <1>0, <1>3, <1>4, <2>1, <2>2 DEF CarryForward, Keep, requestVars, Home
<1>5. CASE CarryDelegate
  <2>1. Forwarded' /\ answer' = None
    BY <1>0, <1>5, PlanFacts
    DEF CarryDelegate, Keep, Forwarded, Planned, Untouched, Stamp
  <2>2. headers' \in SUBSET headers /\ ("credential" \in headers' => plan.auth)
    BY <1>5 DEF CarryDelegate
  <2>3. MayGo(dial, headers)'
    BY <1>0, <1>5, <2>2 DEF CarryDelegate, Keep, MayGo
  <2>4. /\ at' = "hooked" /\ meta' = plan /\ plan' = plan
        /\ dial' \in {"service", "upstream", "target"}
        /\ UNCHANGED <<req, tee, recorded, told, sent, got, faults>>
    BY <1>5 DEF CarryDelegate, Keep
  <2>5. headers' \in SUBSET {"credential", "run"}
    BY <1>0, <2>2
  <2> QED BY <1>3, <2>1, <2>3, <2>4, <2>5
<1>6. CASE CarryRespond
  <2>1. ByFake'
    BY <1>0, <1>6 DEF CarryRespond, Keep, ByFake, Planned, Untouched
  <2>2. /\ at' = "hooked" /\ meta' = plan /\ plan' = plan
        /\ UNCHANGED <<req, dial, headers, tee, recorded, told, sent, got, faults>>
    BY <1>6 DEF CarryRespond, Keep, requestVars
  <2>3. dial' \in {"service", "upstream", "target"} /\ headers' \in SUBSET {"credential", "run"}
    BY <1>0, <2>2 DEF Home
  <2> QED BY <1>3, <2>1, <2>2, <2>3
<1> QED BY <1>1, <1>2, <1>4, <1>5, <1>6

\* The hook returns, and mitmproxy answers an answered flow or dials a bare
\* one: only a flow with a plan to leave is bare.
LEMMA InvReturn ==
    ASSUME IInv, ReturnHook \/ IssuedRaises \/ Dial \/ Answered
    PROVE  IInv'
<1>0. /\ at \in {"hooked", "returned"} /\ TypeInv /\ sent = None /\ got = None /\ tee = None
      /\ (plan # None => plan \in Plans)
      /\ \/ BySelf \/ ByControl \/ ByFake
         \/ Forwarded /\ answer = None /\ MayGo(dial, headers)
  BY DEF IInv, Decided, ReturnHook, IssuedRaises, Dial, Answered
<1>1. BySelf \/ ByControl \/ ByFake => answer # None
  BY AnswerFacts DEF BySelf, ByControl, ByFake
<1>2. CASE ReturnHook
  BY <1>0, <1>2
  DEF ReturnHook, requestVars, answerVars, outVars, IInv, TypeInv, Places, InHook, OnItsWay,
      Decided, BySelf, ByControl, ByFake, Planned, Forwarded, MayGo, Home, Outside, Answering,
      Failing, Finished, Settled
<1>3. CASE IssuedRaises
  <2>1. BySelf' \/ ByFake'
    BY <1>0, <1>1, <1>3, AppendFirst
    DEF IssuedRaises, BySelf, ByControl, ByFake, Planned, Forwarded
  <2>2. TypeInv' /\ sent' = None /\ got' = None /\ tee' = None /\ plan' = plan /\ at' = "returned"
    BY <1>0, <1>3 DEF IssuedRaises, Fault, requestVars, TypeInv, Places
  <2> QED
    BY <1>0, <2>1, <2>2
    DEF IInv, InHook, OnItsWay, Decided, Outside, Answering, Failing, Finished, Settled
<1>4. CASE Dial
  <2>1. Forwarded /\ MayGo(dial, headers)
    BY <1>0, <1>1, <1>4 DEF Dial
  <2>2. sent' = [to |-> dial, headers |-> headers] /\ dial \in {"service", "upstream", "target"}
    BY <1>4, <2>1 DEF Dial, MayGo, Home
  <2>3. sent' # None
    <3>1. sent' \in [to : {"service", "listener", "upstream", "target"},
                     headers : SUBSET {"credential", "run"}]
      BY <1>0, <2>2 DEF TypeInv
    <3> QED BY <3>1, NoneAssumption
  <2>4. Gone' /\ Forwarded'
    BY <1>4, <2>1, <2>2, <2>3
    DEF Dial, Gone, MayGo, Home, Forwarded, Planned, requestVars, answerVars
  <2>5. TypeInv' /\ at' = "sent" /\ got' = None /\ tee' = None
    BY <1>0, <1>4 DEF Dial, TypeInv, Places, requestVars, answerVars
  <2> QED
    BY <2>4, <2>5
    DEF IInv, InHook, OnItsWay, Decided, Outside, Answering, Failing, Finished, Settled
<1>5. CASE Answered
  <2>1. BySelf \/ ByControl \/ ByFake
    BY <1>0, <1>5 DEF Answered
  <2>2. (BySelf \/ ByControl \/ ByFake)'
    BY <1>5, <2>1
    DEF Answered, requestVars, answerVars, outVars, BySelf, ByControl, ByFake, Planned
  <2>3. /\ TypeInv' /\ at' = "response" /\ sent' = None /\ got' = None /\ tee' = None
        /\ (plan' # None => plan' \in Plans)
    BY <1>0, <1>5 DEF Answered, requestVars, answerVars, outVars, TypeInv, Places
  <2> QED
    BY <2>2, <2>3
    DEF IInv, InHook, OnItsWay, Decided, Outside, Answering, Failing, Finished, Settled
<1> QED BY <1>2, <1>3, <1>4, <1>5

\* What has left stays as it was planned.
LEMMA GoneStays ==
    ASSUME Gone, faults \in Nat, faults' \in Nat, faults' >= faults, UNCHANGED <<req, sent, plan>>
    PROVE  Gone'
<1> QED BY DEF Gone, MayGo, Home

\* The service answers, or does not.
LEMMA InvService ==
    ASSUME IInv, (Break /\ at # "returned") \/ Responseheaders \/ PassChunk \/ BodyEnds
    PROVE  IInv'
<1>0. /\ at \in {"sent", "body", "streaming"} /\ Outside /\ TypeInv
      /\ Forwarded /\ Gone /\ got = None /\ faults \in Nat
  BY DEF IInv, TypeInv, Outside, Break, Responseheaders, PassChunk, BodyEnds
<1>1. faults' \in Nat /\ faults' >= faults
  BY <1>0 DEF Break, Responseheaders, PassChunk, BodyEnds, Fault
<1>2. UNCHANGED <<requestVars, meta, recorded, told, sent, plan, got>>
  BY DEF Break, Responseheaders, PassChunk, BodyEnds, requestVars, answerVars, outVars
<1>3. Gone' /\ Forwarded' /\ got' = None
  BY <1>0, <1>1, <1>2, GoneStays DEF requestVars, Forwarded, Planned
<1>4. at' \in {"body", "streaming", "error", "response"}
  BY <1>0 DEF Break, Responseheaders, PassChunk, BodyEnds
<1>5. TypeInv'
  BY <1>0, <1>1, <1>2, <1>4 DEF TypeInv, Places, requestVars
<1>6. plan # None
  BY <1>0, PlanFacts DEF Gone
<1>8. at' = "error" => (tee' # None => ByService')
  <2>1. at' = "error" => Break
    BY <1>0 DEF Responseheaders, PassChunk, BodyEnds
  <2>2. Break /\ at # "sent" => ByService'
    BY <1>0, <1>2 DEF Break, Outside, answerVars, ByService, HeaderStamp, Stamp
  <2>3. Break /\ at = "sent" => tee' = None
    BY <1>0 DEF Break, Outside, answerVars
  <2> QED BY <2>1, <2>2, <2>3
<1>7. /\ at' = "body" => tee' = None
      /\ at' \in {"body", "streaming", "response"} => ByService'
      /\ at' = "streaming" => answer'.stamp = HeaderStamp(plan)'
  <2>1. CASE Break
    BY <1>0, <1>2, <2>1 DEF Break, Outside, answerVars, ByService, HeaderStamp, Stamp
  <2>2. CASE Responseheaders
    <3>1. Asked /\ meta = plan /\ at = "sent" /\ tee = None
      BY <1>0, <1>6, <2>2 DEF Responseheaders, Asked, Forwarded, Planned, Outside
    <3>2. CASE answer' = [by |-> "service", stamp |-> HeaderStamp(meta)]
      <4>1. HeaderStamp(meta) = HeaderStamp(plan)'
        BY <1>2, <3>1 DEF HeaderStamp, Stamp
      <4>2. ByService' /\ answer'.stamp = HeaderStamp(plan)'
        BY <3>2, <4>1 DEF ByService
      <4>3. at' = "body" => tee' = None
        BY <2>2, <3>1 DEF Responseheaders
      <4> QED BY <4>2, <4>3
    <3>3. CASE /\ Fault /\ answer' \in [by : {"service"}, stamp : {None, HeaderStamp(meta)}]
               /\ at' = "body" /\ tee' = tee
      <4>1. HeaderStamp(meta) = HeaderStamp(plan)'
        BY <1>2, <3>1 DEF HeaderStamp, Stamp
      <4> QED BY <1>0, <3>1, <3>3, <4>1 DEF Fault, ByService
    <3> QED BY <2>2, <3>1, <3>2, <3>3 DEF Responseheaders
  <2>3. CASE PassChunk
    BY <1>0, <1>1, <1>2, <2>3 DEF PassChunk, Outside, ByService, HeaderStamp, Stamp
  <2>4. CASE BodyEnds
    BY <1>0, <1>2, <2>4 DEF BodyEnds, Outside, answerVars, ByService, HeaderStamp, Stamp
  <2> QED BY <2>1, <2>2, <2>3, <2>4
<1> QED
  BY <1>3, <1>4, <1>5, <1>7, <1>8, PlanFacts
  DEF IInv, InHook, OnItsWay, Decided, Outside, Answering, Failing, Gone, Finished, Settled

\* The agent left while the request hook ran.
LEMMA InvLeft ==
    ASSUME IInv, Break, at = "returned"
    PROVE  IInv'
<1>1. /\ TypeInv /\ sent = None /\ got = None /\ tee = None
      /\ plan # None => plan \in Plans
      /\ BySelf \/ ByControl \/ ByFake \/ Forwarded
  BY DEF IInv, Decided
<1>2. at' = "error" /\ UNCHANGED <<requestVars, answerVars, outVars, faults>>
  BY DEF Break
<1>3. BySelf' \/ ByControl' \/ ByFake' \/ Forwarded'
  BY <1>1, <1>2
  DEF BySelf, ByControl, ByFake, Forwarded, Planned, requestVars, answerVars, outVars
<1>4. TypeInv' /\ sent' = None /\ got' = None /\ tee' = None /\ (plan' # None => plan' \in Plans)
  BY <1>1, <1>2 DEF TypeInv, Places, requestVars, answerVars, outVars
<1> QED
  BY <1>2, <1>3, <1>4
  DEF IInv, InHook, OnItsWay, Decided, Outside, Answering, Failing, Finished, Settled

\* A flow that is done is told right, whichever way it came to its end.
LEMMA DoneIsSettled ==
    ASSUME TypeInv, at # "none", at' = "done", meta' = None, UNCHANGED <<req, dial, headers>>,
           faults' \in Nat, RecordedAsAnswered', AnswersStamped', LeftOver'
    PROVE  IInv'
<1> QED
  BY DEF TypeInv, Places, IInv, InHook, OnItsWay, Decided, Outside, Answering, Failing, Finished, Settled

\* A flow irimi or its endpoint answered ends with the answer it has.
LEMMA InvUnplanned ==
    ASSUME IInv, Unplanned
    PROVE  IInv'
<1>1. /\ at = "response" /\ TypeInv /\ got' = answer /\ at' = "done" /\ meta = None
      /\ UNCHANGED <<requestVars, recorded, told, sent, plan, faults>>
  BY DEF Unplanned, IInv
<1>2. sent = None /\ (BySelf \/ ByControl) /\ (plan # None => plan \in Plans)
  BY <1>1, PlanFacts DEF IInv, Answering, ByFake, Forwarded, Planned
<1>3. LeftOver'
  BY <1>1, <1>2 DEF LeftOver, BySelf, ByControl
<1>4. RecordedAsAnswered' /\ AnswersStamped'
  <2>1. CASE BySelf
    <3>1. /\ got' = [by |-> "irimi", stamp |-> "irimi"] /\ sent' = None /\ told' = <<>>
          /\ recorded' = <<"irimi">>
      BY <1>1, <1>2, <2>1 DEF BySelf
    <3>2. got'.stamp # None
      BY <3>1, NoneAssumption
    <3> QED BY <3>1, <3>2 DEF RecordedAsAnswered, AnswersStamped, FromTheNetwork, Confirmed
  <2>2. CASE ByControl
    BY <1>1, <1>2, <2>2, AnswerFacts
    DEF ByControl, RecordedAsAnswered, AnswersStamped, Confirmed, requestVars
  <2> QED BY <1>2, <2>1, <2>2
<1> QED
  BY <1>1, <1>3, <1>4, DoneIsSettled DEF TypeInv, requestVars, Unplanned, answerVars

\* A service's answer ends recorded as what was planned or as overlaid, or not
\* at all when recording it raised.
LEMMA ServedIsSettled ==
    ASSUME TypeInv, Gone, Forwarded, at # "none", at' = "done", meta' = None,
           UNCHANGED <<req, dial, headers, told, sent, plan>>,
           faults' \in Nat, faults' >= faults,
           \/ /\ recorded' = <<>> /\ faults' > faults
              /\ \/ ByService /\ got' = answer
                 \/ got' = NoAnswer
           \/ /\ recorded' = <<Stamp(plan)>>
              /\ \/ /\ got' = answer /\ answer.by = "service"
                    /\ answer.stamp = HeaderStamp(plan)
                 \/ got' = NoAnswer
           \/ /\ \E by \in {"overlay", "delegated"} :
                    /\ Stamp(plan) = (IF by = "overlay" THEN "live" ELSE "delegated")
                    /\ recorded' = <<by>>
                    /\ got'.by = "service" /\ got'.stamp = by
    PROVE  IInv'
<1>1. faults \in Nat
  BY DEF TypeInv
<1>2. Gone' /\ sent' # None /\ told' = <<>> /\ plan' = plan /\ plan \in Plans
  BY <1>1, GoneStays DEF Gone, Forwarded, Planned
<1>3. Stamp(plan) \in {"live", "delegated"}
  BY DEF Forwarded
<1>4. CASE /\ recorded' = <<>> /\ faults' > faults
           /\ \/ ByService /\ got' = answer
              \/ got' = NoAnswer
  <2>1. LeftOver'
    BY <1>2, <1>4 DEF LeftOver
  <2>2. RecordedAsAnswered'
    BY <1>1, <1>2, <1>4 DEF RecordedAsAnswered, ByService, Confirmed, NoAnswer
  <2>3. AnswersStamped'
    <3>1. HeaderStamp(plan)' = HeaderStamp(plan)
      BY <1>2 DEF HeaderStamp, Stamp
    <3>2. CASE ByService /\ got' = answer
      <4>1. answer.stamp = HeaderStamp(plan) \/ faults' > 1
        BY <1>1, <1>4, <3>2 DEF ByService
      <4> QED BY <1>4, <3>1, <3>2, <4>1 DEF AnswersStamped, ByService
    <3>3. CASE got' = NoAnswer
      BY <3>3 DEF AnswersStamped, NoAnswer
    <3> QED BY <1>4, <3>2, <3>3
  <2> QED BY <2>1, <2>2, <2>3, DoneIsSettled
<1>5. CASE /\ recorded' = <<Stamp(plan)>>
           /\ \/ got' = answer /\ answer.by = "service" /\ answer.stamp = HeaderStamp(plan)
              \/ got' = NoAnswer
  <2>1. LeftOver'
    BY <1>2, <1>3, <1>5 DEF LeftOver
  <2>2. RecordedAsAnswered'
    BY <1>2, <1>3, <1>5 DEF RecordedAsAnswered, HeaderStamp, FromTheNetwork, Confirmed, NoAnswer
  <2>3. AnswersStamped'
    BY <1>3, <1>5 DEF AnswersStamped, HeaderStamp, NoAnswer
  <2> QED BY <2>1, <2>2, <2>3, DoneIsSettled
<1>6. ASSUME NEW by \in {"overlay", "delegated"},
             Stamp(plan) = (IF by = "overlay" THEN "live" ELSE "delegated"),
             recorded' = <<by>>, got'.by = "service", got'.stamp = by
      PROVE  IInv'
  <2>1. LeftOver'
    BY <1>2, <1>6 DEF LeftOver
  <2>2. RecordedAsAnswered'
    BY <1>2, <1>6 DEF RecordedAsAnswered, FromTheNetwork, Confirmed
  <2>3. AnswersStamped'
    BY <1>6 DEF AnswersStamped
  <2> QED BY <2>1, <2>2, <2>3, DoneIsSettled
<1> QED BY <1>4, <1>5, <1>6

\* A flow that a plan was made for ends: its answer is completed, was streamed,
\* failed, or could not be recorded.
LEMMA InvServed ==
    ASSUME IInv, Streamed \/ Completed \/ ResponseRaises
    PROVE  IInv'
<1>1. /\ at = "response" /\ meta # None /\ TypeInv /\ at' = "done" /\ faults \in Nat
      /\ meta' = None
      /\ UNCHANGED <<req, dial, headers, told, sent, plan>>
      /\ faults' \in Nat /\ faults' >= faults
  <2>1. TypeInv /\ faults \in Nat
    BY DEF IInv, TypeInv
  <2>2. CASE Streamed
    BY <2>1, <2>2 DEF Streamed, Pop, requestVars
  <2>3. CASE Completed
    BY <2>1, <2>3 DEF Completed, Pop, requestVars
  <2>4. CASE ResponseRaises
    BY <2>1, <2>4 DEF ResponseRaises, Fault, Pop, requestVars
  <2> QED BY <2>2, <2>3, <2>4
<1>2. \/ sent = None /\ tee = None /\ ByFake
      \/ Gone /\ Forwarded /\ ByService
  BY <1>1 DEF IInv, Answering, BySelf, ByControl
<1>3. CASE ByFake /\ sent = None /\ tee = None
  <2>1. Stamp(meta) = "fake" /\ answer = [by |-> "fake", stamp |-> "fake"] /\ recorded = <<>>
    BY <1>3 DEF ByFake, Planned, Stamp
  <2>2. got' = [by |-> "fake", stamp |-> "fake"]
    BY <1>3, <2>1 DEF Streamed, Completed, ResponseRaises
  <2>3. recorded' = <<"fake">> \/ (recorded' = <<>> /\ faults' > 0)
    BY <1>1, <1>3, <2>1, AppendFirst DEF Streamed, Completed, ResponseRaises, Fault
  <2>4. got'.stamp # None
    BY <2>2, NoneAssumption
  <2>5. sent' = None /\ told' = <<>> /\ plan' = plan /\ plan \in Plans
    BY <1>1, <1>3 DEF ByFake, Planned
  <2>6. AnswersStamped' /\ LeftOver'
    BY <2>2, <2>3, <2>4, <2>5 DEF AnswersStamped, LeftOver
  <2>7. RecordedAsAnswered'
    <3>1. ~Confirmed'
      BY <2>2 DEF Confirmed
    <3>2. CASE recorded' = <<>> /\ faults' > 0
      BY <2>5, <3>1, <3>2 DEF RecordedAsAnswered
    <3>3. CASE recorded' = <<"fake">>
      <4>1. recorded'[1] = "fake" /\ Len(recorded') = 1 /\ got'.by = "fake"
        BY <2>2, <3>3
      <4> QED BY <2>5, <3>1, <3>3, <4>1 DEF RecordedAsAnswered, FromTheNetwork
    <3> QED BY <2>3, <3>2, <3>3
  <2> QED BY <1>1, <2>6, <2>7, DoneIsSettled
<1>4. CASE Gone /\ Forwarded /\ ByService
  <2>1. /\ meta = plan /\ recorded = <<>> /\ Stamp(plan) \in {"live", "delegated"}
        /\ HeaderStamp(plan) = (IF Stamp(plan) = "live" THEN None ELSE "delegated")
    BY <1>4 DEF Forwarded, Planned, HeaderStamp
  <2>2. CASE Streamed
    <3>1. got' = answer /\ recorded' = <<Stamp(plan)>> /\ tee # None
      BY <2>1, <2>2, AppendFirst DEF Streamed
    <3>2. answer.by = "service" /\ answer.stamp = HeaderStamp(plan)
      BY <1>4, <3>1 DEF ByService
    <3> QED BY <1>1, <1>4, <3>1, <3>2, ServedIsSettled
  <2>3. CASE Completed
    <3>1. PICK by \in {Stamp(meta)} \cup {b \in {"overlay"} : Stamp(meta) = "live"} :
             /\ answer' = IF by = "live" THEN answer ELSE [answer EXCEPT !.stamp = by]
             /\ recorded' = Append(recorded, by)
             /\ got' = answer'
      BY <2>3 DEF Completed
    <3>2. answer \in [by : {"service"}, stamp : {None, HeaderStamp(plan)}] /\ recorded' = <<by>>
      BY <1>4, <2>1, <3>1, AppendFirst DEF ByService
    <3>3. CASE by = "live"
      <4>1. /\ recorded' = <<Stamp(plan)>> /\ got' = answer /\ answer.by = "service"
            /\ answer.stamp = HeaderStamp(plan)
        BY <2>1, <3>1, <3>2, <3>3
      <4> QED BY <1>1, <1>4, <4>1, ServedIsSettled
    <3>4. CASE by # "live"
      <4>1. /\ by \in {"overlay", "delegated"}
            /\ Stamp(plan) = (IF by = "overlay" THEN "live" ELSE "delegated")
        BY <2>1, <3>1, <3>4
      <4>2. got'.by = "service" /\ got'.stamp = by
        BY <3>1, <3>2, <3>4
      <4> QED BY <1>1, <1>4, <3>2, <4>1, <4>2, ServedIsSettled
    <3> QED BY <3>3, <3>4
  <2>4. CASE ResponseRaises
    <3>1. got' = answer /\ recorded' = <<>> /\ faults' > faults
      BY <1>1, <2>1, <2>4 DEF ResponseRaises, Fault
    <3> QED BY <1>1, <1>4, <3>1, ServedIsSettled
  <2> QED BY <2>2, <2>3, <2>4
<1> QED BY <1>2, <1>3, <1>4

\* A flow that never left and whose agent did ends as nobody's answer.
LEMMA LostIsSettled ==
    ASSUME TypeInv, at # "none", at' = "done", meta' = None,
           UNCHANGED <<req, dial, headers, sent, plan>>, sent = None, plan # None => plan \in Plans,
           faults' \in Nat, got' = NoAnswer,
           \/ recorded' = <<>> /\ (req.door = "control" \/ faults' > 0)
           \/ \E by \in {"irimi", "fake", "live", "delegated"} : recorded' = <<by>>
    PROVE  IInv'
<1>1. LeftOver'
  BY DEF LeftOver
<1>2. AnswersStamped'
  BY DEF AnswersStamped, NoAnswer
<1>3. RecordedAsAnswered'
  <2>1. CASE recorded' = <<>> /\ (req.door = "control" \/ faults' > 0)
    BY <2>1 DEF RecordedAsAnswered, Confirmed, NoAnswer
  <2>2. CASE \E by \in {"irimi", "fake", "live", "delegated"} : recorded' = <<by>>
    BY <2>2 DEF RecordedAsAnswered, FromTheNetwork, Confirmed, NoAnswer
  <2> QED BY <2>1, <2>2
<1> QED BY <1>1, <1>2, <1>3, DoneIsSettled

\* A flow that fails ends as failed.
LEMMA InvError ==
    ASSUME IInv, ErrorHook
    PROVE  IInv'
<1>1. /\ at = "error" /\ TypeInv /\ at' = "done" /\ faults \in Nat /\ meta' = None
      /\ UNCHANGED <<req, dial, headers, told, sent, plan>>
      /\ faults' \in Nat /\ faults' >= faults
  <2>1. TypeInv /\ faults \in Nat
    BY DEF IInv, TypeInv
  <2>2. UNCHANGED faults \/ faults' = faults + 1
    BY DEF ErrorHook, Fail, Fault
  <2>3. faults' \in Nat /\ faults' >= faults
    BY <2>1, <2>2
  <2> QED BY <2>1, <2>3 DEF ErrorHook, Fail, Pop, requestVars
<1>2. /\ plan # None => plan \in Plans
      /\ \/ sent = None /\ tee = None /\ (BySelf \/ ByControl \/ ByFake \/ Forwarded)
         \/ Gone /\ Forwarded /\ (tee # None => ByService)
  BY <1>1 DEF IInv, Failing
<1>3. /\ got' = (IF tee # None THEN answer ELSE NoAnswer)
      /\ \/ meta = None /\ recorded' = recorded
         \/ meta # None /\ recorded' = recorded /\ faults' = faults + 1
         \/ meta # None /\ recorded' = Append(recorded, Stamp(meta))
  BY DEF ErrorHook, Fail, Fault
<1>4. CASE sent = None /\ tee = None /\ (BySelf \/ ByControl)
  <2>1. recorded' = <<"irimi">> \/ (recorded' = <<>> /\ req.door = "control")
    BY <1>3, <1>4 DEF BySelf, ByControl
  <2> QED BY <1>1, <1>2, <1>3, <1>4, <2>1, LostIsSettled
<1>5. CASE sent = None /\ tee = None /\ (ByFake \/ Forwarded)
  <2>1. recorded = <<>> /\ meta = plan /\ plan # None
    BY <1>5, PlanFacts DEF ByFake, Forwarded, Planned
  <2>2. Stamp(plan) \in {"fake", "live", "delegated"}
    BY <1>5 DEF ByFake, Forwarded, Stamp
  <2>3. recorded' = <<Stamp(plan)>> \/ (recorded' = <<>> /\ faults' > 0)
    BY <1>1, <1>3, <2>1, AppendFirst
  <2> QED BY <1>1, <1>2, <1>3, <1>5, <2>2, <2>3, LostIsSettled
<1>6. CASE Gone /\ Forwarded /\ (tee # None => ByService)
  <2>1. recorded = <<>> /\ meta = plan /\ plan # None
    BY <1>6, PlanFacts DEF Forwarded, Planned, Gone
  <2>2. recorded' = <<Stamp(plan)>> \/ (recorded' = <<>> /\ faults' > faults)
    BY <1>1, <1>3, <2>1, AppendFirst
  <2>3. CASE tee # None
    <3>1. ByService /\ answer.by = "service" /\ answer.stamp = HeaderStamp(plan) /\ got' = answer
      BY <1>3, <1>6, <2>3 DEF ByService
    <3> QED BY <1>1, <1>6, <2>2, <3>1, ServedIsSettled
  <2>4. CASE tee = None
    BY <1>1, <1>3, <1>6, <2>2, <2>4, ServedIsSettled
  <2> QED BY <2>3, <2>4
<1> QED BY <1>2, <1>4, <1>5, <1>6

\* An error that comes late finds no plan, and changes nothing.
LEMMA LateIsNothing ==
    ASSUME IInv, LateError
    PROVE  UNCHANGED vars
<1>1. meta = None /\ meta' = None /\ at = "done" /\ at' = "done"
  BY DEF IInv, Finished, LateError, Fail, Pop
<1>2. UNCHANGED <<recorded, captured, faults, got, tee, passed>>
  BY <1>1 DEF LateError, Fail, Pop
<1>3. UNCHANGED <<engineVars, requestVars, answer, told, sent, plan>>
  BY DEF LateError, Fail
<1> QED BY <1>1, <1>2, <1>3 DEF vars, requestVars, answerVars, outVars

\* What an abandoned flow leaves behind is no more than an unabandoned one's.
LEMMA InvAbandon ==
    ASSUME IInv, Abandon
    PROVE  IInv'
<1>1. /\ at \notin {"none", "done", "dropped"} /\ at' = "dropped"
      /\ UNCHANGED <<requestVars, answerVars, outVars, faults>>
  BY DEF Abandon
<1>2. LeftOver
  <2>1. CASE at \in {"parse", "admit", "point", "strip", "plan", "carry"}
    BY <2>1 DEF IInv, InHook, Untouched, LeftOver
  <2>2. CASE at \in {"hooked", "returned"}
    BY <2>2
    DEF IInv, Decided, BySelf, ByControl, ByFake, Forwarded, Planned, LeftOver
  <2>3. CASE at \in {"sent", "body", "streaming"}
    BY <2>3 DEF IInv, Outside, Forwarded, Planned, LeftOver
  <2>5. CASE at = "error"
    <3>1. CASE sent = None
      BY <2>5, <3>1
      DEF IInv, Failing, BySelf, ByControl, ByFake, Forwarded, Planned, LeftOver
    <3>2. CASE sent # None
      BY <2>5, <3>2 DEF IInv, Failing, Forwarded, Planned, LeftOver
    <3> QED BY <3>1, <3>2
  <2>4. CASE at = "response"
    BY <2>4
    DEF IInv, Answering, BySelf, ByControl, ByFake, Forwarded, Planned, LeftOver
  <2> QED BY <1>1, <2>1, <2>2, <2>3, <2>4, <2>5 DEF IInv, TypeInv, Places
<1>3. LeftOver'
  BY <1>1, <1>2 DEF LeftOver, Gone, MayGo, Home, requestVars, outVars
<1>4. TypeInv'
  BY <1>1 DEF IInv, TypeInv, Places, requestVars
<1> QED
  BY <1>1, <1>3, <1>4
  DEF IInv, InHook, OnItsWay, Decided, Outside, Answering, Failing, Finished, Settled

\* Every step keeps the invariant.
LEMMA InvStep == IInv /\ [Next]_vars => IInv'
<1> SUFFICES ASSUME IInv, [Next]_vars PROVE IInv'
  OBVIOUS
<1>1. CASE Run \/ StartAndStop \/ LeaveUp \/ UNCHANGED vars
  <2>1. UNCHANGED flowVars
    BY <1>1
    DEF Run, StartAndStop, LeaveUp, MakeMaster, CheckStopped, Bind, EndServing, WaitReady,
        SetStopped, Shutdown, vars, flowVars
  <2> QED BY <2>1, InvStutter
<1>2. CASE Arrive \/ Irimi
  BY <1>2, InvRaise, InvHook, InvCarry, InvReturn, InvUnplanned, InvServed, InvError
  DEF Irimi, RequestHook, ResponseHook
<1>3. CASE Raises \/ Service
  <2>1. CASE LateError
    <3>1. UNCHANGED flowVars
      BY <2>1, LateIsNothing DEF vars, flowVars
    <3> QED BY <3>1, InvStutter
  <2>2. CASE ~LateError
    BY <1>3, <2>2, InvRaise, InvCarry, InvReturn, InvServed, InvService, InvLeft
    DEF Raises, Service
  <2> QED BY <2>1, <2>2
<1>4. CASE Abandon
  BY <1>4, InvAbandon
<1> QED BY <1>1, <1>2, <1>3, <1>4 DEF Next

-----------------------------------------------------------------------------
(* What the invariant is for. *)

\* The invariant says where a flow that left was to go.
LEMMA InvLeaves == IInv => OnlyPlannedLeaves
<1> SUFFICES ASSUME IInv, sent # None PROVE OnlyPlannedLeaves
  BY DEF OnlyPlannedLeaves
<1>1. Gone
  BY DEF IInv, TypeInv, Places, InHook, Decided, Outside, Answering, Failing, Finished, LeftOver
<1>2. plan # None
  BY <1>1, PlanFacts DEF Gone
<1> QED BY <1>1, <1>2 DEF Gone, MayGo, Home, OnlyPlannedLeaves

\* The invariant says what a flow is recorded as, at its end and before.
LEMMA InvTold == IInv => AnsweredAsTold
<1> SUFFICES ASSUME IInv PROVE AnsweredAsTold
  OBVIOUS
<1>1. CASE at = "done"
  BY <1>1 DEF IInv, Settled, AnsweredAsTold
<1>2. CASE at # "done"
  <2>1. AnswersStamped
    BY <1>2 DEF AnswersStamped
  <2>2. /\ recorded = <<>> \/ \E by : recorded = <<by>>
        /\ recorded # <<>> =>
              \/ (recorded[1] \in FromTheNetwork) = (sent # None)
              \/ recorded[1] \in FromTheNetwork /\ sent = None /\ got = NoAnswer
    <3>1. CASE at \in {"none", "parse", "admit", "point", "strip", "plan", "carry"}
      BY <3>1 DEF IInv, InHook, Untouched
    <3> USE DEF FromTheNetwork
    <3>2. CASE at \in {"hooked", "returned"}
      BY <3>2 DEF IInv, Decided, BySelf, ByControl, ByFake, Forwarded, Planned
    <3>3. CASE at \in {"sent", "body", "streaming"}
      BY <3>3 DEF IInv, Outside, Forwarded, Planned
    <3>6. CASE at = "error"
      BY <3>6 DEF IInv, Failing, BySelf, ByControl, ByFake, Forwarded, Planned, Gone
    <3>4. CASE at = "response"
      BY <3>4 DEF IInv, Answering, BySelf, ByControl, ByFake, Forwarded, Planned
    <3>5. CASE at = "dropped"
      BY <3>5 DEF IInv, Finished, LeftOver
    <3> QED BY <1>2, <3>1, <3>2, <3>3, <3>4, <3>5, <3>6 DEF IInv, TypeInv, Places
  <2>3. RecordedAsAnswered
    BY <1>2, <2>2 DEF RecordedAsAnswered
  <2> QED BY <2>1, <2>3 DEF AnsweredAsTold
<1> QED BY <1>1, <1>2

\* The invariant holds in every state of the proxy.
THEOREM FlowInvariant == Spec => []IInv
<1> QED BY InvInit, InvStep, PTL DEF Spec

\* Whatever step of whichever hook raises, however often: nothing leaves but a
\* request that was planned to leave, to where it was planned, without irimi's
\* header unless removing it raised, and without the credentials a target was
\* not to have (`IrimiAddon._request`, `_to_target`).
THEOREM LeavesAsPlanned == Spec => []OnlyPlannedLeaves
<1> QED BY FlowInvariant, InvLeaves, PTL

\* The trace and the agent are told the same of every flow, whatever raises: it
\* is recorded at most once, as what answered it or, where the agent left before
\* its request hook returned, would have, and every answer irimi or a target made
\* is stamped.
THEOREM TellsTheSame == Spec => []AnsweredAsTold
<1> QED BY FlowInvariant, InvTold, PTL

-----------------------------------------------------------------------------
(* Recursion over the numbers, without an operator as a parameter: a set that  *)
(* has 0 and is closed under the next number, and a function built by steps.   *)

\* A set of numbers with 0 and with the next of each has them all.
LEMMA Induction ==
    ASSUME NEW T, 0 \in T, \A n \in T \cap Nat : n + 1 \in T
    PROVE  Nat \subseteq T
<1> DEFINE S == Nat \ T
<1>1. SUFFICES ASSUME S # {} PROVE FALSE
  OBVIOUS
<1>2. PICK i \in S : \A j \in S : ~ (<<j, i>> \in OpToRel(<, Nat))
  <2> HIDE DEF S
  <2>1. S \subseteq Nat
    BY DEF S
  <2> QED BY <1>1, <2>1, NatLessThanWellFounded, WFMin
<1>3. i - 1 \in Nat /\ i - 1 < i
  OBVIOUS
<1>4. <<i - 1, i>> \in OpToRel(<, Nat)
  BY <1>3 DEF OpToRel
<1>5. i - 1 \notin S
  BY <1>2, <1>4, Zenon
<1>6. (i - 1) + 1 = i
  BY <1>3
<1> QED BY <1>3, <1>5, <1>6

\* f runs over the numbers to n from b, by the steps given.
Runs(f, S, n, b, step) ==
    f \in [0..n -> S] /\ f[0] = b /\ \A i \in 1..n : f[i] = step[i][f[i - 1]]

LEMMA Recursion ==
    ASSUME NEW S, NEW n, NEW b, NEW step,
           n \in Nat, b \in S, step \in [1..n -> [S -> S]]
    PROVE  \E f : Runs(f, S, n, b, step)
<1> DEFINE T == {m \in Nat : m <= n => \E f : Runs(f, S, m, b, step)}
<1>1. 0 \in T
  <2>1. Runs([i \in 0..0 |-> b], S, 0, b, step)
    BY DEF Runs
  <2> QED BY <2>1
<1>2. ASSUME NEW m \in T \cap Nat PROVE m + 1 \in T
  <2>0. m \in Nat /\ m + 1 \in Nat
    OBVIOUS
  <2> SUFFICES ASSUME m + 1 <= n PROVE \E f : Runs(f, S, m + 1, b, step)
    BY <2>0
  <2>1. PICK g : Runs(g, S, m, b, step)
    BY <2>0
  <2> DEFINE next == step[m + 1][g[m]]
  <2>2. next \in S
    BY <2>0, <2>1 DEF Runs
  <2> HIDE DEF next
  <2>3. PICK f : f = [i \in 0..(m + 1) |-> IF i = m + 1 THEN next ELSE g[i]]
    OBVIOUS
  <2>4. f \in [0..(m + 1) -> S] /\ f[0] = b
    BY <2>0, <2>1, <2>2, <2>3 DEF Runs
  <2>5. ASSUME NEW i \in 1..(m + 1) PROVE f[i] = step[i][f[i - 1]]
    <3>1. CASE i = m + 1
      <4>1. f[i] = next /\ f[i - 1] = g[m] /\ i - 1 = m
        BY <2>0, <2>3, <3>1
      <4> QED BY <3>1, <4>1 DEF next
    <3>2. CASE i # m + 1
      <4>1. i \in 1..m /\ f[i] = g[i] /\ f[i - 1] = g[i - 1]
        BY <2>0, <2>3, <3>2
      <4>2. g[i] = step[i][g[i - 1]]
        BY <2>1, <4>1 DEF Runs
      <4> QED BY <4>1, <4>2
    <3> QED BY <3>1, <3>2
  <2> QED BY <2>4, <2>5 DEF Runs
<1> HIDE DEF T
<1>3. n \in T
  BY <1>1, <1>2, Induction
<1> QED BY <1>3 DEF T

\* The steps of a sum and of a concatenation.
Adding(lens) == [i \in 1..Len(lens) |-> [a \in Nat |-> a + lens[i]]]
Joining(chunks, S) == [i \in 1..Len(chunks) |-> [a \in Seq(S) |-> a \o chunks[i]]]

\* SumOf is the last of the sums it defines.
LEMMA SumOfRuns ==
    ASSUME NEW lens \in Seq(Nat)
    PROVE  \E g : Runs(g, Nat, Len(lens), 0, Adding(lens)) /\ SumOf(lens) = g[Len(lens)]
<1> DEFINE upto[i \in 0..Len(lens)] == IF i = 0 THEN 0 ELSE upto[i - 1] + lens[i]
<1>0. Len(lens) \in Nat /\ Adding(lens) \in [1..Len(lens) -> [Nat -> Nat]] /\ 0 \in Nat
  BY DEF Adding
<1>1. PICK g : Runs(g, Nat, Len(lens), 0, Adding(lens))
  BY <1>0, Recursion
<1>2. ASSUME NEW i \in 1..Len(lens) PROVE g[i] = g[i - 1] + lens[i]
  <2>1. i - 1 \in 0..Len(lens)
    BY <1>0
  <2>2. g[i - 1] \in Nat
    BY <1>1, <2>1 DEF Runs
  <2>3. g[i] = Adding(lens)[i][g[i - 1]]
    BY <1>1 DEF Runs
  <2> QED BY <2>2, <2>3 DEF Adding
<1>3. g = [i \in 0..Len(lens) |-> IF i = 0 THEN 0 ELSE g[i - 1] + lens[i]]
  BY <1>0, <1>1, <1>2 DEF Runs
<1>4. upto = [i \in 0..Len(lens) |-> IF i = 0 THEN 0 ELSE upto[i - 1] + lens[i]]
  BY <1>3
<1>5. SumOf(lens) = upto[Len(lens)]
  BY DEF SumOf
<1> HIDE DEF upto
<1> DEFINE T == {m \in Nat : m <= Len(lens) => upto[m] = g[m]}
<1>6. Len(lens) \in T
  <2>1. 0 \in T
    BY <1>3, <1>4
  <2>2. ASSUME NEW m \in T \cap Nat PROVE m + 1 \in T
    BY <1>3, <1>4
  <2> HIDE DEF T
  <2> QED BY <2>1, <2>2, <1>0, Induction
<1> QED BY <1>0, <1>1, <1>5, <1>6

\* So is FlattenSeq of the concatenations it defines.
LEMMA FlattenRuns ==
    ASSUME NEW S, NEW chunks \in Seq(Seq(S))
    PROVE  \E g : /\ Runs(g, Seq(S), Len(chunks), <<>>, Joining(chunks, S))
                  /\ FlattenSeq(chunks) = g[Len(chunks)]
<1> DEFINE flatten[i \in 1..Len(chunks)] ==
             IF i = 1 THEN chunks[i] ELSE flatten[i - 1] \o chunks[i]
<1>0. /\ Len(chunks) \in Nat /\ <<>> \in Seq(S)
      /\ Joining(chunks, S) \in [1..Len(chunks) -> [Seq(S) -> Seq(S)]]
  BY DEF Joining
<1>1. PICK g : Runs(g, Seq(S), Len(chunks), <<>>, Joining(chunks, S))
  BY <1>0, Recursion
<1>2. ASSUME NEW i \in 1..Len(chunks) PROVE g[i] = g[i - 1] \o chunks[i]
  <2>1. i - 1 \in 0..Len(chunks)
    BY <1>0
  <2>2. g[i - 1] \in Seq(S)
    BY <1>1, <2>1 DEF Runs
  <2>3. g[i] = Joining(chunks, S)[i][g[i - 1]]
    BY <1>1 DEF Runs
  <2> QED BY <2>2, <2>3 DEF Joining
<1>3. g[0] = <<>>
  BY <1>1 DEF Runs
<1>4. CASE Len(chunks) = 0
  <2>1. chunks = <<>>
    BY <1>4
  <2> QED BY <1>1, <1>3, <1>4, <2>1 DEF FlattenSeq
<1>5. CASE Len(chunks) # 0
  <2> DEFINE h == [i \in 1..Len(chunks) |-> g[i]]
  <2>1. h = [i \in 1..Len(chunks) |-> IF i = 1 THEN chunks[i] ELSE h[i - 1] \o chunks[i]]
    <3>1. ASSUME NEW i \in 1..Len(chunks)
          PROVE  g[i] = IF i = 1 THEN chunks[i] ELSE h[i - 1] \o chunks[i]
      <4>1. CASE i = 1
        <5>1. i - 1 = 0
          BY <4>1
        <5>2. g[i] = <<>> \o chunks[i]
          BY <1>2, <1>3, <5>1
        <5> QED BY <4>1, <5>2
      <4>2. CASE i # 1
        <5>1. i - 1 \in 1..Len(chunks)
          BY <1>0, <4>2
        <5>2. h[i - 1] = g[i - 1]
          BY <5>1
        <5> HIDE DEF h
        <5> QED BY <1>2, <4>2, <5>2
      <4> QED BY <4>1, <4>2
    <3> HIDE DEF h
    <3>2. \A i \in 1..Len(chunks) : g[i] = IF i = 1 THEN chunks[i] ELSE h[i - 1] \o chunks[i]
      BY <3>1
    <3>3. h = [i \in 1..Len(chunks) |-> g[i]]
      BY DEF h
    <3> QED BY <3>2, <3>3
  <2>2. flatten = [i \in 1..Len(chunks) |->
                     IF i = 1 THEN chunks[i] ELSE flatten[i - 1] \o chunks[i]]
    BY <2>1
  <2>3. FlattenSeq(chunks) = flatten[Len(chunks)]
    BY <1>5 DEF FlattenSeq
  <2> HIDE DEF flatten, h
  <2> DEFINE T == {m \in Nat : m + 1 <= Len(chunks) => flatten[m + 1] = g[m + 1]}
  <2>4. Len(chunks) - 1 \in T
    <3>1. 0 \in T
      <4>1. 1 \in 1..Len(chunks) /\ 0 + 1 = 1 /\ 1 - 1 = 0
        BY <1>0, <1>5
      <4>2. flatten[1] = chunks[1]
        BY <2>2, <4>1
      <4>3. g[1] = <<>> \o chunks[1]
        BY <1>2, <1>3, <4>1
      <4>4. <<>> \o chunks[1] = chunks[1]
        BY <4>1
      <4> QED BY <4>1, <4>2, <4>3, <4>4
    <3>2. ASSUME NEW m \in T \cap Nat PROVE m + 1 \in T
      <4>1. m + 1 \in Nat
        OBVIOUS
      <4>2. SUFFICES ASSUME (m + 1) + 1 <= Len(chunks)
                     PROVE  flatten[(m + 1) + 1] = g[(m + 1) + 1]
        BY <4>1
      <4>3. (m + 1) + 1 \in 1..Len(chunks) /\ ((m + 1) + 1) - 1 = m + 1 /\ (m + 1) + 1 # 1
        BY <1>0, <4>2
      <4>4. flatten[m + 1] = g[m + 1]
        BY <4>2, <1>0
      <4>5. flatten[(m + 1) + 1] = flatten[m + 1] \o chunks[(m + 1) + 1]
        BY <2>2, <4>3
      <4>6. g[(m + 1) + 1] = g[m + 1] \o chunks[(m + 1) + 1]
        BY <1>2, <4>3
      <4> QED BY <4>4, <4>5, <4>6
    <3> HIDE DEF T
    <3>3. Len(chunks) - 1 \in Nat
      BY <1>0, <1>5
    <3> QED BY <3>1, <3>2, <3>3, Induction
  <2>5. flatten[Len(chunks)] = g[Len(chunks)]
    BY <2>4, <1>0, <1>5
  <2> QED BY <1>1, <2>3, <2>5
<1> QED BY <1>4, <1>5

\* Two runs whose steps agree up to m agree there.
LEMMA RunsAgree ==
    ASSUME NEW S, NEW b, NEW n \in Nat, NEW m \in Nat, NEW f, NEW g, NEW step, NEW other,
           Runs(f, S, n, b, step), Runs(g, S, m, b, other),
           m <= n, \A i \in 1..m : step[i] = other[i]
    PROVE  f[m] = g[m]
<1> DEFINE T == {i \in Nat : i <= m => f[i] = g[i]}
<1>1. 0 \in T
  BY DEF Runs
<1>2. ASSUME NEW i \in T \cap Nat PROVE i + 1 \in T
  <2>1. i + 1 \in Nat
    OBVIOUS
  <2>2. SUFFICES ASSUME i + 1 <= m PROVE f[i + 1] = g[i + 1]
    BY <2>1
  <2>3. f[i] = g[i] /\ i + 1 \in 1..m /\ i + 1 \in 1..n /\ (i + 1) - 1 = i
    BY <2>2
  <2>4. f[i + 1] = step[i + 1][f[i]] /\ g[i + 1] = other[i + 1][g[i]]
    BY <2>3 DEF Runs
  <2> QED BY <2>3, <2>4
<1> HIDE DEF T
<1>3. m \in T
  BY <1>1, <1>2, Induction
<1> QED BY <1>3 DEF T

\* A sum of numbers is one, and of none it is 0.
LEMMA SumOfNat == SumOf(<<>>) = 0 /\ \A lens \in Seq(Nat) : SumOf(lens) \in Nat
<1>1. ASSUME NEW lens \in Seq(Nat) PROVE SumOf(lens) \in Nat
  <2>1. Len(lens) \in 0..Len(lens)
    OBVIOUS
  <2> QED BY <2>1, SumOfRuns DEF Runs
<1>2. SumOf(<<>>) = 0
  <2>1. <<>> \in Seq(Nat) /\ Len(<<>>) = 0
    OBVIOUS
  <2>2. PICK g : Runs(g, Nat, 0, 0, Adding(<<>>)) /\ SumOf(<<>>) = g[0]
    BY <2>1, SumOfRuns
  <2> QED BY <2>2 DEF Runs
<1> QED BY <1>1, <1>2

\* One more number adds to the sum.
LEMMA SumOfAppend ==
    ASSUME NEW lens \in Seq(Nat), NEW x \in Nat
    PROVE  SumOf(Append(lens, x)) = SumOf(lens) + x
<1> DEFINE more == Append(lens, x)
           n == Len(lens)
<1>1. /\ more \in Seq(Nat) /\ Len(more) = n + 1 /\ n \in Nat /\ more[n + 1] = x
      /\ \A i \in 1..n : more[i] = lens[i]
  OBVIOUS
<1> HIDE DEF more
<1>2. PICK f : Runs(f, Nat, n + 1, 0, Adding(more)) /\ SumOf(more) = f[n + 1]
  BY <1>1, SumOfRuns
<1>3. PICK g : Runs(g, Nat, n, 0, Adding(lens)) /\ SumOf(lens) = g[n]
  BY SumOfRuns
<1>4. ASSUME NEW i \in 1..n PROVE Adding(more)[i] = Adding(lens)[i]
  <2>1. i \in 1..(n + 1) /\ more[i] = lens[i]
    BY <1>1
  <2>2. Adding(more)[i] = [a \in Nat |-> a + more[i]]
    BY <1>1, <2>1 DEF Adding
  <2>3. Adding(lens)[i] = [a \in Nat |-> a + lens[i]]
    BY DEF Adding
  <2> HIDE DEF n
  <2> QED BY <2>1, <2>2, <2>3
<1>5. f[n] = g[n]
  <2>1. n + 1 \in Nat /\ n <= n + 1
    BY <1>1
  <2> HIDE DEF n
  <2> QED BY <1>1, <1>2, <1>3, <1>4, <2>1, RunsAgree
<1>6. f[n + 1] = f[n] + x
  <2>1. n + 1 \in 1..(n + 1) /\ (n + 1) - 1 = n /\ n \in 0..(n + 1)
    BY <1>1
  <2>2. f[n] \in Nat /\ f[n + 1] = Adding(more)[n + 1][f[n]]
    BY <1>2, <2>1 DEF Runs
  <2> QED BY <1>1, <2>1, <2>2 DEF Adding
<1> QED BY <1>2, <1>3, <1>5, <1>6 DEF more

\* A concatenation of sequences is one, and of none it is empty.
LEMMA FlattenSeqs ==
    ASSUME NEW S
    PROVE  FlattenSeq(<<>>) = <<>> /\ \A chunks \in Seq(Seq(S)) : FlattenSeq(chunks) \in Seq(S)
<1>1. ASSUME NEW chunks \in Seq(Seq(S)) PROVE FlattenSeq(chunks) \in Seq(S)
  <2>1. Len(chunks) \in 0..Len(chunks)
    OBVIOUS
  <2> QED BY <2>1, FlattenRuns DEF Runs
<1>2. FlattenSeq(<<>>) = <<>>
  BY DEF FlattenSeq
<1> QED BY <1>1, <1>2

\* One more chunk goes to the end.
LEMMA FlattenAppend ==
    ASSUME NEW S, NEW chunks \in Seq(Seq(S)), NEW c \in Seq(S)
    PROVE  FlattenSeq(Append(chunks, c)) = FlattenSeq(chunks) \o c
<1> DEFINE more == Append(chunks, c)
           n == Len(chunks)
<1>1. /\ more \in Seq(Seq(S)) /\ Len(more) = n + 1 /\ n \in Nat /\ more[n + 1] = c
      /\ \A i \in 1..n : more[i] = chunks[i]
  OBVIOUS
<1> HIDE DEF more
<1>2. PICK f : Runs(f, Seq(S), n + 1, <<>>, Joining(more, S)) /\ FlattenSeq(more) = f[n + 1]
  BY <1>1, FlattenRuns
<1>3. PICK g : Runs(g, Seq(S), n, <<>>, Joining(chunks, S)) /\ FlattenSeq(chunks) = g[n]
  BY FlattenRuns
<1>4. ASSUME NEW i \in 1..n PROVE Joining(more, S)[i] = Joining(chunks, S)[i]
  <2>1. i \in 1..(n + 1) /\ more[i] = chunks[i]
    BY <1>1
  <2>2. Joining(more, S)[i] = [a \in Seq(S) |-> a \o more[i]]
    BY <1>1, <2>1 DEF Joining
  <2>3. Joining(chunks, S)[i] = [a \in Seq(S) |-> a \o chunks[i]]
    BY DEF Joining
  <2> HIDE DEF n
  <2> QED BY <2>1, <2>2, <2>3
<1>5. f[n] = g[n]
  <2>1. n + 1 \in Nat /\ n <= n + 1
    BY <1>1
  <2> HIDE DEF n
  <2> QED BY <1>1, <1>2, <1>3, <1>4, <2>1, RunsAgree
<1>6. f[n + 1] = f[n] \o c
  <2>1. n + 1 \in 1..(n + 1) /\ (n + 1) - 1 = n /\ n \in 0..(n + 1)
    BY <1>1
  <2>2. f[n] \in Seq(S) /\ f[n + 1] = Joining(more, S)[n + 1][f[n]]
    BY <1>2, <2>1 DEF Runs
  <2> QED BY <1>1, <2>1, <2>2 DEF Joining
<1> QED BY <1>2, <1>3, <1>5, <1>6 DEF more

-----------------------------------------------------------------------------
(* What the tee keeps, and what is recorded of it. *)

Bytes == {"x", "nl"}

\* A sequence is the start of another, index by index.
Starts(s, t) == Len(s) <= Len(t) /\ \A i \in 1..Len(s) : s[i] = t[i]

\* What the tee holds of what has passed.
Kept(t, through) ==
    /\ t \in [chunks : Seq(Seq(Bytes)), truncated : BOOLEAN]
    /\ through \in Seq(Seq(Bytes))
    /\ Total(t.chunks) = Len(FlattenSeq(t.chunks)) /\ Total(t.chunks) <= Cap
    /\ Starts(FlattenSeq(t.chunks), FlattenSeq(through))
    /\ t.truncated \/ FlattenSeq(t.chunks) = FlattenSeq(through)

\* The library's prefixes are the starts.
LEMMA PrefixMeans ==
    ASSUME NEW S, NEW s \in Seq(S), NEW t \in Seq(S)
    PROVE  IsPrefix(s, t) <=> Starts(s, t)
<1>1. Len(s) \in Nat /\ Len(t) \in Nat
  OBVIOUS
<1>2. ASSUME Starts(s, t) PROVE IsPrefix(s, t)
  <2>1. SubSeq(s, 1, Len(s)) = SubSeq(t, 1, Len(s))
    BY <1>1, <1>2 DEF Starts
  <2> QED BY <1>2, <2>1 DEF Starts, IsPrefix
<1>3. ASSUME IsPrefix(s, t) PROVE Starts(s, t)
  <2>1. Len(s) <= Len(t) /\ SubSeq(s, 1, Len(s)) = SubSeq(t, 1, Len(s))
    BY <1>3 DEF IsPrefix
  <2>2. ASSUME NEW i \in 1..Len(s) PROVE s[i] = t[i]
    <3>1. s[i] = SubSeq(s, 1, Len(s))[i] /\ t[i] = SubSeq(t, 1, Len(s))[i]
      BY <1>1, <2>1
    <3> QED BY <2>1, <3>1
  <2> QED BY <2>1, <2>2 DEF Starts
<1> QED BY <1>2, <1>3

\* A start cut short is one, and what comes after does not change it.
LEMMA StartsFacts ==
    ASSUME NEW S, NEW s \in Seq(S), NEW t \in Seq(S), Starts(s, t)
    PROVE  /\ \A n \in Nat : Upto(s, n) \in Seq(S) /\ Starts(Upto(s, n), t)
           /\ \A c \in Seq(S) : Starts(s, t \o c)
           /\ s = t => \A c \in Seq(S), n \in Nat : Starts(s \o Upto(c, n), t \o c)
<1>1. \A n \in Nat : Upto(s, n) \in Seq(S) /\ Starts(Upto(s, n), t)
  BY DEF Upto, Starts
<1>2. \A c \in Seq(S) : Starts(s, t \o c)
  BY DEF Starts
<1>3. ASSUME s = t, NEW c \in Seq(S), NEW n \in Nat PROVE Starts(s \o Upto(c, n), t \o c)
  <2>1. PICK k : k = Upto(c, n)
    OBVIOUS
  <2>2. k \in Seq(S) /\ Len(k) <= Len(c) /\ \A i \in 1..Len(k) : k[i] = c[i]
    BY <2>1 DEF Upto
  <2>3. Starts(s \o k, t \o c)
    BY <1>3, <2>2 DEF Starts
  <2> QED BY <2>1, <2>3
<1> QED BY <1>1, <1>2, <1>3

\* The bytes of the chunks, one chunk at a time.
LEMMA TotalFacts ==
    /\ Total(<<>>) = 0
    /\ \A chunks \in Seq(Seq(Bytes)) : Lengths(chunks) \in Seq(Nat) /\ Total(chunks) \in Nat
    /\ \A chunks \in Seq(Seq(Bytes)), c \in Seq(Bytes) :
          Total(Append(chunks, c)) = Total(chunks) + Len(c)
<1>1. Lengths(<<>>) = <<>>
  BY DEF Lengths
<1>2. ASSUME NEW chunks \in Seq(Seq(Bytes)) PROVE Lengths(chunks) \in Seq(Nat)
  BY DEF Lengths
<1>3. ASSUME NEW chunks \in Seq(Seq(Bytes)), NEW c \in Seq(Bytes)
      PROVE  Lengths(Append(chunks, c)) = Append(Lengths(chunks), Len(c))
  BY DEF Lengths
<1>4. ASSUME NEW chunks \in Seq(Seq(Bytes)), NEW c \in Seq(Bytes)
      PROVE  Total(Append(chunks, c)) = Total(chunks) + Len(c)
  <2>1. Len(c) \in Nat
    OBVIOUS
  <2> QED BY <1>2, <1>3, <2>1, SumOfAppend DEF Total
<1> QED BY <1>1, <1>2, <1>4, SumOfNat DEF Total

\* A chunk that passes the tee leaves a start of what has passed.
LEMMA CaptureKeeps ==
    ASSUME NEW t, NEW through, NEW c \in Seq(Bytes), Kept(t, through)
    PROVE  Kept(Capture(t, c), Append(through, c))
<1> DEFINE body == FlattenSeq(t.chunks)
           all == FlattenSeq(through)
<1>1. /\ t.chunks \in Seq(Seq(Bytes)) /\ t.truncated \in BOOLEAN
      /\ through \in Seq(Seq(Bytes)) /\ body \in Seq(Bytes) /\ all \in Seq(Bytes)
      /\ Append(through, c) \in Seq(Seq(Bytes))
      /\ FlattenSeq(Append(through, c)) = all \o c
  BY FlattenSeqs, FlattenAppend DEF Kept
<1>2. CASE t.truncated \/ c = <<>>
  <2>1. Capture(t, c) = t
    BY <1>2 DEF Capture
  <2>2. c = <<>> => all \o c = all
    BY <1>1
  <2>3. Starts(body, all \o c)
    BY <1>1, StartsFacts DEF Kept
  <2> QED BY <1>1, <1>2, <2>1, <2>2, <2>3 DEF Kept
<1>3. CASE ~ (t.truncated \/ c = <<>>)
  <2>1. PICK room : room = Cap - Total(t.chunks)
    OBVIOUS
  <2>2. room \in Nat /\ Len(c) \in Nat
    BY <2>1, TotalFacts, FlowAssumption DEF Kept
  <2>3. PICK k : k = Upto(c, room)
    OBVIOUS
  <2>4. k \in Seq(Bytes) /\ Len(k) <= room /\ (Len(c) <= room => k = c)
    BY <2>2, <2>3 DEF Upto
  <2>5. body = all
    BY <1>3 DEF Kept
  <2>6. Starts(body \o k, all \o c)
    <3>1. Starts(body, all)
      BY DEF Kept
    <3> HIDE DEF body, all
    <3> QED BY <1>1, <2>2, <2>3, <2>5, <3>1, StartsFacts
  <2>7. PICK u : u = Capture(t, c)
    OBVIOUS
  <2>8. u = [chunks    |-> IF k = <<>> THEN t.chunks ELSE Append(t.chunks, k),
             truncated |-> Len(c) > room]
    BY <1>3, <2>1, <2>3, <2>7 DEF Capture
  <2>14. /\ u.truncated = (Len(c) > room)
         /\ u.chunks = IF k = <<>> THEN t.chunks ELSE Append(t.chunks, k)
    BY <2>8
  <2>15. u \in [chunks : Seq(Seq(Bytes)), truncated : BOOLEAN]
    BY <1>1, <2>4, <2>8
  <2>9. /\ u \in [chunks : Seq(Seq(Bytes)), truncated : BOOLEAN]
        /\ FlattenSeq(u.chunks) = body \o k
        /\ Total(u.chunks) = Total(t.chunks) + Len(k)
    <3>1. CASE k = <<>>
      <4>1. body \o k = body /\ Len(k) = 0 /\ u.chunks = t.chunks
        BY <1>1, <2>4, <2>14, <3>1
      <4> QED BY <1>1, <2>15, <4>1, TotalFacts
    <3>2. CASE k # <<>>
      <4>1. u.chunks = Append(t.chunks, k)
        BY <2>14, <3>2
      <4>2. FlattenSeq(u.chunks) = body \o k
        BY <1>1, <2>4, <4>1, FlattenAppend
      <4> QED BY <1>1, <2>4, <2>15, <4>1, <4>2, TotalFacts
    <3> QED BY <3>1, <3>2
  <2>10. Total(t.chunks) = Len(body) /\ Total(t.chunks) \in Nat /\ Total(t.chunks) <= Cap
    BY <1>1, TotalFacts DEF Kept
  <2>11. Len(body \o k) = Len(body) + Len(k)
    BY <1>1, <2>4
  <2>12. u.truncated \/ body \o k = all \o c
    <3>1. CASE Len(c) > room
      BY <2>14, <3>1
    <3>2. CASE Len(c) <= room
      BY <2>4, <2>5, <3>2
    <3> QED BY <2>2, <3>1, <3>2
  <2>13. Total(u.chunks) <= Cap
    BY <2>1, <2>2, <2>4, <2>9, <2>10, FlowAssumption
  <2> QED BY <1>1, <2>6, <2>7, <2>9, <2>10, <2>11, <2>12, <2>13 DEF Kept
<1> QED BY <1>2, <1>3

\* A chunk that is not captured marks the capture as cut.
LEMMA MissedKeeps ==
    ASSUME NEW t, NEW through, NEW c \in Seq(Bytes), Kept(t, through)
    PROVE  Kept([t EXCEPT !.truncated = TRUE], Append(through, c))
<1>1. /\ t.chunks \in Seq(Seq(Bytes)) /\ through \in Seq(Seq(Bytes))
      /\ FlattenSeq(t.chunks) \in Seq(Bytes) /\ FlattenSeq(through) \in Seq(Bytes)
      /\ Append(through, c) \in Seq(Seq(Bytes))
      /\ FlattenSeq(Append(through, c)) = FlattenSeq(through) \o c
  BY FlattenSeqs, FlattenAppend DEF Kept
<1>2. PICK u : u = [t EXCEPT !.truncated = TRUE]
  OBVIOUS
<1>3. /\ u \in [chunks : Seq(Seq(Bytes)), truncated : BOOLEAN]
      /\ u.chunks = t.chunks /\ u.truncated
  BY <1>2 DEF Kept
<1>4. Starts(FlattenSeq(t.chunks), FlattenSeq(through) \o c)
  BY <1>1, StartsFacts DEF Kept
<1>5. Kept(u, Append(through, c))
  BY <1>1, <1>3, <1>4 DEF Kept
<1> QED BY <1>2, <1>5

\* A bounded set of numbers that is not empty has a greatest one.
LEMMA GreatestExists ==
    ASSUME NEW S, S \subseteq Nat, S # {}, NEW n \in Nat, \A i \in S : i <= n
    PROVE  \E e \in S : \A j \in S : j <= e
<1> DEFINE Bounds == {k \in Nat : \A j \in S : j <= k}
<1>1. Bounds \subseteq Nat /\ Bounds # {}
  OBVIOUS
<1>2. PICK e \in Bounds : \A k \in Bounds : ~ (<<k, e>> \in OpToRel(<, Nat))
  BY <1>1, NatLessThanWellFounded, WFMin
<1>3. ASSUME NEW k \in Bounds, k < e PROVE FALSE
  <2>1. <<k, e>> \in OpToRel(<, Nat)
    BY <1>3 DEF OpToRel
  <2> QED BY <1>2, <2>1
<1>4. e \in S
  <2> SUFFICES ASSUME e \notin S PROVE FALSE
    OBVIOUS
  <2>1. e \in Nat /\ \A j \in S : j \in Nat /\ j <= e /\ j # e
    OBVIOUS
  <2>2. PICK j \in S : j \in Nat /\ j <= e /\ j # e
    BY <2>1
  <2>3. e - 1 \in Nat /\ e - 1 < e
    BY <2>1, <2>2
  <2>4. \A m \in Nat : m <= e /\ m # e => m <= e - 1
    BY <2>1
  <2>5. \A m \in S : m <= e - 1
    BY <2>1, <2>4
  <2> QED BY <1>3, <2>3, <2>5
<1> QED BY <1>4

\* The sums of the first lengths.
LEMMA SumsUpto ==
    ASSUME NEW lens \in Seq(Nat)
    PROVE  /\ SumOf(SubSeq(lens, 1, 0)) = 0 /\ SubSeq(lens, 1, Len(lens)) = lens
           /\ \A n \in 0..Len(lens) : SumOf(SubSeq(lens, 1, n)) \in Nat
           /\ \A n \in 1..Len(lens) :
                 SumOf(SubSeq(lens, 1, n)) = SumOf(SubSeq(lens, 1, n - 1)) + lens[n]
<1>1. SubSeq(lens, 1, 0) = <<>> /\ SubSeq(lens, 1, Len(lens)) = lens
  OBVIOUS
<1>2. \A n \in 0..Len(lens) : SubSeq(lens, 1, n) \in Seq(Nat)
  OBVIOUS
<1>3. ASSUME NEW n \in 1..Len(lens)
      PROVE  SumOf(SubSeq(lens, 1, n)) = SumOf(SubSeq(lens, 1, n - 1)) + lens[n]
  <2>1. SubSeq(lens, 1, n - 1) \in Seq(Nat) /\ lens[n] \in Nat
    OBVIOUS
  <2>2. SubSeq(lens, 1, n) = Append(SubSeq(lens, 1, n - 1), lens[n])
    OBVIOUS
  <2> QED BY <2>1, <2>2, SumOfAppend
<1> QED BY <1>1, <1>2, <1>3, SumOfNat

\* Clipped to a size they cover, the lengths add up to it.
LEMMA ClipCovers ==
    ASSUME NEW lens \in Seq(Nat), NEW size \in Nat, size <= SumOf(lens)
    PROVE  SumOf(ClipChunks(lens, size)) = size
<1> DEFINE n == Len(lens)
           P(i) == SumOf(SubSeq(lens, 1, i))
           kept == {i \in 1..n : P(i - 1) < size}
           clip == [i \in 1..Cardinality(kept) |->
                      IF lens[i] < size - P(i - 1) THEN lens[i] ELSE size - P(i - 1)]
<1>1. ClipChunks(lens, size) = clip
  BY DEF ClipChunks
<1>2. /\ n \in Nat /\ P(0) = 0 /\ P(n) >= size /\ \A i \in 0..n : P(i) \in Nat
      /\ \A i \in 1..n : P(i) = P(i - 1) + lens[i] /\ lens[i] \in Nat
  <2>1. P(0) = 0 /\ P(n) = SumOf(lens)
    BY SumsUpto
  <2>2. \A i \in 0..n : P(i) \in Nat
    BY SumsUpto
  <2>3. \A i \in 1..n : P(i) = P(i - 1) + lens[i]
    BY SumsUpto
  <2> HIDE DEF P
  <2> QED BY <2>1, <2>2, <2>3
<1> HIDE DEF P
<1>3. CASE kept = {}
  <2>1. size = 0
    <3>1. CASE n = 0
      BY <1>2, <3>1
    <3>2. CASE n # 0
      <4>1. 1 \in 1..n /\ 1 - 1 = 0
        BY <1>2, <3>2
      <4>2. ~ (P(0) < size)
        BY <1>3, <4>1
      <4> QED BY <1>2, <4>2
    <3> QED BY <3>1, <3>2
  <2>2. Cardinality(kept) = 0
    BY <1>3, FS_EmptySet
  <2>3. clip = <<>>
    <3> HIDE DEF kept
    <3> QED BY <2>2
  <2> HIDE DEF clip
  <2> QED BY <1>1, <2>1, <2>3, SumOfNat
<1>4. CASE kept # {}
  <2>1. kept \subseteq Nat /\ \A i \in kept : i <= n
    BY <1>2
  <2>2. PICK e \in kept : \A i \in kept : i <= e
    <3> HIDE DEF kept
    <3>1. n \in Nat
      BY <1>2
    <3> HIDE DEF n
    <3> QED BY <1>4, <2>1, <3>1, GreatestExists
  <2>3. e \in 1..n /\ P(e - 1) < size /\ e \in Nat /\ e - 1 \in 0..n
    BY <1>2
  <2>4. ASSUME NEW d \in 0..(e - 1) PROVE e - d \in kept
    <3> DEFINE T == {m \in Nat : m < e => e - m \in kept}
    <3>1. 0 \in T
      BY <2>2, <2>3
    <3>2. ASSUME NEW m \in T \cap Nat PROVE m + 1 \in T
      <4>1. m + 1 \in Nat
        OBVIOUS
      <4>2. SUFFICES ASSUME m + 1 < e PROVE e - (m + 1) \in kept
        BY <4>1
      <4>3. PICK i : i = e - m
        OBVIOUS
      <4>4. i \in kept /\ i \in 2..n /\ i - 1 = e - (m + 1) /\ i - 1 \in 1..n
        BY <4>2, <4>3, <2>3
      <4>5. P(i - 1) = P((i - 1) - 1) + lens[i - 1] /\ P(i - 1) < size
        BY <1>2, <4>4
      <4>6. P((i - 1) - 1) < size
        <5>1. (i - 1) - 1 \in 0..n /\ i - 1 \in 0..n
          BY <1>2, <4>4
        <5>2. P((i - 1) - 1) \in Nat /\ P(i - 1) \in Nat /\ lens[i - 1] \in Nat
          BY <1>2, <4>4, <5>1
        <5> HIDE DEF kept
        <5> QED BY <4>5, <5>2
      <4> QED BY <4>4, <4>6
    <3> HIDE DEF T
    <3>3. d \in T
      BY <3>1, <3>2, <2>3, Induction
    <3> QED BY <3>3, <2>3 DEF T
  <2>5. kept = 1..e
    <3>1. ASSUME NEW i \in 1..e PROVE i \in kept
      <4>1. e - i \in 0..(e - 1) /\ e - (e - i) = i
        BY <2>3
      <4> HIDE DEF kept
      <4> QED BY <2>4, <4>1
    <3> QED BY <2>1, <2>2, <2>3, <3>1
  <2>6. Cardinality(kept) = e
    <3>1. Cardinality(1..e) = e
      BY <2>3, FS_Interval
    <3> HIDE DEF kept
    <3> QED BY <2>5, <3>1
  <2>7. ASSUME NEW i \in 1..(e - 1) PROVE lens[i] < size - P(i - 1)
    <3>1. i + 1 \in kept /\ i \in 1..n /\ (i + 1) - 1 = i
      <4>1. i + 1 \in 1..e /\ i \in 1..n /\ (i + 1) - 1 = i
        BY <1>2, <2>3
      <4> HIDE DEF kept
      <4> QED BY <2>5, <4>1
    <3>2. P(i) < size /\ P(i) = P(i - 1) + lens[i] /\ P(i - 1) \in Nat /\ P(i) \in Nat
      BY <1>2, <3>1
    <3> HIDE DEF kept
    <3> QED BY <1>2, <3>1, <3>2
  <2>8. PICK l : l = IF lens[e] < size - P(e - 1) THEN lens[e] ELSE size - P(e - 1)
    OBVIOUS
  <2>9. P(e) >= size
    <3>1. CASE e = n
      BY <1>2, <3>1
    <3>2. CASE e # n
      <4>1. e + 1 \in 1..n /\ e + 1 \notin kept /\ (e + 1) - 1 = e
        <5>1. e + 1 \in 1..n /\ ~ (e + 1 <= e) /\ (e + 1) - 1 = e
          BY <1>2, <2>3, <3>2
        <5> HIDE DEF kept
        <5> QED BY <2>2, <5>1
      <4>2. P(e) \in Nat
        BY <1>2, <2>3
      <4> QED BY <4>1, <4>2
    <3> QED BY <3>1, <3>2
  <2>10. l \in Nat /\ P(e - 1) + l = size
    <3>1. P(e) = P(e - 1) + lens[e] /\ P(e - 1) \in Nat /\ lens[e] \in Nat
      BY <1>2, <2>3
    <3> HIDE DEF kept
    <3> QED BY <2>3, <2>8, <2>9, <3>1
  <2>11. PICK c : c = clip
    OBVIOUS
  <2>12. c = [i \in 1..e |-> IF lens[i] < size - P(i - 1) THEN lens[i] ELSE size - P(i - 1)]
    <3> HIDE DEF kept
    <3> QED BY <2>6, <2>11
  <2>13. c = Append(SubSeq(lens, 1, e - 1), l)
    <3>1. PICK s : s = SubSeq(lens, 1, e - 1)
      OBVIOUS
    <3>2. s \in Seq(Nat) /\ Len(s) = e - 1 /\ \A i \in 1..(e - 1) : s[i] = lens[i]
      BY <2>3, <3>1
    <3>3. \A i \in 1..(e - 1) : c[i] = s[i]
      BY <2>3, <2>7, <2>12, <3>2
    <3>4. c[e] = l
      BY <2>3, <2>8, <2>12
    <3>5. c \in Seq(Nat) /\ Len(c) = e
      <4>1. \A i \in 1..e : c[i] \in Nat
        <5>1. ASSUME NEW i \in 1..e PROVE c[i] \in Nat
          <6>1. CASE i = e
            BY <6>1, <3>4, <2>10
          <6>2. CASE i # e
            <7>1. i \in 1..(e - 1) /\ i \in 1..Len(s)
              BY <6>2, <2>3, <3>2
            <7>2. s[i] \in Nat
              BY ONLY <7>1, <3>2
            <7> HIDE DEF clip, kept
            <7> QED BY <7>1, <7>2, <3>3
          <6> QED BY <6>1, <6>2
        <5> QED BY <5>1
      <4>2. DOMAIN c = 1..e /\ c = [i \in 1..e |-> c[i]]
        BY <2>12
      <4> QED BY <4>1, <4>2, <2>3
    <3> HIDE DEF clip, kept
    <3>6. c = Append(s, l)
      <4>1. PICK a : a = Append(s, l)
        OBVIOUS
      <4>2. a \in Seq(Nat) /\ Len(a) = e /\ a[e] = l /\ \A i \in 1..(e - 1) : a[i] = s[i]
        BY <2>3, <2>10, <3>2, <4>1
      <4>3. \A i \in 1..e : a[i] = c[i]
        BY <2>3, <3>3, <3>4, <4>2
      <4>4. a = c
        BY <3>5, <4>2, <4>3, SeqEqual
      <4> QED BY <4>1, <4>4
    <3> QED BY <3>1, <3>6
  <2>14. SubSeq(lens, 1, e - 1) \in Seq(Nat)
    BY <2>3
  <2>15. SumOf(c) = P(e - 1) + l
    <3> HIDE DEF clip, kept
    <3> QED BY <2>10, <2>13, <2>14, SumOfAppend DEF P
  <2> HIDE DEF clip, kept
  <2> QED BY <1>1, <2>10, <2>11, <2>15
<1> QED BY <1>3, <1>4

\* Complete lines are the start of the body, and complete themselves.
LEMMA LinesFacts ==
    ASSUME NEW body \in Seq(Bytes)
    PROVE  /\ CompleteLines(body) \in Seq(Bytes) /\ Starts(CompleteLines(body), body)
           /\ CompleteLines(CompleteLines(body)) = CompleteLines(body)
<1> DEFINE Ends(b) == {i \in 1..Len(b) : b[i] = "nl"}
           Latest(S) == IF S = {} THEN 0 ELSE CHOOSE i \in S : \A j \in S : j <= i
<1>1. \A b : CompleteLines(b) = Upto(b, Latest(Ends(b)))
  BY DEF CompleteLines
<1>2. PICK e : e = Latest(Ends(body))
  OBVIOUS
<1>3. e \in 0..Len(body) /\ \A j \in Ends(body) : j <= e
  <2>1. CASE Ends(body) = {}
    <3>1. e = 0
      BY <1>2, <2>1
    <3> HIDE DEF Ends
    <3>2. \A j \in Ends(body) : j <= e
      BY <2>1
    <3> QED BY <3>1, <3>2
  <2>2. CASE Ends(body) # {}
    <3>1. Ends(body) \subseteq Nat /\ \A i \in Ends(body) : i <= Len(body)
      OBVIOUS
    <3>2. Len(body) \in Nat
      OBVIOUS
    <3> HIDE DEF Ends
    <3>3. \E i \in Ends(body) : \A j \in Ends(body) : j <= i
      BY <2>2, <3>1, <3>2, GreatestExists
    <3>4. e \in Ends(body) /\ \A j \in Ends(body) : j <= e
      BY <1>2, <2>2, <3>3
    <3> QED BY <3>1, <3>2, <3>4
  <2> QED BY <2>1, <2>2
<1>4. PICK k : k = Upto(body, e)
  OBVIOUS
<1>5. k \in Seq(Bytes) /\ Len(k) = e /\ Starts(k, body)
  BY <1>3, <1>4 DEF Upto, Starts
<1>6. Ends(k) = Ends(body)
  BY <1>3, <1>5 DEF Starts
<1>7. Upto(k, e) = k
  BY <1>5 DEF Upto
<1> HIDE DEF Ends, Latest
<1>8. CompleteLines(body) = k /\ CompleteLines(k) = k
  BY <1>1, <1>2, <1>4, <1>6, <1>7
<1> QED BY <1>5, <1>8

\* A start decodes to a start of what the whole decodes to.
LEMMA DecodeFacts ==
    /\ Decode(<<>>) = <<>>
    /\ \A b \in Seq(Bytes) : Decode(b) \in Seq(Bytes)
    /\ \A a, b \in Seq(Bytes) : Starts(b, a) => Starts(Decode(b), Decode(a))
<1>1. Decode(<<>>) = <<>>
  BY DEF Decode
<1>2. ASSUME NEW b \in Seq(Bytes)
      PROVE  /\ Decode(b) \in Seq(Bytes) /\ Len(Decode(b)) = 2 * Len(b)
             /\ \A i \in 1..(2 * Len(b)) :
                   (i + 1) \div 2 \in 1..Len(b) /\ Decode(b)[i] = b[(i + 1) \div 2]
  <2>1. PICK n \in Nat : n = Len(b)
    OBVIOUS
  <2>2. \A i \in 1..(2 * n) : (i + 1) \div 2 \in 1..n
    BY <2>1
  <2>3. 2 * n \in Nat
    OBVIOUS
  <2>4. \A i \in 1..(2 * n) : b[(i + 1) \div 2] \in Bytes
    BY <2>1, <2>2
  <2>5. Decode(b) = [i \in 1..(2 * n) |-> b[(i + 1) \div 2]]
    BY <2>1 DEF Decode
  <2> QED BY <2>1, <2>2, <2>3, <2>4, <2>5
<1>3. ASSUME NEW a \in Seq(Bytes), NEW b \in Seq(Bytes), Starts(b, a)
      PROVE  Starts(Decode(b), Decode(a))
  <2>1. Len(b) <= Len(a) /\ Len(a) \in Nat /\ Len(b) \in Nat /\ \A i \in 1..Len(b) : b[i] = a[i]
    BY <1>3 DEF Starts
  <2>2. ASSUME NEW i \in 1..(2 * Len(b)) PROVE Decode(b)[i] = Decode(a)[i]
    <3>1. i \in 1..(2 * Len(a))
      BY <2>1
    <3>2. PICK h : h = (i + 1) \div 2
      OBVIOUS
    <3>3. h \in 1..Len(b) /\ Decode(b)[i] = b[h] /\ Decode(a)[i] = a[h]
      BY <1>2, <3>1, <3>2
    <3> QED BY <2>1, <3>3
  <2>3. Len(Decode(b)) = 2 * Len(b) /\ Len(Decode(a)) = 2 * Len(a)
    BY <1>2
  <2>4. 2 * Len(b) <= 2 * Len(a)
    BY <2>1
  <2> QED BY <2>2, <2>3, <2>4 DEF Starts
<1> QED BY <1>1, <1>2, <1>3

\* What is recorded of a stream, of all that passed.
Fits(r, through) ==
    LET all == FlattenSeq(through)
        text == IF r.encoding = "identity" THEN all ELSE Decode(all)
    IN  /\ IsPrefix(r.body, text)
        /\ r.body = text \/ r.cut
        /\ r.cut => r.body = CompleteLines(r.body)
        /\ SumOf(r.chunks) = Len(r.body)
        /\ r.encoding = "identity" => Len(r.body) <= Cap

\* What is recorded of a capture fits what has passed, in each encoding.
LEMMA RecordedFits ==
    ASSUME NEW t, NEW through, NEW whole \in BOOLEAN, NEW encoding \in Encodings, Kept(t, through)
    PROVE  Fits(RecordedStream(t, whole, encoding), through)
<1> DEFINE all == FlattenSeq(through)
           streamed == IF encoding = "identity" THEN all ELSE Decode(all)
           body == FlattenSeq(t.chunks)
           coded == encoding # "identity" /\ body # <<>>
           unread == coded /\ encoding = "unreadable"
           past == coded /\ encoding = "packed past the cap"
           text == CASE unread -> <<>>
                     [] past   -> Upto(Decode(body), Cap)
                     [] OTHER  -> IF coded THEN Decode(body) ELSE body
           lens == IF coded THEN IF text = <<>> THEN <<>> ELSE <<Len(text)>> ELSE Lengths(t.chunks)
           cut == t.truncated \/ ~whole \/ unread \/ past
           kept == IF cut THEN CompleteLines(text) ELSE text
           r == [body |-> kept, chunks |-> ClipChunks(lens, Len(kept)), cut |-> cut,
                 encoding |-> encoding]
<1>1. /\ t.chunks \in Seq(Seq(Bytes)) /\ body \in Seq(Bytes) /\ all \in Seq(Bytes)
      /\ Starts(body, all) /\ (t.truncated \/ body = all) /\ Total(t.chunks) = Len(body)
      /\ t.truncated \in BOOLEAN
  BY FlattenSeqs DEF Kept
<1>2. /\ Decode(body) \in Seq(Bytes) /\ Decode(all) \in Seq(Bytes)
      /\ Starts(Decode(body), Decode(all)) /\ Decode(<<>>) = <<>>
  <2> HIDE DEF body, all
  <2> QED BY <1>1, DecodeFacts
<1>3. \A s \in Seq(Bytes) : Starts(<<>>, s)
  BY DEF Starts
<1>4. streamed \in Seq(Bytes)
  <2> HIDE DEF body, all
  <2> QED BY <1>1, <1>2
<1>5. text \in Seq(Bytes) /\ Starts(text, streamed) /\ (cut \/ text = streamed)
  <2>1. CASE ~coded
    <3>1. text = body /\ ~unread /\ ~past
      BY <2>1
    <3>2. CASE encoding = "identity"
      <4> HIDE DEF body, all, unread, past, text
      <4> QED BY <1>1, <3>1, <3>2
    <3>3. CASE body = <<>>
      <4> HIDE DEF body, all, unread, past, text
      <4>1. Starts(text, streamed)
        BY <1>3, <1>4, <3>1, <3>3
      <4>2. t.truncated \/ text = streamed
        <5> HIDE DEF cut
        <5> QED BY <1>1, <1>2, <3>1, <3>3
      <4> QED BY <1>1, <3>1, <4>1, <4>2
    <3> QED BY <2>1, <3>2, <3>3
  <2>2. CASE unread
    <3>1. text = <<>> /\ cut
      BY <2>2
    <3> HIDE DEF text, cut, streamed
    <3> QED BY <1>3, <1>4, <3>1
  <2>3. CASE past
    <3>1. text = Upto(Decode(body), Cap) /\ cut /\ streamed = Decode(all)
      BY <2>3
    <3> HIDE DEF text, cut, streamed, body, all
    <3> QED BY <1>2, <3>1, StartsFacts, FlowAssumption
  <2>4. CASE coded /\ ~unread /\ ~past
    <3>1. text = Decode(body) /\ streamed = Decode(all)
      BY <2>4
    <3>2. cut \/ body = all
      BY <1>1
    <3> HIDE DEF text, cut, streamed, body, all
    <3> QED BY <1>2, <3>1, <3>2
  <2> QED BY <2>1, <2>2, <2>3, <2>4
<1>6. lens \in Seq(Nat) /\ SumOf(lens) = Len(text)
  <2>1. CASE coded /\ text = <<>>
    <3>1. lens = <<>> /\ Len(text) = 0
      BY <2>1
    <3> HIDE DEF lens, text
    <3> QED BY <3>1, SumOfNat
  <2>2. CASE coded /\ text # <<>>
    <3>1. lens = Append(<<>>, Len(text))
      <4>1. lens = <<Len(text)>>
        BY <2>2
      <4> HIDE DEF lens, text
      <4> QED BY <4>1
    <3>2. <<>> \in Seq(Nat) /\ Len(text) \in Nat
      <4> HIDE DEF text
      <4>1. text \in Seq(Bytes)
        BY <1>5
      <4> QED BY <4>1
    <3> HIDE DEF lens, text
    <3>3. SumOf(lens) = 0 + Len(text)
      BY <3>1, <3>2, SumOfAppend, SumOfNat
    <3> QED BY <3>1, <3>2, <3>3
  <2>3. CASE ~coded
    <3>1. lens = Lengths(t.chunks) /\ text = body
      BY <2>3
    <3> HIDE DEF lens, text, body
    <3> QED BY <1>1, <3>1, TotalFacts DEF Total
  <2> QED BY <2>1, <2>2, <2>3
<1> HIDE DEF streamed, text, lens, cut
<1>7. /\ kept \in Seq(Bytes) /\ Starts(kept, text) /\ (cut => kept = CompleteLines(kept))
      /\ (~cut => kept = text)
  BY <1>5, LinesFacts DEF Starts
<1> HIDE DEF kept
<1>8. Starts(kept, streamed) /\ (kept = streamed \/ cut) /\ Len(kept) <= Len(text)
  <2>1. Len(kept) \in Nat /\ Len(text) \in Nat /\ Len(streamed) \in Nat
    BY <1>4, <1>5, <1>7
  <2>2. Starts(kept, streamed) /\ Len(kept) <= Len(text)
    BY <1>5, <1>7, <2>1 DEF Starts
  <2> QED BY <1>5, <1>7, <2>2
<1>9. IsPrefix(kept, streamed)
  BY <1>4, <1>7, <1>8, PrefixMeans
<1>10. SumOf(ClipChunks(lens, Len(kept))) = Len(kept)
  <2>1. Len(kept) \in Nat
    BY <1>7
  <2> QED BY <1>6, <1>8, <2>1, ClipCovers
<1>13. encoding = "identity" => Len(kept) <= Cap
  <2>1. encoding = "identity" => text = body
    BY DEF text
  <2>2. Len(body) <= Cap /\ Len(body) \in Nat
    BY <1>1 DEF Kept
  <2>3. Len(kept) \in Nat /\ Len(text) \in Nat
    BY <1>5, <1>7
  <2> HIDE DEF body
  <2> QED BY <1>8, <2>1, <2>2, <2>3, FlowAssumption
<1>11. Fits(r, through)
  BY <1>7, <1>8, <1>9, <1>10, <1>13 DEF Fits, streamed
<1>12. RecordedStream(t, whole, encoding) = r
  BY DEF RecordedStream, kept, lens, cut, text
<1> QED BY <1>11, <1>12
-----------------------------------------------------------------------------
(* The streams of the proxy. *)

\* Where nothing has passed yet, and where nothing passes any more.
Before ==
    {"none", "parse", "admit", "point", "strip", "plan", "carry", "hooked", "returned", "sent"}

StreamInv ==
    /\ at \in Before => passed = <<>>
    /\ at = "streaming" \/ tee # None => Kept(tee, passed)
    /\ captured # None => at = "done" /\ Fits(captured, passed)

\* A step that leaves the stream alone and does not go back.
Onward ==
    /\ UNCHANGED <<tee, passed, captured>>
    /\ at' \in Before => at \in Before
    /\ at' = "streaming" => at = "streaming"
    /\ at = "done" => at' = "done"

LEMMA OnwardKeeps == StreamInv /\ Onward => StreamInv'
<1> SUFFICES ASSUME StreamInv, Onward PROVE StreamInv'
  OBVIOUS
<1>1. tee' = tee /\ passed' = passed /\ captured' = captured
  BY DEF Onward
<1>2. Kept(tee, passed)' = Kept(tee, passed) /\ Fits(captured, passed)' = Fits(captured, passed)
  BY <1>1 DEF Kept, Fits
<1> QED BY <1>1, <1>2 DEF StreamInv, Onward

LEMMA StreamInit == Init => StreamInv
<1> SUFFICES ASSUME Init PROVE StreamInv
  OBVIOUS
<1>1. at = "none" /\ passed = <<>> /\ tee = None /\ captured = None
  BY DEF Init
<1> QED BY <1>1 DEF StreamInv

\* The engine's steps and the request hook's.
LEMMA HookOnward ==
    ASSUME Run \/ StartAndStop \/ LeaveUp \/ Arrive \/ RequestHook \/ UNCHANGED vars
    PROVE  Onward
<1> USE DEF Onward, Before, vars, flowVars, answerVars, outVars, requestVars
<1>1. CASE Run \/ StartAndStop \/ LeaveUp \/ UNCHANGED vars
  BY <1>1
  DEF Run, StartAndStop, LeaveUp, MakeMaster, CheckStopped, Bind, EndServing, WaitReady,
      SetStopped, Shutdown
<1>2. CASE Arrive \/ Parse \/ PointUpstream \/ StripHeaders \/ MakePlan \/ ReturnHook
  BY <1>2 DEF Arrive, Parse, PointUpstream, StripHeaders, MakePlan, ReturnHook
<1>3. CASE AnswerControl
  BY <1>3 DEF AnswerControl
<1>4. CASE Admit
  BY <1>4 DEF Admit, Refuse, AnswerNow
<1>5. CASE Settle
  BY <1>5 DEF Settle, AnswerNow
<1>6. CASE CarryForward \/ CarryDelegate \/ CarryRespond
  BY <1>6 DEF CarryForward, CarryDelegate, CarryRespond, Keep
<1> QED BY <1>1, <1>2, <1>3, <1>4, <1>5, <1>6 DEF RequestHook

\* Hooks that raise, and what mitmproxy does with a flow.
LEMMA RaiseOnward ==
    ASSUME Raises \/ Dial \/ Answered \/ Break \/ BodyEnds \/ Abandon
    PROVE  Onward
<1> USE DEF Onward, Before, answerVars, outVars, requestVars
<1>1. CASE Raise \/ RefuseRaised \/ DelegateFails
  BY <1>1 DEF Raise, RefuseRaised, DelegateFails, Refuse, AnswerNow, Hooked
<1>2. CASE IssuedRaises
  BY <1>2 DEF IssuedRaises
<1>3. CASE ResponseRaises
  BY <1>3 DEF ResponseRaises, Pop
<1>4. CASE Dial \/ Answered \/ Break \/ BodyEnds
  BY <1>4 DEF Dial, Answered, Break, BodyEnds
<1>5. CASE Abandon
  BY <1>5 DEF Abandon
<1> QED BY <1>1, <1>2, <1>3, <1>4, <1>5 DEF Raises

\* The headers begin an empty capture; a chunk passes with what is kept of it.
LEMMA StreamPasses ==
    ASSUME StreamInv, Responseheaders \/ PassChunk
    PROVE  StreamInv'
<1>1. CASE Responseheaders
  <2>1. at = "sent" /\ passed' = passed /\ captured' = captured /\ at' \in {"body", "streaming"}
    BY <1>1 DEF Responseheaders, outVars
  <2>2. passed = <<>> /\ captured = None
    BY <2>1 DEF StreamInv, Before
  <2>3. CASE at' = "streaming" /\ tee' = [chunks |-> <<>>, truncated |-> FALSE]
    <3>1. Kept(tee', <<>>)
      <4>1. PICK t : t = [chunks |-> <<>>, truncated |-> FALSE]
        OBVIOUS
      <4>2. /\ t \in [chunks : Seq(Seq(Bytes)), truncated : BOOLEAN]
            /\ t.chunks = <<>> /\ <<>> \in Seq(Seq(Bytes))
        BY <4>1
      <4>3. FlattenSeq(<<>>) = <<>> /\ Total(<<>>) = 0 /\ Len(<<>>) = 0 /\ 0 <= Cap
        BY TotalFacts, FlattenSeqs, FlowAssumption
      <4>4. Kept(t, <<>>)
        BY <4>2, <4>3 DEF Kept, Starts
      <4> QED BY <2>3, <4>1, <4>4
    <3> QED BY <2>1, <2>2, <2>3, <3>1 DEF StreamInv, Before
  <2>4. CASE at' = "body" /\ tee' = tee
    <3>1. Kept(tee, passed)' = Kept(tee, passed)
      BY <2>1, <2>4 DEF Kept
    <3> QED BY <2>1, <2>2, <2>4, <3>1 DEF StreamInv, Before
  <2> QED BY <1>1, <2>3, <2>4 DEF Responseheaders
<1>2. CASE PassChunk
  <2>1. at = "streaming" /\ at' = at /\ captured' = captured
    BY <1>2 DEF PassChunk, outVars
  <2>2. Kept(tee, passed) /\ captured = None
    BY <2>1 DEF StreamInv
  <2>3. PICK c \in Chunk : /\ passed' = Append(passed, c)
                           /\ tee' = Capture(tee, c) \/ tee' = [tee EXCEPT !.truncated = TRUE]
    BY <1>2 DEF PassChunk
  <2>4. c \in Seq(Bytes)
    BY FlowAssumption DEF Bytes
  <2>5. Kept(tee', passed')
    BY <2>2, <2>3, <2>4, CaptureKeeps, MissedKeeps
  <2> QED BY <2>1, <2>2, <2>5 DEF StreamInv, Before
<1> QED BY <1>1, <1>2

\* The hooks that end a flow: a stream is recorded as its capture kept it.
LEMMA StreamEnds ==
    ASSUME StreamInv, ResponseHook \/ ErrorHook
    PROVE  StreamInv'
<1>1. CASE Unplanned
  <2>1. Onward
    BY <1>1 DEF Unplanned, Onward, Before, answerVars
  <2> QED BY <2>1, OnwardKeeps
<1>2. CASE Completed
  <2>1. Onward
    BY <1>2 DEF Completed, Onward, Before, Pop
  <2> QED BY <2>1, OnwardKeeps
<1>3. CASE Streamed \/ ErrorHook
  <2>1. at \in {"response", "error"} /\ at' = "done" /\ tee' = tee /\ passed' = passed
    BY <1>3 DEF Streamed, ErrorHook, Fail, Pop
  <2>2. captured = None
    BY <2>1 DEF StreamInv
  <2>3. Kept(tee, passed)' = Kept(tee, passed)
    BY <2>1 DEF Kept
  <2>4. \/ captured' = captured
        \/ /\ tee # None
           /\ \E whole \in BOOLEAN, encoding \in Encodings :
                 captured' = RecordedStream(tee, whole, encoding)
    BY <1>3 DEF Streamed, ErrorHook, Fail
  <2>5. captured' # None => Fits(captured', passed')
    BY <2>1, <2>2, <2>4, RecordedFits DEF StreamInv
  <2> QED BY <2>1, <2>3, <2>5 DEF StreamInv, Before
<1> QED BY <1>1, <1>2, <1>3 DEF ResponseHook

LEMMA StreamStep == IInv /\ StreamInv /\ [Next]_vars => StreamInv'
<1> SUFFICES ASSUME IInv, StreamInv, [Next]_vars PROVE StreamInv'
  OBVIOUS
<1>1. CASE \/ Run \/ StartAndStop \/ LeaveUp \/ Arrive \/ RequestHook \/ UNCHANGED vars
           \/ Raises \/ Dial \/ Answered \/ Break \/ BodyEnds \/ Abandon
  BY <1>1, HookOnward, RaiseOnward, OnwardKeeps
<1>2. CASE Responseheaders \/ PassChunk \/ ResponseHook \/ ErrorHook
  BY <1>2, StreamPasses, StreamEnds
<1>3. CASE LateError
  BY <1>3, LateIsNothing, HookOnward, OnwardKeeps
<1> QED BY <1>1, <1>2, <1>3 DEF Next, Irimi, Service

\* What is recorded of a stream is a start of what the agent got, decoded or as
\* it came, all of it unless it is marked as cut, in whole lines where it is cut,
\* and its chunks add up to it: for every stream, cap and encoding, and also
\* when a chunk raised in the tee.  As it came it is no
\* longer than the cap (`StreamCapture`, `recorded_stream`, `clip_chunks`).
THEOREM StreamsInOrder == Spec => []StreamsRecordedInOrder
<1>1. StreamInv => StreamsRecordedInOrder
  BY DEF StreamInv, StreamsRecordedInOrder, Fits
<1> QED BY <1>1, FlowInvariant, StreamInit, StreamStep, PTL DEF Spec

=============================================================================
