----------------------------- MODULE RunMemory -----------------------------
(***************************************************************************)
(* What the shadow session promises of a run's memory, with nothing of how *)
(* requests are planned, locked and finished: a write is remembered in the *)
(* step that tells its agent it was applied, a key keeps the first answer  *)
(* given under it, a request sees only its own run's, and only a run's end *)
(* takes anything away.                                                    *)
(***************************************************************************)
CONSTANTS Requests, Runs, Keys, NoRun, NoRequest

VARIABLES
    owner,   \* the run each request belongs to, once it is sent
    told,    \* the requests whose agent was told that they were applied
    memory,  \* what each run remembers of those
    first,   \* the request whose answer each run keeps under a key
    given,   \* the request whose answer each request gets: its own, or a first one
    view,    \* what each request was last shown of its run's memory
    closed   \* the runs whose end was reported

vars == <<owner, told, memory, first, given, view, closed>>

Init ==
    /\ owner = [w \in Requests |-> NoRun]
    /\ told = {}
    /\ memory = [r \in Runs |-> {}]
    /\ first = [r \in Runs |-> [k \in Keys |-> NoRequest]]
    /\ given = [w \in Requests |-> NoRequest]
    /\ view = [w \in Requests |-> {}]
    /\ closed = {}

Send(w, r) ==
    /\ owner[w] = NoRun
    /\ owner' = [owner EXCEPT ![w] = r]
    /\ UNCHANGED <<told, memory, first, given, view, closed>>

\* A request is shown only what its own run remembers.
Look(w, writes) ==
    /\ owner[w] \in Runs
    /\ writes \subseteq memory[owner[w]]
    /\ view' = [view EXCEPT ![w] = writes]
    /\ UNCHANGED <<owner, told, memory, first, given, closed>>

\* It gets an answer of its own, which its run may keep under a key that has none,
Mint(w) ==
    /\ owner[w] \in Runs
    /\ given[w] = NoRequest
    /\ given' = [given EXCEPT ![w] = w]
    /\ \/ UNCHANGED first
       \/ \E k \in Keys :
             /\ first[owner[w]][k] = NoRequest
             /\ first' = [first EXCEPT ![owner[w]][k] = w]
    /\ UNCHANGED <<owner, told, memory, view, closed>>

\* or the answer its run kept.
Repeat(w, k) ==
    /\ owner[w] \in Runs
    /\ given[w] = NoRequest
    /\ given' = [given EXCEPT ![w] = first[owner[w]][k]]
    /\ UNCHANGED <<owner, told, memory, first, view, closed>>

\* A write with an answer of its own is applied, and an open run remembers it.
Apply(w) ==
    /\ w \notin told
    /\ given[w] = w
    /\ told' = told \cup {w}
    /\ \/ memory' = [memory EXCEPT ![owner[w]] = @ \cup {w}]
       \/ owner[w] \in closed /\ UNCHANGED memory
    /\ UNCHANGED <<owner, first, given, view, closed>>

\* A run's end drops its writes,
Close(r) ==
    /\ closed' = closed \cup {r}
    /\ memory' = [memory EXCEPT ![r] = {}]
    /\ UNCHANGED <<owner, told, first, given, view>>

\* and then its keys.
Forget(r) ==
    /\ r \in closed
    /\ first' = [first EXCEPT ![r] = [k \in Keys |-> NoRequest]]
    /\ UNCHANGED <<owner, told, memory, given, view, closed>>

Next ==
    \/ \E w \in Requests :
          \/ \E r \in Runs : Send(w, r)
          \/ \E writes \in SUBSET Requests : Look(w, writes)
          \/ Mint(w)
          \/ \E k \in Keys : Repeat(w, k)
          \/ Apply(w)
    \/ \E r \in Runs : Close(r) \/ Forget(r)

Spec == Init /\ [][Next]_vars

=============================================================================
