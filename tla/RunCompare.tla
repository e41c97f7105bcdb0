----------------------------- MODULE RunCompare -----------------------------
(***************************************************************************)
(* irimi compare, and the comparison a replay's report ends with           *)
(* (replay/compare.py): the writes of two stored runs are lined up, first  *)
(* where they are the same and then by what they call, and the exit code   *)
(* says whether the runs wrote the same.                                   *)
(***************************************************************************)
EXTENDS Naturals, Sequences

CONSTANTS
    Recordable,  \* events a run may hold: exchanges and tool calls
    MaxRun       \* bound of a run's events, a dropped one among them

EventFields == {"tool", "name", "sent", "json", "by", "outcome", "flags"}

\* A tool call has no flags, and what was sent tells whether it is JSON.
ASSUME CompareAssumption ==
    /\ \A e \in Recordable :
        /\ e = [field \in EventFields |-> e[field]]
        /\ {e.tool, e.json} \subseteq BOOLEAN
        /\ e.tool => e.flags = {}
    /\ \A e, d \in Recordable : ~e.tool /\ ~d.tool /\ e.sent = d.sent => e.json = d.json
    /\ MaxRun \in Nat

VARIABLES
    runA, runB,  \* the events of the two stored runs
    dropped      \* whether the store dropped events of either

compareVars == <<runA, runB, dropped>>

-----------------------------------------------------------------------------
(* actions: the writes a run attempted.                                     *)

\* An exchange has a line when irimi or a target answered it and it is no
\* retry; a tool call when it is a write whose fake ran.
HasLine(e) ==
    IF e.tool THEN e.by = "shadow"
    ELSE e.by # "live" /\ "idempotent-replay" \notin e.flags

\* The flags that say what irimi did with a write; from-recording and
\* replay-miss would set each replayed write apart from its recording.
OutcomeFlags == {"decision-failed", "refused", "body-truncated", "target-failed",
                 "idempotency-conflict"}

\* _exchange_action.  A body that JSON cannot hold is compared by its bytes, a
\* tool's args that it cannot hold by nothing.
ActionOf(e) ==
    [key |-> <<e.tool, e.name>>,
     cut |-> ~e.tool /\ "body-truncated" \in e.flags,
     outcome |-> IF e.tool THEN <<e.outcome>> ELSE <<e.by, e.outcome, e.flags \cap OutcomeFlags>>,
     comparable |-> e.json \/ ~e.tool,
     fields |-> e.sent]

\* The events of a run that have a line, in order.
Lines(run) ==
    LET upTo[n \in 0..Len(run)] ==
            IF n = 0 THEN <<>>
            ELSE IF HasLine(run[n]) THEN Append(upTo[n - 1], run[n]) ELSE upTo[n - 1]
    IN upTo[Len(run)]

ActionsOf(run) ==
    LET lines == Lines(run) IN [i \in DOMAIN lines |-> ActionOf(lines[i])]

\* data: cut or not JSON, it equals nothing, itself included.
SameData(x, y) ==
    /\ ~x.cut /\ ~y.cut /\ x.comparable /\ y.comparable
    /\ x.key = y.key /\ x.outcome = y.outcome /\ x.fields = y.fields

SameKey(x, y) == x.key = y.key

-----------------------------------------------------------------------------
(* _opcodes: difflib's SequenceMatcher.  A stretch is the actions from a up  *)
(* to b of one run and from c up to d of the other.                         *)

\* The blocks of a stretch in which each action equals its opposite; `equal` is
\* the pairs of positions that count as equal.
Blocks(s, equal) ==
    {m \in (s.a..s.b - 1) \X (s.c..s.d - 1) \X (1..s.b - s.a) :
        /\ m[1] + m[3] <= s.b /\ m[2] + m[3] <= s.d
        /\ \A k \in 0..m[3] - 1 : <<m[1] + k, m[2] + k>> \in equal}

Alike(x, y) == {p \in (DOMAIN x) \X (DOMAIN y) : SameData(x[p[1]], y[p[2]])}
OfOneKey(x, y) == {p \in (DOMAIN x) \X (DOMAIN y) : SameKey(x[p[1]], y[p[2]])}

\* The longest block, of those the one that starts first.
Longer(m, n) ==
    \/ m[3] > n[3]
    \/ m[3] = n[3] /\ m[1] < n[1]
    \/ m[3] = n[3] /\ m[1] = n[1] /\ m[2] <= n[2]
Longest(blocks) == CHOOSE m \in blocks : \A n \in blocks : Longer(m, n)

Stretches(x, y) ==
    [a : 1..Len(x) + 1, b : 1..Len(x) + 1, c : 1..Len(y) + 1, d : 1..Len(y) + 1]
Whole(x, y) == [a |-> 1, b |-> Len(x) + 1, c |-> 1, d |-> Len(y) + 1]
Before(s, m) == [s EXCEPT !.b = m[1], !.d = m[2]]
After(s, m) == [s EXCEPT !.a = m[1] + m[3], !.c = m[2] + m[3]]

Row(mark, i, j) == [mark |-> mark, a |-> i, b |-> j]

\* Two actions of one key.
PairMark(x, y) ==
    IF x.cut \/ y.cut THEN "cut" ELSE IF SameData(x, y) THEN "same" ELSE "changed"
Pairs(x, y, m) ==
    [k \in 1..m[3] |-> LET i == m[1] + k - 1
                           j == m[2] + k - 1
                       IN Row(PairMark(x[i], y[j]), i, j)]

\* Actions that nothing pairs with: all of A's, then all of B's.
Unpaired(s) ==
    [k \in 1..s.b - s.a |-> Row("only_a", s.a + k - 1, 0)] \o
    [k \in 1..s.d - s.c |-> Row("only_b", 0, s.c + k - 1)]

\* _by_key: a stretch without a same action is lined up by key.
ByKey(x, y, stretch) ==
    LET rows[s \in Stretches(x, y)] ==
            LET blocks == Blocks(s, OfOneKey(x, y))
                m == Longest(blocks)
            IN IF blocks = {} THEN Unpaired(s)
               ELSE rows[Before(s, m)]
                    \o Pairs(x, y, m)
                    \o rows[After(s, m)]
    IN rows[stretch]

\* Mutant: the actions behind the longest block are lined up by key alone.
AlignOnce(x, y) ==
    LET s == Whole(x, y)
        blocks == Blocks(s, Alike(x, y))
        m == Longest(blocks)
    IN IF blocks = {} THEN ByKey(x, y, s)
       ELSE ByKey(x, y, Before(s, m)) \o Pairs(x, y, m)

\* align: the same actions first, what lies between them by key.
Align(x, y) ==
    LET rows[s \in Stretches(x, y)] ==
            LET blocks == Blocks(s, Alike(x, y))
                m == Longest(blocks)
            IN IF blocks = {} THEN ByKey(x, y, s)
               ELSE rows[Before(s, m)] \o Pairs(x, y, m)
                    \o rows[After(s, m)]
    IN rows[Whole(x, y)]

A == ActionsOf(runA)
B == ActionsOf(runB)
Rows == Align(A, B)

\* exit_code: of irimi compare, and of a replay's report, which is never OK
\* when the store dropped events of either run.
OK == 0
DIFFERENT == 1
ComparisonCode(rows) == IF \A i \in DOMAIN rows : rows[i].mark = "same" THEN OK ELSE DIFFERENT
ReportCode(rows) == IF dropped THEN DIFFERENT ELSE ComparisonCode(rows)

-----------------------------------------------------------------------------

CompareInit == runA = <<>> /\ runB = <<>> /\ dropped = FALSE

Room(run) == Len(run) + (IF dropped THEN 1 ELSE 0) < MaxRun

\* The runs are recorded: a recording, and its replay or any other run.
RecordA(e) ==
    /\ Room(runA)
    /\ runB = <<>>
    /\ runA' = Append(runA, e)
    /\ UNCHANGED <<runB, dropped>>

RecordB(e) ==
    /\ Room(runB)
    /\ runB' = Append(runB, e)
    /\ UNCHANGED <<runA, dropped>>

\* The queue was full: the event is counted, not stored.
Drop ==
    /\ ~dropped /\ Room(runA) /\ Room(runB)
    /\ dropped' = TRUE
    /\ UNCHANGED <<runA, runB>>

CompareNext == (\E e \in Recordable : RecordA(e) \/ RecordB(e)) \/ Drop

-----------------------------------------------------------------------------
(* What a comparison promises.                                              *)

\* Each of a run's actions is in one row, and the rows have them in their order.
InOrder(rows, Side(_), actions) ==
    /\ {Side(rows[i]) : i \in DOMAIN rows} \ {0} = DOMAIN actions
    /\ \A i, j \in DOMAIN rows :
        i < j /\ Side(rows[i]) # 0 /\ Side(rows[j]) # 0 => Side(rows[i]) < Side(rows[j])

\* Every write of both runs is in one row, in the order in which it was made,
\* and a row pairs only writes of one key.  No write is listed as made by one
\* run only while the other has one of that key in the same place: a refund of
\* another amount is one changed write, never a missing and a new one (align,
\* _by_key).
RowsLineUp ==
    LET rows == Rows IN
    /\ InOrder(rows, LAMBDA r : r.a, A)
    /\ InOrder(rows, LAMBDA r : r.b, B)
    /\ \A i \in DOMAIN rows :
        rows[i].a # 0 /\ rows[i].b # 0 => SameKey(A[rows[i].a], B[rows[i].b])
    /\ \A i, j \in DOMAIN rows :
        rows[i].mark = "only_a" /\ rows[j].mark = "only_b" /\ SameKey(A[rows[i].a], B[rows[j].b]) =>
            \E k \in DOMAIN rows :
                /\ rows[k].a # 0 /\ rows[k].b # 0
                /\ (i < k /\ k < j) \/ (j < k /\ k < i)

\* The command exits OK exactly when the two runs made the same writes in the
\* same order, to the same outcome, whatever retries and live writes are among
\* them: never when a body was cut, when args cannot be compared or when an
\* event was dropped (Action.data, exit_code).
OkMeansSameWrites ==
    (ReportCode(Rows) = OK) <=>
        /\ ~dropped
        /\ LET a == Lines(runA)
               b == Lines(runB)
           IN /\ Len(a) = Len(b)
              /\ \A i \in DOMAIN a :
                  /\ "body-truncated" \notin a[i].flags /\ (a[i].tool => a[i].json)
                  /\ [a[i] EXCEPT !.flags = @ \cap OutcomeFlags] = [b[i] EXCEPT !.flags = @ \cap OutcomeFlags]

\* A comparison shows every write of both runs in its place, and its exit code
\* says whether they are the same.
ComparisonTells == RowsLineUp /\ OkMeansSameWrites

=============================================================================
