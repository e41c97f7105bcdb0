---------------------------- MODULE MCTraceStore ----------------------------
(***************************************************************************)
(* Small instances of TraceStore for TLC: one run of the root's own, and   *)
(* a second id that is another run or one this store cannot write.         *)
(***************************************************************************)
EXTENDS TraceStore

CONSTANTS a, b

Item(kind, id, size) == [kind |-> kind, id |-> id, size |-> size, sound |-> TRUE]

AllItems == {Item("start", a, 1), Item("alien", a, 0), Item("event", a, 1), Item("end", a, 0),
             Item("event", b, 2), Item("end", b, 0),
             [Item("event", a, 1) EXCEPT !.sound = FALSE]}

OwnItems == {Item("start", a, 1), Item("event", a, 1), Item("end", a, 0)}

AllClasses == {c \in [Ids -> ClassSet] : c[a] = "own"}
OwnClasses == {[id \in Ids |-> "own"]}

=============================================================================
