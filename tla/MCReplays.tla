---------------------------- MODULE MCReplays -------------------------------
(***************************************************************************)
(* A small instance of Replays: stored runs in which answers depend on     *)
(* writes, cannot be served, retry a key and lie in tool calls; two        *)
(* checked writes of one service; and runs of exchanges and a tool call    *)
(* that differ in one thing each.                                          *)
(***************************************************************************)
EXTENDS Replays, TLC

CONSTANTS k1, w1, w2

Match(name, kind, key) == [name |-> name, kind |-> kind, key |-> key]
Refund == Match("refund", "write", NoKey)
Charge == Match("charge", "write", k1)
Fetch  == Match("fetch", "read", NoKey)
Lookup1 == Match("lookup", "tool", NoKey)
Search == Match("search", "tool", NoKey)

AllMatches == {Refund, Charge, Fetch, Lookup1, Search}

\* An event over the clock from..to; writes are irimi's fakes.
Event(m, from, to) ==
    [match |-> m, standing |-> "", servable |-> TRUE, faked |-> m.kind = "write",
     checked |-> FALSE, from |-> from, to |-> to]
Bad(e) == [e EXCEPT !.servable = FALSE]
Retry(e) == [e EXCEPT !.standing = "replay", !.faked = FALSE]
Checked(e) == [e EXCEPT !.checked = TRUE]

\* Reads around a write, one of them not servable.
Plain == <<Event(Fetch, 1, 1), Event(Refund, 2, 2), Bad(Event(Fetch, 3, 3)), Event(Fetch, 4, 4)>>
\* A write that cannot be served, and a read that shows it.
Torn == <<Bad(Event(Refund, 1, 1)), Event(Fetch, 2, 2), Checked(Event(Refund, 3, 3))>>
\* A key sent twice.
Twice == <<Event(Charge, 1, 1), Retry(Event(Charge, 2, 2)), Event(Fetch, 3, 3)>>
\* A tool call around a read and another task's write, with a call nested in it
\* that is made again later.
Tools == <<Event(Refund, 2, 2), Event(Search, 3, 4), Event(Fetch, 5, 5), Event(Lookup1, 1, 6),
           Event(Search, 7, 8), Event(Fetch, 9, 9)>>

AllRecordings == {Plain, Torn, Twice, Tools}

\* A refund, and what may set another event apart from it.
Made(tool, name, sent, by) ==
    [tool |-> tool, name |-> name, sent |-> sent, json |-> TRUE, by |-> by, outcome |-> "", flags |-> {}]
Refund100 == Made(FALSE, "refund", "100", "fake-L2")
AllRecordable ==
    {Refund100, [Refund100 EXCEPT !.sent = "200"], [Refund100 EXCEPT !.outcome = "rejected"],
     [Refund100 EXCEPT !.flags = {"from-recording"}], [Refund100 EXCEPT !.flags = {"body-truncated"}],
     [Refund100 EXCEPT !.flags = {"idempotent-replay"}],
     [Made(TRUE, "post", "100", "shadow") EXCEPT !.json = FALSE]}

RequestSymmetry == Permutations(Live) \cup Permutations(Flows)

=============================================================================
