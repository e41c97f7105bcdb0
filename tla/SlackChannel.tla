---------------------------- MODULE SlackChannel ----------------------------
(***************************************************************************)
(* One Slack channel as an agent of a shadow run sees it: the messages     *)
(* Slack has, the posts irimi only pretends to make, the clock their ids   *)
(* come from, and the pages of a read with those posts laid over them.     *)
(* A ts is a number, its seconds times Carry plus its counter; a message   *)
(* is its ts and the thread it answers, NoTs when it answers none.         *)
(***************************************************************************)
EXTENDS Integers, Sequences, FiniteSets, SequencesExt, FiniteSetsExt

CONSTANTS
    Carry,      \* counters of one second, 1_000_000
    MaxSeconds, \* bound: irimi's wall clock
    RealTimes,  \* bound: the ts of the messages others write
    MaxReal,    \* bound: messages others write
    MaxPosts,   \* bound: faked posts
    PageSize    \* messages on a page Slack cuts at the posted `limit`

ASSUME SlackAssumption ==
    /\ {Carry, PageSize} \subseteq Nat \ {0}
    /\ {MaxSeconds, MaxReal, MaxPosts} \subseteq Nat
    /\ RealTimes \subseteq Nat \ {0}

VARIABLES
    now,        \* time.time() in whole seconds, which may be set back
    last,       \* TsClock.last
    fixture,    \* the route's fixture object can be read: an answer has a message
    real,       \* Slack's own messages of the channel, oldest first
    posts,      \* the run's faked chat.postMessage, in the order they were filed
    newest,     \* history: the newest real ts the agent has been shown
    read        \* the read the agent is paging through

slackVars == <<now, last, fixture, real, posts, newest, read>>

NoTs == 0

\* What a read may post: a bound on either side, a limit, a parameter the
\* effects do not know.  A cursor is the ts of the last real message sent.
NoRead == [op |-> "none", thread |-> NoTs, oldest |-> NoTs, latest |-> NoTs, inclusive |-> FALSE,
           limited |-> FALSE, odd |-> FALSE, cursor |-> NoTs]

Idle == [r |-> NoRead, open |-> FALSE, pages |-> <<>>, partial |-> FALSE,
         hadReal |-> 0, hadPosts |-> 0]

MaxOf(numbers) == Max(numbers \cup {NoTs})

-----------------------------------------------------------------------------
(* TsClock.                                                                 *)

\* Mutant: a ts is the clock's second.
MintBySecond == now * Carry

\* The counter's carry into the next second is the successor of a number.
Mint == IF now > last \div Carry THEN now * Carry ELSE last + 1

Observe(page) == MaxOf({last} \cup {page[i].ts : i \in DOMAIN page})

-----------------------------------------------------------------------------
(* What Slack answers.                                                      *)

Shown(messages) == {messages[i].ts : i \in DOMAIN messages}

Inside(ts, r) ==
    /\ ts >= r.oldest
    /\ r.latest # NoTs => ts <= r.latest
    /\ ts \in {r.oldest, r.latest} => r.inclusive

\* The messages at these places, in their order.
Picked(messages, places) ==
    LET upto[i \in 0..Len(messages)] ==
            IF i = 0 THEN <<>>
            ELSE IF i \in places THEN Append(upto[i - 1], messages[i])
            ELSE upto[i - 1]
    IN  upto[Len(messages)]

Answers(thread) == {i \in DOMAIN real : real[i].thread = thread}

\* A message with no replies has no reply_count: 0.
Live(m) == [ts |-> m.ts, count |-> Cardinality(Answers(m.ts)), thread |-> m.thread]

HistoryLeft(r) ==
    Reverse(Picked(real, {i \in Answers(NoTs) : /\ Inside(real[i].ts, r)
                                                /\ r.cursor # NoTs => real[i].ts < r.cursor}))

RepliesLeft(r) ==
    Picked(real, {i \in Answers(r.thread) : Inside(real[i].ts, r) /\ real[i].ts > r.cursor})

Left(r) == IF r.op = "history" THEN HistoryLeft(r) ELSE RepliesLeft(r)

Cut(r) == IF r.limited THEN SubSeq(Left(r), 1, Min({PageSize, Len(Left(r))})) ELSE Left(r)

\* Each page of a thread begins with its parent (effects.py:131).
Parents(r) ==
    IF r.op = "replies" THEN Picked(real, {i \in DOMAIN real : real[i].ts = r.thread}) ELSE <<>>

Answered(r) ==
    [ok |-> r.op = "replies" => Parents(r) # <<>>,
     messages |-> [i \in DOMAIN (Parents(r) \o Cut(r)) |-> Live((Parents(r) \o Cut(r))[i])],
     more |-> Len(Cut(r)) < Len(Left(r))]

-----------------------------------------------------------------------------
(* What the effects do to it (services/slack/effects.py).                   *)

\* A read asks for the channel by its id: a post by another id is elsewhere,
\* one by a name may be anywhere.
InChannel(post) == [here |-> "yes", there |-> "no", name |-> "unsure"][post.channel]

InWindow(ts, r) == Inside(ts, r)

Belongs(post, r) == IF InWindow(post.ts, r) THEN InChannel(post) ELSE "no"

ByTs(these) ==
    CHOOSE q \in [1..Cardinality(these) -> these] : \A i, j \in DOMAIN q : i < j => q[i].ts < q[j].ts

Posts == ToSet(posts)

AsMessage(post) == [ts |-> post.ts, count |-> 0, thread |-> post.thread]

AsMessages(these) == [i \in 1..Cardinality(these) |-> AsMessage(ByTs(these)[i])]

\* Posts that answer a message of this page, and those among them that may.
Answering(messages) ==
    {p \in Posts : p.thread # NoTs /\ p.thread \in Shown(messages) /\ InChannel(p) # "no"}

Sure(these) == {p \in these : InChannel(p) = "yes" /\ p.whole}

ThreadFields(m, replies) == [m EXCEPT !.count = @ + Cardinality({p \in replies : p.thread = m.ts})]

Threads(messages) ==
    [messages |-> [i \in DOMAIN messages |-> ThreadFields(messages[i], Sure(Answering(messages)))],
     partial |-> Sure(Answering(messages)) # Answering(messages)]

Applied(messages, partial) == [messages |-> messages, partial |-> partial]

\* A reply lives in its thread; history shows only its parent, unless broadcast.
ForHistory(r) == {p \in Posts : (p.thread = NoTs \/ p.broadcast) /\ Belongs(p, r) # "no"}

PageHead(r, messages) ==
    {p \in Sure(ForHistory(r)) : p.ts \notin Shown(messages)}

\* Mutant: every page has the posts.
AnyPage(r) == TRUE

FirstPage(r) == r.cursor = NoTs

History(r, answer) ==
    LET first == FirstPage(r)
        head  == IF first THEN Reverse(AsMessages(PageHead(r, answer.messages))) ELSE <<>>
        moved == Threads(head \o answer.messages)
    IN IF \A p \in Posts : InChannel(p) = "no" THEN Applied(answer.messages, FALSE)
       ELSE IF r.odd THEN Applied(answer.messages, TRUE)
       ELSE Applied(moved.messages,
                    \/ moved.partial
                    \/ first /\ \E p \in ForHistory(r) : p \notin Sure(ForHistory(r)) \/ p.broadcast)

Mine(r) == {p \in Posts : p.thread # NoTs /\ p.thread = r.thread /\ InChannel(p) # "no"}

InTail(r) == {p \in Mine(r) : Belongs(p, r) # "no"}

Replies(r, answer) ==
    LET moved == Threads(answer.messages)
        tail  == {p \in Sure(InTail(r)) : p.ts \notin Shown(answer.messages)}
    IN IF Mine(r) = {} THEN Applied(answer.messages, FALSE)
       ELSE IF r.odd THEN Applied(answer.messages, TRUE)
       ELSE IF answer.more THEN Applied(moved.messages, moved.partial)
       ELSE Applied(moved.messages \o AsMessages(tail),
                    moved.partial \/ Sure(InTail(r)) # InTail(r))

\* A thread under a faked post: Slack answers thread_not_found.
MayMintThread(r) ==
    /\ r.op = "replies"
    /\ ~r.odd /\ ~r.limited /\ r.oldest = NoTs /\ r.latest = NoTs /\ r.cursor = NoTs
    /\ \E parent \in Sure(Posts) : parent.thread = NoTs /\ parent.ts = r.thread
    /\ {p \in Posts : p.thread = r.thread} \subseteq Sure(Posts)

MintedThread(r) ==
    LET parent  == {p \in Posts : p.thread = NoTs /\ p.ts = r.thread}
        replies == {p \in Posts : p.thread = r.thread}
    IN Threads(AsMessages(parent) \o AsMessages(replies))

WouldApply(r, post) ==
    /\ InChannel(post) # "no"
    /\ r.op = "replies" => r.thread \in {post.thread, post.ts}

ApplyRead(r, answer) ==
    IF ~answer.ok
    THEN IF MayMintThread(r) THEN MintedThread(r)
         ELSE Applied(<<>>, \E p \in Posts : WouldApply(r, p))
    ELSE IF r.op = "history" THEN History(r, answer) ELSE Replies(r, answer)

-----------------------------------------------------------------------------

SlackInit ==
    /\ now = 0
    /\ last = NoTs
    /\ fixture \in BOOLEAN
    /\ real = <<>>
    /\ posts = <<>>
    /\ newest = NoTs
    /\ read = Idle

\* Time passes, or the clock is set.
Tick ==
    /\ now' \in 0..MaxSeconds \ {now}
    /\ UNCHANGED <<last, fixture, real, posts, newest, read>>

\* Somebody writes in the channel, by Slack's clock and not by irimi's.
RealMessage(ts, thread) ==
    /\ Len(real) < MaxReal
    /\ ts > MaxOf(Shown(real)) /\ ts \notin Shown(posts)
    /\ thread # NoTs => \E m \in ToSet(real) : m.ts = thread /\ m.thread = NoTs
    /\ real' = Append(real, [ts |-> ts, thread |-> thread])
    /\ UNCHANGED <<now, last, fixture, posts, newest, read>>

\* chat.postMessage, faked: the envelope's ts is minted, the message is the
\* fixture's with that ts, and Slack ignores reply_broadcast on a top-level post.
Post(channel, thread, broadcast) ==
    /\ Len(posts) < MaxPosts
    /\ broadcast => thread # NoTs /\ channel = "here" \* bound: only such broadcasts
    /\ Mint \notin Shown(real) \* no two ts are the same microsecond
    /\ posts' = Append(posts, [ts |-> Mint, channel |-> channel, thread |-> thread,
                               broadcast |-> broadcast, whole |-> fixture, after |-> newest])
    /\ last' = Mint
    /\ UNCHANGED <<now, fixture, real, newest, read>>

BeginRead(r) ==
    /\ read = Idle
    /\ read' = [r |-> r, open |-> TRUE, pages |-> <<>>, partial |-> FALSE,
                hadReal |-> Len(real), hadPosts |-> Len(posts)]
    /\ UNCHANGED <<now, last, fixture, real, posts, newest>>

\* A page of the read: Slack's answer is observed, then overlaid (session.py:340).
Page ==
    LET r == read.r
        answer == Answered(r)
        applied == ApplyRead(r, answer)
    IN /\ read.open
       /\ last' = Observe(answer.messages)
       /\ read' = [read EXCEPT !.pages = Append(@, applied.messages),
                               !.partial = @ \/ applied.partial,
                               !.open = answer.more,
                               !.r.cursor = IF answer.more THEN Last(answer.messages).ts ELSE @]
       /\ newest' = MaxOf({newest} \cup Shown(answer.messages))
       /\ UNCHANGED <<now, fixture, real, posts>>

\* The tops a thread may hang from: real ones and the run's own.
Tops == {m.ts : m \in {x \in ToSet(real) \cup Posts : x.thread = NoTs}}

Whole == [NoRead EXCEPT !.op = "history"]

Whose == {Whole} \cup {[NoRead EXCEPT !.op = "replies", !.thread = t] : t \in Tops}

Bounded(w) ==
    {w} \cup {[w EXCEPT !.oldest = t] : t \in Tops}
        \cup {[w EXCEPT !.latest = t] : t \in Tops}
        \cup {[w EXCEPT !.latest = t, !.inclusive = TRUE] : t \in Tops}

\* The reads an agent may ask for.
Reads ==
    UNION {Bounded(w) \cup {[w EXCEPT !.limited = TRUE], [w EXCEPT !.odd = TRUE]} : w \in Whose}

Ended == ~read.open /\ read # Idle

\* Nothing that follows depends on a read that has ended.
EndRead ==
    /\ read' = Idle
    /\ UNCHANGED <<now, last, fixture, real, posts, newest>>

SlackNext ==
    \/ read = Idle /\ Tick
    \/ ~Ended /\ \E ts \in RealTimes, thread \in {NoTs} \cup Tops : RealMessage(ts, thread)
    \/ ~Ended /\ \E channel \in {"here", "there", "name"}, thread \in {NoTs} \cup Tops,
                    broadcast \in BOOLEAN : Post(channel, thread, broadcast)
    \/ \E r \in Reads : BeginRead(r)
    \/ Page
    \/ Ended /\ EndRead

-----------------------------------------------------------------------------

\* Every faked post sorts after each real message the agent had been shown and
\* after every post before it, also when irimi's clock is behind Slack's or is set
\* back (answers.py:42 "distinct and increasing", :54 "after every real one read").
PostsSortAfterWhatWasRead ==
    \A i \in DOMAIN posts :
        /\ posts[i].ts > posts[i].after
        /\ \A j \in 1..i - 1 : posts[j].ts < posts[i].ts

RealFirst == ToSet(SubSeq(real, 1, read.hadReal))
PostsFirst == ToSet(SubSeq(posts, 1, read.hadPosts))

AllShown == FlattenSeq(read.pages)

Times(ts) == Cardinality({i \in DOMAIN AllShown : AllShown[i].ts = ts})

Wanted(m) ==
    /\ m.thread = IF read.r.op = "history" THEN NoTs ELSE read.r.thread
    /\ Inside(m.ts, read.r)

\* An agent that pages through a read to its end has seen every real message and
\* every faked one of the read's channel, thread and window exactly once, and no
\* other post of its own, whatever is written while it reads; else the read says
\* that it is partial (effects.py:82 "on page 1 alone", :131 "only the last page").
PagesHoldEverythingOnce ==
    Ended /\ ~read.partial =>
        /\ \A m \in RealFirst : Wanted(m) => Times(m.ts) = 1
        /\ \A p \in PostsFirst : p.channel = "here" /\ Wanted(p) => Times(p.ts) = 1
        /\ \A p \in Posts :
               Times(p.ts) > 0 =>
                   /\ Times(p.ts) = 1 /\ p.channel = "here"
                   /\ Wanted(p) \/ p.ts = read.r.thread

RepliesSeen == {m.ts : m \in {x \in ToSet(AllShown) : x.thread = read.r.thread}}

\* A parent's reply_count, on a page of history or of its thread, counts every
\* reply there was when the read began; the last page of a whole thread counts
\* exactly the replies the agent was shown (effects.py:131).
ThreadCountsAgree ==
    ~read.partial =>
        /\ \A m \in ToSet(AllShown) :
               m.count >= Cardinality({x \in RealFirst : x.thread = m.ts})
                        + Cardinality({p \in PostsFirst : p.thread = m.ts /\ p.channel = "here"})
        /\ Ended /\ read.r.op = "replies" /\ read.r.oldest = NoTs /\ read.r.latest = NoTs =>
               \A m \in ToSet(Last(read.pages)) :
                   m.ts = read.r.thread => m.count = Cardinality(RepliesSeen)

\* What an agent reads of a channel adds up, page by page, though posts are made
\* while it reads: messages, and the counts of replies.
ReadsAddUp == PagesHoldEverythingOnce /\ ThreadCountsAgree

=============================================================================
