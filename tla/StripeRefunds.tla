--------------------------- MODULE StripeRefunds ---------------------------
(***************************************************************************)
(* The refunds of one Stripe charge as an agent of a shadow run sees them: *)
(* those Stripe has, those irimi only pretends to make, the charge they    *)
(* are taken from, and the pages of GET /v1/refunds.  Stripe's refunds are *)
(* numbered 1, 2, ... and irimi's -1, -2, ..., each in the order it made    *)
(* them; both lists are newest first.                                      *)
(***************************************************************************)
EXTENDS Integers, Sequences, FiniteSets, SequencesExt, FiniteSetsExt

CONSTANTS
    Charged,        \* the charge's amount
    FixtureAmount,  \* the amount of the fixture's refund
    Amounts,        \* amounts a refund may name
    Calls,          \* refunds.create calls that may be under way at once
    MaxRefunds,     \* bound: refunds irimi fakes
    MaxStripe,      \* bound: refunds Stripe has
    Limits          \* the `limit` a list may post

ASSUME StripeAssumption ==
    /\ {Charged, FixtureAmount} \subseteq Nat \ {0}
    /\ Amounts \subseteq Nat \ {0} /\ Limits \subseteq Nat \ {0}
    /\ {MaxRefunds, MaxStripe} \subseteq Nat

VARIABLES
    stripe,     \* amounts of Stripe's refunds, oldest first
    minted,     \* the run's faked refunds, in the order they were filed
    call,       \* the refunds.create calls under way
    list        \* the list the agent is paging through

stripeVars == <<stripe, minted, call, list>>

NoAmount == 0
NoCursor == 0
Total(amounts) ==
    LET upto[i \in 0..Len(amounts)] == IF i = 0 THEN 0 ELSE upto[i - 1] + amounts[i]
    IN  upto[Len(amounts)]

-----------------------------------------------------------------------------
(* The overlay (services/stripe/effects.py).                                *)

\* What each of these refunds takes from the charge: nothing, if it names another.
OfCharge(refunds) == [i \in DOMAIN refunds |-> IF refunds[i].named THEN refunds[i].amount ELSE 0]

\* A charge as it is read with these refunds filed: amount_refunded, and refunded
\* when it is all of it.
Charge(filed) ==
    LET refunded == Total(stripe) + Total(OfCharge(filed))
    IN [amount_refunded |-> refunded,
        refunded |-> refunded = Charged]

\* Mutant: the charge is read without the run's own refunds.
RefusedByStripe(amount, filed) ==
    \/ Charge(<<>>).refunded
    \/ amount # NoAmount /\ amount > Charged - Charge(<<>>).amount_refunded

\* charge_already_refunded, the amount-exceeds error, or passed (preconditions.py).
Refused(amount, filed) ==
    \/ Charge(filed).refunded
    \/ amount # NoAmount /\ amount > Charged - Charge(filed).amount_refunded

\* A minted refund is on a page filtered by charge if it named it; filtered by
\* payment intent nobody can tell, for its own is null unless it was posted.
Passes(refund, filter) ==
    CASE filter = "none" -> "yes"
      [] filter = "charge" -> IF refund.named THEN "yes" ELSE "no"
      [] filter = "payment_intent" -> IF refund.named THEN "unsure" ELSE "yes"

\* What Stripe answers: the page after one of its own refunds, or from the top.
After(cursor) ==
    LET first == IF cursor = NoCursor THEN Len(stripe) ELSE cursor - 1
    IN  [i \in 1..first |-> first - i + 1]

StripePage(cursor, limit) ==
    [data |-> SubSeq(After(cursor), 1, Min({limit, Len(After(cursor))})),
     more |-> Len(After(cursor)) > limit]

Ids(indices) == [i \in DOMAIN indices |-> -indices[i]]

Listed(page, partial) == [data |-> page.data, more |-> page.more, partial |-> partial]

\* The minted refunds that pass, newest first.
Minted(filter) ==
    LET among[i \in 0..Len(minted)] ==
            IF i = 0 THEN <<>>
            ELSE IF Passes(minted[i], filter) = "yes" THEN <<i>> \o among[i - 1]
            ELSE among[i - 1]
    IN  among[Len(minted)]

Unsure(filter) == \E i \in DOMAIN minted : Passes(minted[i], filter) = "unsure"

\* Mutant: what is cut off a page is not said to follow.
PageCut(data, limit, more) ==
    [data |-> SubSeq(data, 1, Min({limit, Len(data)})), more |-> more]

\* The first page: minted refunds first, kept to the limit.
PageWithin(data, limit, more) ==
    [data |-> SubSeq(data, 1, Min({limit, Len(data)})), more |-> more \/ Len(data) > limit]

FirstPageOf(l, page) ==
    IF minted = <<>> THEN Listed(page, FALSE)
    ELSE IF l.odd \/ Unsure(l.filter) THEN Listed(page, TRUE)
    ELSE IF Minted(l.filter) = <<>> THEN Listed(page, FALSE)
    ELSE Listed(PageWithin(Ids(Minted(l.filter)) \o page.data, l.limit, page.more), FALSE)

PageAfterMinted(l, page) ==
    Listed(page, \E i \in 1..-l.cursor - 1 : Passes(minted[i], l.filter) # "no")

\* A page after one of Stripe's: the effects cannot tell where the minted are.
PageAfterReal(page) == Listed(page, minted # <<>>)

Rewritten(cursor) == IF cursor < NoCursor THEN NoCursor ELSE cursor

RefundsList(l) ==
    LET page == StripePage(Rewritten(l.cursor), l.limit)
    IN IF l.cursor = NoCursor THEN FirstPageOf(l, page)
       ELSE IF l.cursor < NoCursor THEN PageAfterMinted(l, page)
       ELSE PageAfterReal(page)

-----------------------------------------------------------------------------

NoList == [open |-> FALSE, filter |-> "none", limit |-> 1, odd |-> FALSE, cursor |-> NoCursor,
           pages |-> <<>>, partial |-> FALSE, hadStripe |-> 0, hadMinted |-> 0, told |-> 0]

NoCall == [pc |-> "none", amount |-> NoAmount, named |-> FALSE, saw |-> 0, stripe |-> 0,
           passed |-> FALSE]

StripeInit ==
    /\ stripe = <<>>
    /\ minted = <<>>
    /\ call = [c \in Calls |-> NoCall]
    /\ list = NoList

\* Somebody else refunds a part of the charge at Stripe, within what Stripe has left.
StripeRefund(amount) ==
    /\ Len(stripe) < MaxStripe
    /\ Total(stripe) + amount <= Charged
    /\ stripe' = Append(stripe, amount)
    /\ UNCHANGED <<minted, call, list>>

UnderWay == {c \in Calls : call[c] # NoCall}

\* A refunds.create is planned: the run's writes are copied now (session.py:145).
BeginRefund(c, amount, named) ==
    /\ call[c] = NoCall
    /\ Len(minted) + Cardinality(UnderWay) < MaxRefunds
    /\ call' = [call EXCEPT ![c] = [pc |-> "planned", amount |-> amount, named |-> named,
                                    saw |-> Len(minted), stripe |-> 0, passed |-> FALSE]]
    /\ UNCHANGED <<stripe, minted, list>>

\* Its check reads the charge, shown with the writes copied; one that names no
\* charge is not checked, and a charge that cannot be read decides nothing.
CheckRefund(c) ==
    LET refused == Refused(call[c].amount, SubSeq(minted, 1, call[c].saw))
    IN /\ call[c].pc = "planned"
       /\ \/ call' = [call EXCEPT ![c].pc = "answered"]
          \/ /\ call[c].named /\ refused
             /\ call' = [call EXCEPT ![c] = NoCall]
          \/ /\ call[c].named /\ ~refused
             /\ call' = [call EXCEPT ![c].pc = "answered", ![c].passed = TRUE,
                                     ![c].stripe = Total(stripe)]
       /\ UNCHANGED <<stripe, minted, list>>

\* The faked refund is filed by the response hook (session.py:366), or never, when
\* the agent has gone before it.  One that names no amount carries the fixture's.
FileRefund(c) ==
    /\ call[c].pc = "answered"
    /\ \/ minted' = Append(minted,
              [amount |-> IF call[c].amount = NoAmount THEN FixtureAmount ELSE call[c].amount,
               posted |-> call[c].amount # NoAmount,
               named |-> call[c].named,
               saw |-> call[c].saw,
               stripe |-> call[c].stripe,
               passed |-> call[c].passed])
       \/ minted' = minted
    /\ call' = [call EXCEPT ![c] = NoCall]
    /\ UNCHANGED <<stripe, list>>

BeginList(filter, limit, odd) ==
    /\ list = NoList
    /\ list' = [NoList EXCEPT !.open = TRUE, !.filter = filter, !.limit = limit, !.odd = odd,
                              !.hadStripe = Len(stripe), !.hadMinted = Len(minted)]
    /\ UNCHANGED <<stripe, minted, call>>

\* The next page, from the last refund of the one before; with the last page the
\* agent also retrieves the charge.
ListPage ==
    LET page == RefundsList(list)
        more == page.more /\ page.data # <<>>
    IN /\ list.open
       /\ list' = [list EXCEPT !.pages = Append(@, page.data),
                               !.partial = @ \/ page.partial,
                               !.open = more,
                               !.cursor = IF more THEN Last(page.data) ELSE @,
                               !.told = Charge(minted).amount_refunded]
       /\ UNCHANGED <<stripe, minted, call>>

Through == list # NoList /\ ~list.open

\* Nothing that follows depends on a list that has been read to its end.
EndList ==
    /\ list' = NoList
    /\ UNCHANGED <<stripe, minted, call>>

StripeNext ==
    \/ ~Through /\ \E amount \in Amounts : StripeRefund(amount)
    \/ ~Through /\ \E c \in Calls, amount \in Amounts \cup {NoAmount}, named \in BOOLEAN :
                        BeginRefund(c, amount, named)
    \/ ~Through /\ \E c \in Calls : CheckRefund(c)
    \/ ~Through /\ \E c \in Calls : FileRefund(c)
    \/ \E filter \in {"none", "charge", "payment_intent"}, limit \in Limits, odd \in BOOLEAN :
           BeginList(filter, limit, odd)
    \/ ListPage
    \/ Through /\ EndList

-----------------------------------------------------------------------------

\* A faked refund whose check passed took no more than was left of the charge by
\* Stripe's refunds at its check and the run's own that were filed before its
\* request was planned (session.py:145, preconditions.py:43).  Of the refunds under
\* way beside it the check knows nothing: together they may exceed the charge.
RefundsFitTheCharge ==
    \A i \in DOMAIN minted :
        minted[i].passed /\ minted[i].posted =>
            minted[i].stripe + minted[i].amount
                + Total(OfCharge(SubSeq(minted, 1, minted[i].saw))) <= Charged

Seen == FlattenSeq(list.pages)
AmountOf(id) == IF id < 0 THEN minted[-id].amount ELSE stripe[id]

\* An agent that pages through a list of refunds to its end has seen each refund
\* that was there when it began exactly once, Stripe's and its own, whatever is
\* refunded meanwhile; else the list says that it is partial.  And the charge it
\* then reads has refunded what the refunds of the charge come to, when none was made meanwhile
\* (effects.py:99, :88 "so it agrees").
ListHoldsEveryRefundOnce ==
    Through /\ ~list.partial =>
        LET wanted == 1..list.hadStripe
                          \cup {-i : i \in {j \in 1..list.hadMinted :
                                               Passes(minted[j], list.filter) = "yes"}}
        IN /\ IsInjective(Seen)
           /\ wanted \subseteq ToSet(Seen)
           /\ list.filter = "charge" /\ list.hadStripe = Len(stripe) /\ list.hadMinted = Len(minted) =>
                  list.told = Total([i \in DOMAIN Seen |-> AmountOf(Seen[i])])

\* A run's refunds add up, as they are made and as they are listed.
RefundsAddUp == RefundsFitTheCharge /\ ListHoldsEveryRefundOnce

=============================================================================
