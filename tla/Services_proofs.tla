-------------------------- MODULE Services_proofs ---------------------------
(***************************************************************************)
(* Proofs about Services for every charge, channel and number of writes:   *)
(* what an agent reads of the refunds it faked, where the messages it      *)
(* faked are put among the others, and what it reads of the channel.       *)
(***************************************************************************)
EXTENDS Services, FiniteSetTheorems, SequenceTheorems, NaturalsInduction, WellFoundedInduction, TLAPS

-----------------------------------------------------------------------------
(* Recursion over the numbers, without an operator as a parameter: a set that  *)
(* has 0 and is closed under the next number, and a function built by steps.   *)

\* A set of numbers with 0 and with the next of each has them all.
LEMMA Induction ==
    ASSUME NEW T, 0 \in T, \A n \in T \cap Nat : n + 1 \in T
    PROVE  Nat \subseteq T
<1> DEFINE S == Nat \ T
<1>1. SUFFICES ASSUME S # {} PROVE FALSE
  OBVIOUS
<1>2. PICK i \in S : \A j \in S : ~ (<<j, i>> \in OpToRel(<, Nat))
  <2> HIDE DEF S
  <2>1. S \subseteq Nat
    BY DEF S
  <2> QED BY <1>1, <2>1, NatLessThanWellFounded, WFMin
<1>3. i - 1 \in Nat /\ i - 1 < i
  OBVIOUS
<1>4. <<i - 1, i>> \in OpToRel(<, Nat)
  BY <1>3 DEF OpToRel
<1>5. i - 1 \notin S
  BY <1>2, <1>4, Zenon
<1>6. (i - 1) + 1 = i
  BY <1>3
<1> QED BY <1>3, <1>5, <1>6

\* f runs over the numbers to n from b, by the steps given.
Runs(f, S, n, b, step) ==
    f \in [0..n -> S] /\ f[0] = b /\ \A i \in 1..n : f[i] = step[i][f[i - 1]]

\* Where each step stays in S, there is a function that takes them one after the other.
LEMMA Recursion ==
    ASSUME NEW S, NEW n, NEW b, NEW step,
           n \in Nat, b \in S, step \in [1..n -> [S -> S]]
    PROVE  \E f : Runs(f, S, n, b, step)
<1> DEFINE T == {m \in Nat : m <= n => \E f : Runs(f, S, m, b, step)}
<1>1. 0 \in T
  <2>1. Runs([i \in 0..0 |-> b], S, 0, b, step)
    BY DEF Runs
  <2> QED BY <2>1
<1>2. ASSUME NEW m \in T \cap Nat PROVE m + 1 \in T
  <2>0. m \in Nat /\ m + 1 \in Nat
    OBVIOUS
  <2> SUFFICES ASSUME m + 1 <= n PROVE \E f : Runs(f, S, m + 1, b, step)
    BY <2>0
  <2>1. PICK g : Runs(g, S, m, b, step)
    BY <2>0
  <2> DEFINE next == step[m + 1][g[m]]
  <2>2. next \in S
    BY <2>0, <2>1 DEF Runs
  <2> HIDE DEF next
  <2>3. PICK f : f = [i \in 0..(m + 1) |-> IF i = m + 1 THEN next ELSE g[i]]
    OBVIOUS
  <2>4. f \in [0..(m + 1) -> S] /\ f[0] = b
    BY <2>0, <2>1, <2>2, <2>3 DEF Runs
  <2>5. ASSUME NEW i \in 1..(m + 1) PROVE f[i] = step[i][f[i - 1]]
    <3>1. CASE i = m + 1
      <4>1. f[i] = next /\ f[i - 1] = g[m] /\ i - 1 = m
        BY <2>0, <2>3, <3>1
      <4> QED BY <3>1, <4>1 DEF next
    <3>2. CASE i # m + 1
      <4>1. i \in 1..m /\ f[i] = g[i] /\ f[i - 1] = g[i - 1]
        BY <2>0, <2>3, <3>2
      <4>2. g[i] = step[i][g[i - 1]]
        BY <2>1, <4>1 DEF Runs
      <4> QED BY <4>1, <4>2
    <3> QED BY <3>1, <3>2
  <2> QED BY <2>4, <2>5 DEF Runs
<1> HIDE DEF T
<1>3. n \in T
  BY <1>1, <1>2, Induction
<1> QED BY <1>3 DEF T

\* The steps of a sum and of a concatenation.
Adding(amounts) == [i \in 1..Len(amounts) |-> [a \in Nat |-> a + amounts[i]]]
Joining(chunks, S) == [i \in 1..Len(chunks) |-> [a \in Seq(S) |-> a \o chunks[i]]]

\* Total is the last of the sums it defines.
LEMMA TotalRuns ==
    ASSUME NEW amounts \in Seq(Nat)
    PROVE  \E g : Runs(g, Nat, Len(amounts), 0, Adding(amounts)) /\ Total(amounts) = g[Len(amounts)]
<1> DEFINE upto[i \in 0..Len(amounts)] == IF i = 0 THEN 0 ELSE upto[i - 1] + amounts[i]
<1>0. Len(amounts) \in Nat /\ Adding(amounts) \in [1..Len(amounts) -> [Nat -> Nat]] /\ 0 \in Nat
  BY DEF Adding
<1>1. PICK g : Runs(g, Nat, Len(amounts), 0, Adding(amounts))
  BY <1>0, Recursion
<1>2. ASSUME NEW i \in 1..Len(amounts) PROVE g[i] = g[i - 1] + amounts[i]
  <2>1. i - 1 \in 0..Len(amounts)
    BY <1>0
  <2>2. g[i - 1] \in Nat
    BY <1>1, <2>1 DEF Runs
  <2>3. g[i] = Adding(amounts)[i][g[i - 1]]
    BY <1>1 DEF Runs
  <2> QED BY <2>2, <2>3 DEF Adding
<1>3. g = [i \in 0..Len(amounts) |-> IF i = 0 THEN 0 ELSE g[i - 1] + amounts[i]]
  BY <1>0, <1>1, <1>2 DEF Runs
<1>4. upto = [i \in 0..Len(amounts) |-> IF i = 0 THEN 0 ELSE upto[i - 1] + amounts[i]]
  BY <1>3
<1>5. Total(amounts) = upto[Len(amounts)]
  BY DEF Total
<1> HIDE DEF upto
<1> DEFINE T == {m \in Nat : m <= Len(amounts) => upto[m] = g[m]}
<1>6. Len(amounts) \in T
  <2>1. 0 \in T
    BY <1>3, <1>4
  <2>2. ASSUME NEW m \in T \cap Nat PROVE m + 1 \in T
    BY <1>3, <1>4
  <2> HIDE DEF T
  <2> QED BY <2>1, <2>2, <1>0, Induction
<1> QED BY <1>0, <1>1, <1>5, <1>6

\* So is FlattenSeq of the concatenations it defines.
LEMMA FlattenRuns ==
    ASSUME NEW S, NEW chunks \in Seq(Seq(S))
    PROVE  \E g : /\ Runs(g, Seq(S), Len(chunks), <<>>, Joining(chunks, S))
                  /\ FlattenSeq(chunks) = g[Len(chunks)]
<1> DEFINE flatten[i \in 1..Len(chunks)] ==
             IF i = 1 THEN chunks[i] ELSE flatten[i - 1] \o chunks[i]
<1>0. /\ Len(chunks) \in Nat /\ <<>> \in Seq(S)
      /\ Joining(chunks, S) \in [1..Len(chunks) -> [Seq(S) -> Seq(S)]]
  BY DEF Joining
<1>1. PICK g : Runs(g, Seq(S), Len(chunks), <<>>, Joining(chunks, S))
  BY <1>0, Recursion
<1>2. ASSUME NEW i \in 1..Len(chunks) PROVE g[i] = g[i - 1] \o chunks[i]
  <2>1. i - 1 \in 0..Len(chunks)
    BY <1>0
  <2>2. g[i - 1] \in Seq(S)
    BY <1>1, <2>1 DEF Runs
  <2>3. g[i] = Joining(chunks, S)[i][g[i - 1]]
    BY <1>1 DEF Runs
  <2> QED BY <2>2, <2>3 DEF Joining
<1>3. g[0] = <<>>
  BY <1>1 DEF Runs
<1>4. CASE Len(chunks) = 0
  <2>1. chunks = <<>>
    BY <1>4
  <2> QED BY <1>1, <1>3, <1>4, <2>1 DEF FlattenSeq
<1>5. CASE Len(chunks) # 0
  <2> DEFINE h == [i \in 1..Len(chunks) |-> g[i]]
  <2>1. h = [i \in 1..Len(chunks) |-> IF i = 1 THEN chunks[i] ELSE h[i - 1] \o chunks[i]]
    <3>1. ASSUME NEW i \in 1..Len(chunks)
          PROVE  g[i] = IF i = 1 THEN chunks[i] ELSE h[i - 1] \o chunks[i]
      <4>1. CASE i = 1
        <5>1. i - 1 = 0
          BY <4>1
        <5>2. g[i] = <<>> \o chunks[i]
          BY <1>2, <1>3, <5>1
        <5> QED BY <4>1, <5>2
      <4>2. CASE i # 1
        <5>1. i - 1 \in 1..Len(chunks)
          BY <1>0, <4>2
        <5>2. h[i - 1] = g[i - 1]
          BY <5>1
        <5> HIDE DEF h
        <5> QED BY <1>2, <4>2, <5>2
      <4> QED BY <4>1, <4>2
    <3> HIDE DEF h
    <3>2. \A i \in 1..Len(chunks) : g[i] = IF i = 1 THEN chunks[i] ELSE h[i - 1] \o chunks[i]
      BY <3>1
    <3>3. h = [i \in 1..Len(chunks) |-> g[i]]
      BY DEF h
    <3> QED BY <3>2, <3>3
  <2>2. flatten = [i \in 1..Len(chunks) |->
                     IF i = 1 THEN chunks[i] ELSE flatten[i - 1] \o chunks[i]]
    BY <2>1
  <2>3. FlattenSeq(chunks) = flatten[Len(chunks)]
    BY <1>5 DEF FlattenSeq
  <2> HIDE DEF flatten, h
  <2> DEFINE T == {m \in Nat : m + 1 <= Len(chunks) => flatten[m + 1] = g[m + 1]}
  <2>4. Len(chunks) - 1 \in T
    <3>1. 0 \in T
      <4>1. 1 \in 1..Len(chunks) /\ 0 + 1 = 1 /\ 1 - 1 = 0
        BY <1>0, <1>5
      <4>2. flatten[1] = chunks[1]
        BY <2>2, <4>1
      <4>3. g[1] = <<>> \o chunks[1]
        BY <1>2, <1>3, <4>1
      <4>4. <<>> \o chunks[1] = chunks[1]
        BY <4>1
      <4> QED BY <4>1, <4>2, <4>3, <4>4
    <3>2. ASSUME NEW m \in T \cap Nat PROVE m + 1 \in T
      <4>1. m + 1 \in Nat
        OBVIOUS
      <4>2. SUFFICES ASSUME (m + 1) + 1 <= Len(chunks)
                     PROVE  flatten[(m + 1) + 1] = g[(m + 1) + 1]
        BY <4>1
      <4>3. (m + 1) + 1 \in 1..Len(chunks) /\ ((m + 1) + 1) - 1 = m + 1 /\ (m + 1) + 1 # 1
        BY <1>0, <4>2
      <4>4. flatten[m + 1] = g[m + 1]
        BY <4>2, <1>0
      <4>5. flatten[(m + 1) + 1] = flatten[m + 1] \o chunks[(m + 1) + 1]
        BY <2>2, <4>3
      <4>6. g[(m + 1) + 1] = g[m + 1] \o chunks[(m + 1) + 1]
        BY <1>2, <4>3
      <4> QED BY <4>4, <4>5, <4>6
    <3> HIDE DEF T
    <3>3. Len(chunks) - 1 \in Nat
      BY <1>0, <1>5
    <3> QED BY <3>1, <3>2, <3>3, Induction
  <2>5. flatten[Len(chunks)] = g[Len(chunks)]
    BY <2>4, <1>0, <1>5
  <2> QED BY <1>1, <2>3, <2>5
<1> QED BY <1>4, <1>5

\* Two runs whose steps agree up to m agree there.
LEMMA RunsAgree ==
    ASSUME NEW S, NEW b, NEW n \in Nat, NEW m \in Nat, NEW f, NEW g, NEW step, NEW other,
           Runs(f, S, n, b, step), Runs(g, S, m, b, other),
           m <= n, \A i \in 1..m : step[i] = other[i]
    PROVE  f[m] = g[m]
<1> DEFINE T == {i \in Nat : i <= m => f[i] = g[i]}
<1>1. 0 \in T
  BY DEF Runs
<1>2. ASSUME NEW i \in T \cap Nat PROVE i + 1 \in T
  <2>1. i + 1 \in Nat
    OBVIOUS
  <2>2. SUFFICES ASSUME i + 1 <= m PROVE f[i + 1] = g[i + 1]
    BY <2>1
  <2>3. f[i] = g[i] /\ i + 1 \in 1..m /\ i + 1 \in 1..n /\ (i + 1) - 1 = i
    BY <2>2
  <2>4. f[i + 1] = step[i + 1][f[i]] /\ g[i + 1] = other[i + 1][g[i]]
    BY <2>3 DEF Runs
  <2> QED BY <2>3, <2>4
<1> HIDE DEF T
<1>3. m \in T
  BY <1>1, <1>2, Induction
<1> QED BY <1>3 DEF T

\* A sum of numbers is one, and of none it is 0.
LEMMA TotalNat == Total(<<>>) = 0 /\ \A amounts \in Seq(Nat) : Total(amounts) \in Nat
<1>1. ASSUME NEW amounts \in Seq(Nat) PROVE Total(amounts) \in Nat
  <2>1. Len(amounts) \in 0..Len(amounts)
    OBVIOUS
  <2> QED BY <2>1, TotalRuns DEF Runs
<1>2. Total(<<>>) = 0
  <2>1. <<>> \in Seq(Nat) /\ Len(<<>>) = 0
    OBVIOUS
  <2>2. PICK g : Runs(g, Nat, 0, 0, Adding(<<>>)) /\ Total(<<>>) = g[0]
    BY <2>1, TotalRuns
  <2> QED BY <2>2 DEF Runs
<1> QED BY <1>1, <1>2

\* One more number adds to the sum.
LEMMA TotalAppend ==
    ASSUME NEW amounts \in Seq(Nat), NEW x \in Nat
    PROVE  Total(Append(amounts, x)) = Total(amounts) + x
<1> DEFINE more == Append(amounts, x)
           n == Len(amounts)
<1>1. /\ more \in Seq(Nat) /\ Len(more) = n + 1 /\ n \in Nat /\ more[n + 1] = x
      /\ \A i \in 1..n : more[i] = amounts[i]
  OBVIOUS
<1> HIDE DEF more
<1>2. PICK f : Runs(f, Nat, n + 1, 0, Adding(more)) /\ Total(more) = f[n + 1]
  BY <1>1, TotalRuns
<1>3. PICK g : Runs(g, Nat, n, 0, Adding(amounts)) /\ Total(amounts) = g[n]
  BY TotalRuns
<1>4. ASSUME NEW i \in 1..n PROVE Adding(more)[i] = Adding(amounts)[i]
  <2>1. i \in 1..(n + 1) /\ more[i] = amounts[i]
    BY <1>1
  <2>2. Adding(more)[i] = [a \in Nat |-> a + more[i]]
    BY <1>1, <2>1 DEF Adding
  <2>3. Adding(amounts)[i] = [a \in Nat |-> a + amounts[i]]
    BY DEF Adding
  <2> HIDE DEF n
  <2> QED BY <2>1, <2>2, <2>3
<1>5. f[n] = g[n]
  <2>1. n + 1 \in Nat /\ n <= n + 1
    BY <1>1
  <2> HIDE DEF n
  <2> QED BY <1>1, <1>2, <1>3, <1>4, <2>1, RunsAgree
<1>6. f[n + 1] = f[n] + x
  <2>1. n + 1 \in 1..(n + 1) /\ (n + 1) - 1 = n /\ n \in 0..(n + 1)
    BY <1>1
  <2>2. f[n] \in Nat /\ f[n + 1] = Adding(more)[n + 1][f[n]]
    BY <1>2, <2>1 DEF Runs
  <2> QED BY <1>1, <2>1, <2>2 DEF Adding
<1> QED BY <1>2, <1>3, <1>5, <1>6 DEF more

\* A concatenation of sequences is one, and of none it is empty.
LEMMA FlattenSeqs ==
    ASSUME NEW S
    PROVE  FlattenSeq(<<>>) = <<>> /\ \A chunks \in Seq(Seq(S)) : FlattenSeq(chunks) \in Seq(S)
<1>1. ASSUME NEW chunks \in Seq(Seq(S)) PROVE FlattenSeq(chunks) \in Seq(S)
  <2>1. Len(chunks) \in 0..Len(chunks)
    OBVIOUS
  <2> QED BY <2>1, FlattenRuns DEF Runs
<1>2. FlattenSeq(<<>>) = <<>>
  BY DEF FlattenSeq
<1> QED BY <1>1, <1>2

\* One more chunk goes to the end.
LEMMA FlattenAppend ==
    ASSUME NEW S, NEW chunks \in Seq(Seq(S)), NEW c \in Seq(S)
    PROVE  FlattenSeq(Append(chunks, c)) = FlattenSeq(chunks) \o c
<1> DEFINE more == Append(chunks, c)
           n == Len(chunks)
<1>1. /\ more \in Seq(Seq(S)) /\ Len(more) = n + 1 /\ n \in Nat /\ more[n + 1] = c
      /\ \A i \in 1..n : more[i] = chunks[i]
  OBVIOUS
<1> HIDE DEF more
<1>2. PICK f : Runs(f, Seq(S), n + 1, <<>>, Joining(more, S)) /\ FlattenSeq(more) = f[n + 1]
  BY <1>1, FlattenRuns
<1>3. PICK g : Runs(g, Seq(S), n, <<>>, Joining(chunks, S)) /\ FlattenSeq(chunks) = g[n]
  BY FlattenRuns
<1>4. ASSUME NEW i \in 1..n PROVE Joining(more, S)[i] = Joining(chunks, S)[i]
  <2>1. i \in 1..(n + 1) /\ more[i] = chunks[i]
    BY <1>1
  <2>2. Joining(more, S)[i] = [a \in Seq(S) |-> a \o more[i]]
    BY <1>1, <2>1 DEF Joining
  <2>3. Joining(chunks, S)[i] = [a \in Seq(S) |-> a \o chunks[i]]
    BY DEF Joining
  <2> HIDE DEF n
  <2> QED BY <2>1, <2>2, <2>3
<1>5. f[n] = g[n]
  <2>1. n + 1 \in Nat /\ n <= n + 1
    BY <1>1
  <2> HIDE DEF n
  <2> QED BY <1>1, <1>2, <1>3, <1>4, <2>1, RunsAgree
<1>6. f[n + 1] = f[n] \o c
  <2>1. n + 1 \in 1..(n + 1) /\ (n + 1) - 1 = n /\ n \in 0..(n + 1)
    BY <1>1
  <2>2. f[n] \in Seq(S) /\ f[n + 1] = Joining(more, S)[n + 1][f[n]]
    BY <1>2, <2>1 DEF Runs
  <2> QED BY <1>1, <2>1, <2>2 DEF Joining
<1> QED BY <1>2, <1>3, <1>5, <1>6 DEF more

-----------------------------------------------------------------------------
(* Sums that change at one place, and sums over the ids of a list. *)

\* The sum of the first amounts.
LEMMA TotalUpto ==
    ASSUME NEW amounts \in Seq(Nat)
    PROVE  /\ Total(SubSeq(amounts, 1, 0)) = 0 /\ SubSeq(amounts, 1, Len(amounts)) = amounts
           /\ \A n \in 0..Len(amounts) : Total(SubSeq(amounts, 1, n)) \in Nat
           /\ \A n \in 1..Len(amounts) :
                 Total(SubSeq(amounts, 1, n)) = Total(SubSeq(amounts, 1, n - 1)) + amounts[n]
<1>1. SubSeq(amounts, 1, 0) = <<>> /\ SubSeq(amounts, 1, Len(amounts)) = amounts
  OBVIOUS
<1>2. \A n \in 0..Len(amounts) : SubSeq(amounts, 1, n) \in Seq(Nat)
  OBVIOUS
<1>3. ASSUME NEW n \in 1..Len(amounts)
      PROVE  Total(SubSeq(amounts, 1, n)) = Total(SubSeq(amounts, 1, n - 1)) + amounts[n]
  <2>1. SubSeq(amounts, 1, n - 1) \in Seq(Nat) /\ amounts[n] \in Nat
    OBVIOUS
  <2>2. SubSeq(amounts, 1, n) = Append(SubSeq(amounts, 1, n - 1), amounts[n])
    OBVIOUS
  <2> QED BY <2>1, <2>2, TotalAppend
<1> QED BY <1>1, <1>2, <1>3, TotalNat

\* One amount that is larger makes the sum larger by as much.
LEMMA TotalPoint ==
    ASSUME NEW f \in Seq(Nat), NEW g \in Seq(Nat), Len(f) = Len(g),
           NEW k \in 1..Len(f), NEW v \in Nat, g[k] = f[k] + v,
           \A i \in 1..Len(f) : i # k => g[i] = f[i]
    PROVE  Total(g) = Total(f) + v
<1> DEFINE n == Len(f)
           F(i) == Total(SubSeq(f, 1, i))
           G(i) == Total(SubSeq(g, 1, i))
           T == {i \in Nat : i <= n => G(i) = IF i >= k THEN F(i) + v ELSE F(i)}
<1>a. n \in Nat /\ n = Len(g)
  OBVIOUS
<1>b. F(0) = 0 /\ F(n) = Total(f) /\ G(0) = 0 /\ G(n) = Total(g)
  BY TotalUpto
<1>c. \A i \in 0..n : F(i) \in Nat
  BY TotalUpto
<1>d. \A i \in 1..n : F(i) = F(i - 1) + f[i]
  BY TotalUpto
<1>e. \A i \in 1..n : G(i) = G(i - 1) + g[i]
  BY TotalUpto
<1>2. \A i \in 1..n : f[i] \in Nat /\ g[i] \in Nat
  OBVIOUS
<1>3. k \in 1..n
  OBVIOUS
<1>f. g[k] = f[k] + v /\ \A i \in 1..n : i # k => g[i] = f[i]
  OBVIOUS
<1> HIDE DEF n, F, G
<1>4. 0 \in T
  BY <1>b, <1>3
<1>5. ASSUME NEW i \in T \cap Nat PROVE i + 1 \in T
  <2>1. i + 1 \in Nat
    OBVIOUS
  <2>2. SUFFICES ASSUME i + 1 <= n
                 PROVE  G(i + 1) = IF i + 1 >= k THEN F(i + 1) + v ELSE F(i + 1)
    BY <2>1
  <2>3. G(i) = IF i >= k THEN F(i) + v ELSE F(i)
    BY <1>a, <2>2
  <2>4. i + 1 \in 1..n /\ (i + 1) - 1 = i /\ i \in 0..n
    BY <1>a, <2>2
  <2>5. /\ F(i + 1) = F(i) + f[i + 1] /\ G(i + 1) = G(i) + g[i + 1]
        /\ f[i + 1] \in Nat /\ g[i + 1] \in Nat /\ F(i) \in Nat
    BY <1>2, <1>c, <1>d, <1>e, <2>4
  <2> HIDE DEF T
  <2>6. CASE i + 1 = k
    <3>1. g[i + 1] = f[i + 1] + v
      BY <1>f, <2>6
    <3>2. ~ i >= k /\ i + 1 >= k
      BY <2>1, <2>6
    <3>3. G(i) = F(i)
      BY <2>3, <3>2
    <3>4. G(i + 1) = F(i + 1) + v
      BY <2>5, <3>1, <3>3
    <3> QED BY <3>2, <3>4
  <2>7. CASE i + 1 # k
    <3>1. g[i + 1] = f[i + 1]
      BY <1>f, <2>4, <2>7
    <3>2. k \in Nat
      BY <1>3, <1>a
    <3>3. i >= k <=> i + 1 >= k
      BY <2>1, <2>7, <3>2
    <3>4. CASE i >= k
      <4>1. G(i) = F(i) + v
        BY <2>3, <3>4
      <4>2. G(i + 1) = F(i + 1) + v
        BY <2>5, <3>1, <4>1
      <4> QED BY <3>3, <3>4, <4>2
    <3>5. CASE ~ i >= k
      <4>1. G(i) = F(i)
        BY <2>3, <3>5
      <4>2. G(i + 1) = F(i + 1)
        BY <2>5, <3>1, <4>1
      <4> QED BY <3>3, <3>5, <4>2
    <3> QED BY <3>4, <3>5
  <2> QED BY <2>6, <2>7
<1> HIDE DEF T
<1>6. n \in T
  BY <1>a, <1>4, <1>5, Induction
<1> QED BY <1>a, <1>b, <1>3, <1>6 DEF T

\* A sum of nothing but zeros.
LEMMA TotalZero ==
    ASSUME NEW f \in Seq(Nat), \A i \in 1..Len(f) : f[i] = 0
    PROVE  Total(f) = 0
<1> DEFINE n == Len(f)
           F(i) == Total(SubSeq(f, 1, i))
           T == {i \in Nat : i <= n => F(i) = 0}
<1>a. n \in Nat /\ F(0) = 0 /\ F(n) = Total(f)
  <2>1. F(0) = 0
    BY TotalUpto
  <2>2. F(n) = Total(f)
    BY TotalUpto
  <2> QED BY <2>1, <2>2
<1>1. \A i \in 1..n : F(i) = F(i - 1) + f[i]
  BY TotalUpto
<1>2. \A i \in 1..n : f[i] = 0
  OBVIOUS
<1> HIDE DEF n, F
<1>3. 0 \in T
  BY <1>a
<1>4. ASSUME NEW i \in T \cap Nat PROVE i + 1 \in T
  <2>1. i + 1 \in Nat
    OBVIOUS
  <2>2. SUFFICES ASSUME i + 1 <= n PROVE F(i + 1) = 0
    BY <2>1
  <2>3. F(i) = 0 /\ i + 1 \in 1..n /\ (i + 1) - 1 = i
    BY <1>a, <2>2
  <2> HIDE DEF T
  <2> QED BY <1>1, <1>2, <1>a, <2>3
<1> HIDE DEF T
<1>5. n \in T
  BY <1>a, <1>3, <1>4, Induction
<1> QED BY <1>a, <1>5 DEF T

\* What of the amounts an agent has seen: those whose ids are in S.
Of(S, amounts, sign) == [i \in 1..Len(amounts) |-> IF sign * i \in S THEN amounts[i] ELSE 0]

\* Kept where its signed place is in the set, an amount is added; elsewhere nothing is.
LEMMA OfFacts ==
    ASSUME NEW amounts \in Seq(Nat), NEW sign \in {1, -1}, NEW S
    PROVE  /\ Of(S, amounts, sign) \in Seq(Nat) /\ Len(Of(S, amounts, sign)) = Len(amounts)
           /\ \A i \in 1..Len(amounts) :
                 Of(S, amounts, sign)[i] = IF sign * i \in S THEN amounts[i] ELSE 0
           /\ (\A i \in 1..Len(amounts) : sign * i \notin S) => Total(Of(S, amounts, sign)) = 0
           /\ (\A i \in 1..Len(amounts) : sign * i \in S) => Of(S, amounts, sign) = amounts
<1> PICK n \in Nat : n = Len(amounts)
  OBVIOUS
<1>1. \A i \in 1..n : amounts[i] \in Nat
  OBVIOUS
<1>2. PICK o : o = Of(S, amounts, sign)
  OBVIOUS
<1>3. o = [i \in 1..n |-> IF sign * i \in S THEN amounts[i] ELSE 0]
  BY <1>2 DEF Of
<1>4. o \in Seq(Nat) /\ Len(o) = n
  <2>1. \A i \in 1..n : (IF sign * i \in S THEN amounts[i] ELSE 0) \in Nat
    BY <1>1
  <2> QED BY <1>3, <2>1
<1>5. \A i \in 1..n : o[i] = IF sign * i \in S THEN amounts[i] ELSE 0
  BY <1>3
<1>6. (\A i \in 1..n : sign * i \notin S) => Total(o) = 0
  <2>1. SUFFICES ASSUME \A i \in 1..n : sign * i \notin S PROVE Total(o) = 0
    OBVIOUS
  <2>2. \A i \in 1..Len(o) : o[i] = 0
    BY <1>4, <1>5, <2>1
  <2> QED BY <1>4, <2>2, TotalZero
<1>7. (\A i \in 1..n : sign * i \in S) => o = amounts
  <2>1. SUFFICES ASSUME \A i \in 1..n : sign * i \in S PROVE o = amounts
    OBVIOUS
  <2>2. \A i \in 1..n : o[i] = amounts[i]
    BY <1>5, <2>1
  <2> QED BY <1>4, <2>2, SeqEqual
<1> QED BY <1>2, <1>4, <1>5, <1>6, <1>7

\* The amounts of the refunds with these ids, each once: of those of the one list
\* and of those of the other, whose ids are negative.
LEMMA SumOver ==
    ASSUME NEW f \in Seq(Nat), NEW g \in Seq(Nat), NEW q \in Seq(Int), NEW am \in Seq(Nat),
           Len(am) = Len(q), IsInjective(q),
           \A i \in 1..Len(q) : \/ q[i] \in 1..Len(f) /\ am[i] = f[q[i]]
                                \/ -q[i] \in 1..Len(g) /\ am[i] = g[-q[i]]
    PROVE  Total(am) = Total(Of(ToSet(q), f, 1)) + Total(Of(ToSet(q), g, -1))
<1> DEFINE n == Len(q)
           Q(i) == {q[j] : j \in 1..i}
           A(i) == Total(SubSeq(am, 1, i))
           F(i) == Of(Q(i), f, 1)
           G(i) == Of(Q(i), g, -1)
           T == {i \in Nat : i <= n => A(i) = Total(F(i)) + Total(G(i))}
<1>1. n \in Nat /\ n = Len(am)
  OBVIOUS
<1>2. A(0) = 0 /\ A(n) = Total(am)
  BY TotalUpto
<1>3. \A i \in 1..n : A(i) = A(i - 1) + am[i]
  BY TotalUpto
<1>4. Q(n) = ToSet(q) /\ Q(0) = {}
  <2>1. DOMAIN q = 1..n
    OBVIOUS
  <2>2. Q(n) = ToSet(q)
    BY <2>1 DEF ToSet
  <2>3. Q(0) = {}
    OBVIOUS
  <2> QED BY <2>2, <2>3
<1>5. \A i \in 1..n : Q(i) = Q(i - 1) \cup {q[i]} /\ q[i] \notin Q(i - 1)
  <2> TAKE i \in 1..n
  <2>1. i \in Nat /\ DOMAIN q = 1..n
    BY <1>1
  <2>2. 1..i = (1..(i - 1)) \cup {i}
    BY <2>1
  <2>3. Q(i) = Q(i - 1) \cup {q[i]}
    BY <2>2
  <2>4. \A j \in 1..(i - 1) : q[j] # q[i]
    <3> TAKE j \in 1..(i - 1)
    <3>1. j \in DOMAIN q /\ i \in DOMAIN q /\ j # i
      BY <1>1, <2>1
    <3> QED BY <3>1 DEF IsInjective
  <2> QED BY <2>3, <2>4
<1>6. \A i \in 1..n : \/ q[i] \in 1..Len(f) /\ am[i] = f[q[i]]
                      \/ -q[i] \in 1..Len(g) /\ am[i] = g[-q[i]]
  OBVIOUS
<1>7. \A i \in 1..n : q[i] \in Int
  OBVIOUS
<1>8. \A i : /\ F(i) \in Seq(Nat) /\ Len(F(i)) = Len(f)
             /\ \A j \in 1..Len(f) : F(i)[j] = IF 1 * j \in Q(i) THEN f[j] ELSE 0
  <2> TAKE i
  <2> HIDE DEF Q
  <2>1. 1 \in {1, -1}
    OBVIOUS
  <2> QED BY <2>1, OfFacts
<1>9. \A i : /\ G(i) \in Seq(Nat) /\ Len(G(i)) = Len(g)
             /\ \A j \in 1..Len(g) : G(i)[j] = IF (-1) * j \in Q(i) THEN g[j] ELSE 0
  <2> TAKE i
  <2> HIDE DEF Q
  <2>1. -1 \in {1, -1}
    OBVIOUS
  <2> QED BY <2>1, OfFacts
<1>10. Total(F(0)) = 0 /\ Total(G(0)) = 0
  <2>1. \A j \in 1..Len(f) : 1 * j \notin Q(0)
    BY <1>4
  <2>2. \A j \in 1..Len(g) : (-1) * j \notin Q(0)
    BY <1>4
  <2> QED BY <2>1, <2>2, OfFacts
<1>f. /\ Len(f) \in Nat /\ Len(g) \in Nat
      /\ \A j \in 1..Len(f) : f[j] \in Nat
      /\ \A j \in 1..Len(g) : g[j] \in Nat
  OBVIOUS
<1> HIDE DEF n, Q, A, F, G
<1>11. 0 \in T
  BY <1>2, <1>10
<1>12. ASSUME NEW i \in T \cap Nat PROVE i + 1 \in T
  <2>1. i + 1 \in Nat
    OBVIOUS
  <2>2. SUFFICES ASSUME i + 1 <= n
                 PROVE  A(i + 1) = Total(F(i + 1)) + Total(G(i + 1))
    BY <2>1
  <2>3. i + 1 \in 1..n /\ (i + 1) - 1 = i
    BY <1>1, <2>2
  <2>4. A(i) = Total(F(i)) + Total(G(i))
    BY <1>1, <2>2
  <2> HIDE DEF T
  <2>5. A(i + 1) = A(i) + am[i + 1]
    BY <1>3, <2>3
  <2>6. PICK x : x = q[i + 1]
    OBVIOUS
  <2>7. x \in Int /\ Q(i + 1) = Q(i) \cup {x} /\ x \notin Q(i)
    BY <1>5, <1>7, <2>3, <2>6
  <2>8. Total(F(i)) \in Nat /\ Total(G(i)) \in Nat
    BY <1>8, <1>9, TotalNat
  <2>9. CASE x \in 1..Len(f) /\ am[i + 1] = f[x]
    <3>1. G(i + 1) = G(i)
      <4>1. \A j \in 1..Len(g) : (-1) * j # x
        BY <1>f, <2>9
      <4>2. \A j \in 1..Len(g) : G(i + 1)[j] = G(i)[j]
        <5> TAKE j \in 1..Len(g)
        <5>1. (-1) * j \in Q(i + 1) <=> (-1) * j \in Q(i)
          BY <2>7, <4>1
        <5> QED BY <1>9, <5>1
      <4> QED BY <1>9, <4>2, SeqEqual
    <3>2. Total(F(i + 1)) = Total(F(i)) + f[x]
      <4>1. F(i)[x] = 0 /\ F(i + 1)[x] = f[x] /\ f[x] \in Nat
        <5>1. 1 * x = x /\ x \in Q(i + 1) /\ x \notin Q(i)
          BY <2>7
        <5> QED BY <1>8, <1>f, <2>9, <5>1
      <4>2. \A j \in 1..Len(f) : j # x => F(i + 1)[j] = F(i)[j]
        <5> TAKE j \in 1..Len(f)
        <5>1. SUFFICES ASSUME j # x PROVE F(i + 1)[j] = F(i)[j]
          OBVIOUS
        <5>2. 1 * j \in Q(i + 1) <=> 1 * j \in Q(i)
          BY <2>7, <5>1
        <5> QED BY <1>8, <5>2
      <4>3. F(i + 1)[x] = F(i)[x] + f[x]
        BY <4>1
      <4>4. /\ F(i) \in Seq(Nat) /\ Len(F(i)) = Len(f)
            /\ F(i + 1) \in Seq(Nat) /\ Len(F(i + 1)) = Len(f)
        BY ONLY <1>8, Zenon
      <4>5. x \in 1..Len(f)
        BY ONLY <2>9
      <4> QED BY ONLY <4>1, <4>2, <4>3, <4>4, <4>5, TotalPoint, SMTT(30)
    <3> QED BY <2>4, <2>5, <2>8, <2>9, <3>1, <3>2, <1>f
  <2>10. CASE -x \in 1..Len(g) /\ am[i + 1] = g[-x]
    <3>1. F(i + 1) = F(i)
      <4>1. \A j \in 1..Len(f) : 1 * j # x
        BY <1>f, <2>7, <2>10
      <4>2. \A j \in 1..Len(f) : F(i + 1)[j] = F(i)[j]
        <5> TAKE j \in 1..Len(f)
        <5>1. 1 * j \in Q(i + 1) <=> 1 * j \in Q(i)
          BY <2>7, <4>1
        <5> QED BY <1>8, <5>1
      <4> QED BY <1>8, <4>2, SeqEqual
    <3>2. Total(G(i + 1)) = Total(G(i)) + g[-x]
      <4> PICK y : y = -x
        OBVIOUS
      <4>1. G(i)[y] = 0 /\ G(i + 1)[y] = g[y] /\ g[y] \in Nat
        <5>1. (-1) * y = x /\ x \in Q(i + 1) /\ x \notin Q(i)
          BY <2>7
        <5> QED BY <1>9, <1>f, <2>10, <5>1
      <4>2. \A j \in 1..Len(g) : j # y => G(i + 1)[j] = G(i)[j]
        <5> TAKE j \in 1..Len(g)
        <5>1. SUFFICES ASSUME j # y PROVE G(i + 1)[j] = G(i)[j]
          OBVIOUS
        <5>2. (-1) * j # x
          BY <1>f, <2>7, <5>1
        <5>3. (-1) * j \in Q(i + 1) <=> (-1) * j \in Q(i)
          BY <2>7, <5>2
        <5> QED BY <1>9, <5>3
      <4>3. G(i + 1)[y] = G(i)[y] + g[y]
        BY <4>1
      <4>4. /\ G(i) \in Seq(Nat) /\ Len(G(i)) = Len(g)
            /\ G(i + 1) \in Seq(Nat) /\ Len(G(i + 1)) = Len(g)
        BY ONLY <1>9, Zenon
      <4>5. y \in 1..Len(g)
        BY ONLY <2>10, y = -x
      <4>6. Total(G(i + 1)) = Total(G(i)) + g[y]
        BY ONLY <4>1, <4>2, <4>3, <4>4, <4>5, TotalPoint, SMTT(30)
      <4> QED BY ONLY <4>6, y = -x
    <3> QED BY <2>4, <2>5, <2>8, <2>10, <3>1, <3>2, <1>f
  <2> QED BY <1>6, <2>3, <2>6, <2>9, <2>10
<1> HIDE DEF T
<1>13. n \in T
  BY <1>1, <1>11, <1>12, Induction
<1>14. A(n) = Total(F(n)) + Total(G(n))
  BY <1>1, <1>13 DEF T
<1> QED BY <1>2, <1>4, <1>14 DEF F, G

-----------------------------------------------------------------------------
(* What Stripe has and what the run faked, and the operators of the pages. *)

Refunds == Seq([amount : Nat, posted : BOOLEAN, named : BOOLEAN, saw : Nat, stripe : Nat,
               passed : BOOLEAN])

Filed == stripe \in Seq(Nat) /\ minted \in Refunds

\* The smaller of two numbers.
LEMMA MinOfTwo ==
    ASSUME NEW a \in Int, NEW b \in Int
    PROVE  Min({a, b}) = IF a <= b THEN a ELSE b
<1>1. Min({a, b}) \in {a, b} /\ \A y \in {a, b} : Min({a, b}) <= y
  <2>1. \E x \in {a, b} : \A y \in {a, b} : x <= y
    OBVIOUS
  <2> QED BY <2>1 DEF Min
<1> QED BY <1>1

\* The steps of the refunds that pass.
Passing(filter) ==
    [i \in 1..Len(minted) |->
        [a \in Seq(Nat) |-> IF Passes(minted[i], filter) = "yes" THEN <<i>> \o a ELSE a]]

\* What is listed of the faked refunds is built a refund at a time.
LEMMA MintedRuns ==
    ASSUME Filed, NEW filter
    PROVE  \E g : /\ Runs(g, Seq(Nat), Len(minted), <<>>, Passing(filter))
                  /\ Minted(filter) = g[Len(minted)]
<1> DEFINE among[i \in 0..Len(minted)] ==
            IF i = 0 THEN <<>>
            ELSE IF Passes(minted[i], filter) = "yes" THEN <<i>> \o among[i - 1]
            ELSE among[i - 1]
<1>0. Len(minted) \in Nat /\ <<>> \in Seq(Nat)
  BY DEF Filed, Refunds
<1>p. Passing(filter) \in [1..Len(minted) -> [Seq(Nat) -> Seq(Nat)]]
  <2>1. ASSUME NEW i \in 1..Len(minted), NEW a \in Seq(Nat)
        PROVE  (IF Passes(minted[i], filter) = "yes" THEN <<i>> \o a ELSE a) \in Seq(Nat)
    <3>1. <<i>> \in Seq(Nat)
      BY <1>0
    <3> QED BY <3>1
  <2> QED BY <2>1 DEF Passing
<1>1. PICK g : Runs(g, Seq(Nat), Len(minted), <<>>, Passing(filter))
  BY <1>0, <1>p, Recursion
<1>2. ASSUME NEW i \in 1..Len(minted)
      PROVE  g[i] = IF Passes(minted[i], filter) = "yes" THEN <<i>> \o g[i - 1] ELSE g[i - 1]
  <2>1. i - 1 \in 0..Len(minted)
    BY <1>0
  <2>2. g[i - 1] \in Seq(Nat)
    BY <1>1, <2>1 DEF Runs
  <2>3. g[i] = Passing(filter)[i][g[i - 1]]
    BY <1>1 DEF Runs
  <2> QED BY <2>2, <2>3 DEF Passing
<1>3. g[0] = <<>> /\ g \in [0..Len(minted) -> Seq(Nat)]
  BY <1>1 DEF Runs
<1>4. g = [i \in 0..Len(minted) |->
            IF i = 0 THEN <<>>
            ELSE IF Passes(minted[i], filter) = "yes" THEN <<i>> \o g[i - 1]
            ELSE g[i - 1]]
  <2>1. \A i \in 0..Len(minted) : i # 0 => i \in 1..Len(minted)
    BY <1>0
  <2> QED BY <1>2, <1>3, <2>1
<1>5. among = [i \in 0..Len(minted) |->
            IF i = 0 THEN <<>>
            ELSE IF Passes(minted[i], filter) = "yes" THEN <<i>> \o among[i - 1]
            ELSE among[i - 1]]
  BY <1>4
<1>6. Minted(filter) = among[Len(minted)]
  BY DEF Minted
<1> HIDE DEF among
<1> DEFINE T == {m \in Nat : m <= Len(minted) => among[m] = g[m]}
<1>7. Len(minted) \in T
  <2>1. 0 \in T
    <3>1. 0 \in 0..Len(minted)
      BY <1>0
    <3>2. among[0] = IF 0 = 0 THEN <<>>
                     ELSE IF Passes(minted[0], filter) = "yes" THEN <<0>> \o among[0 - 1]
                     ELSE among[0 - 1]
      BY <1>5, <3>1
    <3>3. among[0] = g[0]
      BY <1>3, <3>2
    <3> QED BY <3>3
  <2>2. ASSUME NEW m \in T \cap Nat PROVE m + 1 \in T
    <3>1. m + 1 \in Nat
      OBVIOUS
    <3>2. SUFFICES ASSUME m + 1 <= Len(minted) PROVE among[m + 1] = g[m + 1]
      BY <3>1
    <3>3. m + 1 \in 0..Len(minted) /\ m + 1 # 0 /\ (m + 1) - 1 = m /\ m + 1 \in 1..Len(minted)
      BY <1>0, <3>2
    <3>4. among[m] = g[m]
      BY <1>0, <3>2
    <3> HIDE DEF T
    <3>5. among[m + 1] = IF Passes(minted[m + 1], filter) = "yes" THEN <<m + 1>> \o among[m] ELSE among[m]
      BY <1>5, <3>3
    <3>6. g[m + 1] = IF Passes(minted[m + 1], filter) = "yes" THEN <<m + 1>> \o g[m] ELSE g[m]
      BY <1>2, <3>3
    <3> QED BY <3>4, <3>5, <3>6
  <2> HIDE DEF T
  <2> QED BY <2>1, <2>2, <1>0, Induction
<1> QED BY <1>0, <1>1, <1>6, <1>7

\* q goes down through the refunds up to n that pass.
GoesDown(q, n, filter) ==
    /\ q \in Seq(Nat)
    /\ \A i, j \in 1..Len(q) : i < j => q[j] < q[i]
    /\ \A i \in 1..Len(q) : q[i] \in 1..n /\ Passes(minted[q[i]], filter) = "yes"
    /\ \A k \in 1..n : Passes(minted[k], filter) = "yes" => \E i \in 1..Len(q) : q[i] = k

\* It is those that pass, newest first.
LEMMA MintedFacts ==
    ASSUME Filed, NEW filter
    PROVE  GoesDown(Minted(filter), Len(minted), filter)
<1>0. Len(minted) \in Nat
  BY DEF Filed, Refunds
<1>1. PICK g : /\ Runs(g, Seq(Nat), Len(minted), <<>>, Passing(filter))
               /\ Minted(filter) = g[Len(minted)]
  BY MintedRuns
<1> DEFINE T == {m \in Nat : m <= Len(minted) => GoesDown(g[m], m, filter)}
<1>2. 0 \in T
  <2>1. g[0] = <<>>
    BY <1>1 DEF Runs
  <2>2. GoesDown(<<>>, 0, filter)
    <3>1. <<>> \in Seq(Nat) /\ Len(<<>>) = 0
      OBVIOUS
    <3> QED BY <3>1 DEF GoesDown
  <2> QED BY <2>1, <2>2
<1>3. ASSUME NEW m \in T \cap Nat PROVE m + 1 \in T
  <2>1. m + 1 \in Nat
    OBVIOUS
  <2>2. SUFFICES ASSUME m + 1 <= Len(minted) PROVE GoesDown(g[m + 1], m + 1, filter)
    BY <2>1
  <2>3. GoesDown(g[m], m, filter)
    BY <1>0, <2>2
  <2> HIDE DEF T
  <2>4. PICK q : q = g[m]
    OBVIOUS
  <2>q. q \in Seq(Nat) /\ Len(q) \in Nat
    BY <2>3, <2>4 DEF GoesDown
  <2>5. g[m + 1] = IF Passes(minted[m + 1], filter) = "yes" THEN <<m + 1>> \o q ELSE q
    <3>1. m + 1 \in 1..Len(minted) /\ (m + 1) - 1 = m
      BY <1>0, <2>2
    <3>2. g[m + 1] = Passing(filter)[m + 1][q]
      BY <1>1, <2>4, <3>1 DEF Runs
    <3> QED BY <2>q, <3>1, <3>2 DEF Passing
  <2>6. CASE Passes(minted[m + 1], filter) = "yes"
    <3>1. PICK p : p = <<m + 1>> \o q
      OBVIOUS
    <3>2. /\ p \in Seq(Nat) /\ Len(p) = Len(q) + 1 /\ p[1] = m + 1
          /\ \A i \in 2..Len(p) : p[i] = q[i - 1] /\ i - 1 \in 1..Len(q)
          /\ \A i \in 1..Len(q) : p[i + 1] = q[i] /\ i + 1 \in 1..Len(p)
      <4>1. <<m + 1>> \in Seq(Nat) /\ Len(<<m + 1>>) = 1
        BY <2>1
      <4> QED BY <2>q, <3>1, <4>1
    <3>3. ASSUME NEW i \in 1..Len(p), NEW j \in 1..Len(p), i < j PROVE p[j] < p[i]
      <4>1. j \in 2..Len(p) /\ q[j - 1] \in 1..m
        BY <2>3, <2>4, <2>q, <3>2, <3>3 DEF GoesDown
      <4>2. CASE i = 1
        BY <3>2, <4>1, <4>2
      <4>3. CASE i # 1
        <5>1. i \in 2..Len(p)
          BY <2>q, <3>2, <4>3
        <5>2. i - 1 \in 1..Len(q) /\ j - 1 \in 1..Len(q) /\ i - 1 < j - 1
          BY <3>2, <3>3, <4>1, <5>1
        <5>3. q[j - 1] < q[i - 1]
          BY <2>3, <2>4, <5>2 DEF GoesDown
        <5> QED BY <3>2, <4>1, <5>1, <5>3
      <4> QED BY <4>2, <4>3
    <3>4. ASSUME NEW i \in 1..Len(p)
          PROVE  p[i] \in 1..(m + 1) /\ Passes(minted[p[i]], filter) = "yes"
      <4>1. CASE i = 1
        BY <2>1, <2>6, <3>2, <4>1
      <4>2. CASE i # 1
        <5>1. i \in 2..Len(p)
          BY <2>q, <3>2, <4>2
        <5>2. p[i] = q[i - 1] /\ q[i - 1] \in 1..m /\ Passes(minted[q[i - 1]], filter) = "yes"
          BY <2>3, <2>4, <3>2, <5>1 DEF GoesDown
        <5> QED BY <2>1, <5>2
      <4> QED BY <4>1, <4>2
    <3>5. ASSUME NEW k \in 1..(m + 1), Passes(minted[k], filter) = "yes"
          PROVE  \E i \in 1..Len(p) : p[i] = k
      <4>1. CASE k = m + 1
        BY <2>q, <3>2, <4>1
      <4>2. CASE k # m + 1
        <5>1. k \in 1..m
          BY <4>2
        <5>2. PICK i \in 1..Len(q) : q[i] = k
          BY <2>3, <2>4, <3>5, <5>1 DEF GoesDown
        <5> QED BY <3>2, <5>2
      <4> QED BY <4>1, <4>2
    <3> QED BY <2>5, <2>6, <3>1, <3>2, <3>3, <3>4, <3>5 DEF GoesDown
  <2>7. CASE Passes(minted[m + 1], filter) # "yes"
    <3>1. \A i \in 1..Len(q) : q[i] \in 1..(m + 1)
      BY <2>3, <2>4 DEF GoesDown
    <3>2. \A k \in 1..(m + 1) : Passes(minted[k], filter) = "yes" => k \in 1..m
      BY <2>7
    <3> QED BY <2>3, <2>4, <2>5, <2>7, <3>1, <3>2 DEF GoesDown
  <2> QED BY <2>6, <2>7
<1> HIDE DEF T
<1>4. Len(minted) \in T
  BY <1>0, <1>2, <1>3, Induction
<1> QED BY <1>0, <1>1, <1>4 DEF T

-----------------------------------------------------------------------------
(* The refunds fit the charge. *)

\* Constants, and a Charge that is a number.
LEMMA Numbers ==
    /\ Charged \in Nat /\ FixtureAmount \in Nat /\ Amounts \subseteq Nat /\ NoAmount \in Nat
    /\ Limits \subseteq Nat \ {0}
BY StripeAssumption DEF NoAmount

\* The refunds of a charge are numbers.
LEMMA OfChargeFacts ==
    ASSUME NEW these \in Refunds
    PROVE  /\ OfCharge(these) \in Seq(Nat) /\ Len(OfCharge(these)) = Len(these)
           /\ \A i \in 1..Len(these) :
                 OfCharge(these)[i] = IF these[i].named THEN these[i].amount ELSE 0
<1> PICK n \in Nat : n = Len(these) /\ DOMAIN these = 1..n
  BY DEF Refunds
<1>1. \A i \in 1..n : these[i].amount \in Nat
  <2> TAKE i \in 1..n
  <2> PICK R : R = [amount : Nat, posted : BOOLEAN, named : BOOLEAN, saw : Nat, stripe : Nat,
                    passed : BOOLEAN]
    OBVIOUS
  <2>1. these \in Seq(R)
    BY DEF Refunds
  <2>2. Len(these) = n
    OBVIOUS
  <2>3. these[i] \in R
    BY ONLY <2>1, <2>2, i \in 1..n, n \in Nat
  <2> QED BY <2>3
<1>2. PICK o : o = OfCharge(these)
  OBVIOUS
<1>3. o = [i \in 1..n |-> IF these[i].named THEN these[i].amount ELSE 0]
  BY <1>2 DEF OfCharge
<1>4. \A i \in 1..n : (IF these[i].named THEN these[i].amount ELSE 0) \in Nat
  BY <1>1
<1>5. o \in Seq(Nat) /\ Len(o) = n
  BY <1>3, <1>4
<1>6. \A i \in 1..n : o[i] = IF these[i].named THEN these[i].amount ELSE 0
  BY <1>3
<1> QED BY <1>2, <1>5, <1>6

\* So are the charge and its sums.
LEMMA ChargeFacts ==
    ASSUME Filed, NEW these \in Refunds
    PROVE  /\ Charge(these).amount_refunded = Total(stripe) + Total(OfCharge(these))
           /\ Charge(these).amount_refunded \in Nat
           /\ Total(stripe) \in Nat /\ Total(OfCharge(these)) \in Nat
<1>1. Total(stripe) \in Nat /\ Total(OfCharge(these)) \in Nat
  BY OfChargeFacts, TotalNat DEF Filed
<1> QED BY <1>1 DEF Charge

\* The calls under way, and what the check of one has settled for it.
CallSet == [pc : {"none", "planned", "answered"}, amount : Nat, named : BOOLEAN, saw : Nat,
            stripe : Nat, passed : BOOLEAN]

CallTyped == call \in [Calls -> CallSet]

FitsCharge(taken, amount, filed) == taken + amount + Total(OfCharge(filed)) <= Charged

CallFits(v) ==
    /\ v.saw <= Len(minted)
    /\ v.passed /\ v.amount # NoAmount => FitsCharge(v.stripe, v.amount, SubSeq(minted, 1, v.saw))

CallsFit == \A c \in Calls : CallFits(call[c])

SawWhatIsFiled == \A i \in DOMAIN minted : minted[i].saw \in 0..Len(minted)

\* What no call is, is a call.
LEMMA NoCallFits == ASSUME Filed PROVE NoCall \in CallSet /\ CallFits(NoCall)
<1>1. Len(minted) \in Nat
  BY DEF Filed, Refunds
<1>2. NoCall \in CallSet
  BY DEF NoCall, CallSet, NoAmount
<1>3. NoCall.saw = 0 /\ ~NoCall.passed
  BY DEF NoCall
<1> QED BY <1>1, <1>2, <1>3 DEF CallFits

\* A call that changes leaves the others as they are.
LEMMA CallChanges ==
    ASSUME CallTyped, CallsFit, NEW c \in Calls, NEW v \in CallSet, CallFits(v),
           call' = [call EXCEPT ![c] = v], minted' = minted
    PROVE  CallTyped' /\ CallsFit'
<1>1. CallTyped'
  BY DEF CallTyped
<1>2. \A d \in Calls : CallFits(call'[d])
  <2> TAKE d \in Calls
  <2>1. call'[d] = IF d = c THEN v ELSE call[d]
    BY DEF CallTyped
  <2> QED BY <2>1 DEF CallsFit
<1>3. \A d \in Calls : CallFits(call[d])'
  BY <1>2 DEF CallFits
<1> QED BY <1>1, <1>3 DEF CallsFit

\* What a call saw is there still when one more refund is filed.
LEMMA SawStays ==
    ASSUME minted \in Refunds, NEW x, minted' = Append(minted, x), NEW saw \in 0..Len(minted)
    PROVE  SubSeq(minted', 1, saw) = SubSeq(minted, 1, saw) /\ SubSeq(minted, 1, saw) \in Refunds
<1> PICK R : Refunds = Seq(R)
  BY DEF Refunds
<1> QED OBVIOUS

\* A call that is planned.
LEMMA BeginFits ==
    ASSUME Filed, CallTyped, CallsFit, NEW c \in Calls,
           NEW amount \in Amounts \cup {NoAmount}, NEW named \in BOOLEAN,
           BeginRefund(c, amount, named)
    PROVE  CallTyped' /\ CallsFit'
<1> PICK v : v = [pc |-> "planned", amount |-> amount, named |-> named, saw |-> Len(minted),
                  stripe |-> 0, passed |-> FALSE]
  OBVIOUS
<1>1. Len(minted) \in Nat
  BY DEF Filed, Refunds
<1>2. v \in CallSet
  BY <1>1, Numbers DEF CallSet
<1>3. v.saw = Len(minted) /\ ~v.passed
  OBVIOUS
<1>4. CallFits(v)
  BY <1>1, <1>3 DEF CallFits
<1>5. call' = [call EXCEPT ![c] = v] /\ minted' = minted
  BY DEF BeginRefund
<1> QED BY <1>2, <1>4, <1>5, CallChanges

\* A call whose check has settled it: what passes fits what the call saw.
LEMMA CheckFits ==
    ASSUME Filed, CallTyped, CallsFit, NEW c \in Calls, CheckRefund(c)
    PROVE  CallTyped' /\ CallsFit'
<1> PICK it : it = call[c]
  OBVIOUS
<1>0. it \in CallSet /\ CallFits(it) /\ minted' = minted
  BY DEF CallTyped, CallsFit, CheckRefund
<1>n. Len(minted) \in Nat /\ minted \in Refunds
  BY DEF Filed, Refunds
<1>f. it.saw \in 0..Len(minted) /\ it.amount \in Nat
  BY <1>0, <1>n DEF CallSet, CallFits
<1> PICK saw : saw = SubSeq(minted, 1, it.saw)
  OBVIOUS
<1>s. saw \in Refunds
  <2> PICK R : Refunds = Seq(R)
    BY DEF Refunds
  <2> QED BY <1>f, <1>n
<1>1. CASE call' = [call EXCEPT ![c].pc = "answered"]
  <2> PICK v : v = [it EXCEPT !.pc = "answered"]
    OBVIOUS
  <2>1. v \in CallSet /\ v.saw = it.saw /\ v.amount = it.amount /\ v.stripe = it.stripe
    BY <1>0 DEF CallSet
  <2>2. v.passed = it.passed
    BY <1>0 DEF CallSet
  <2>3. CallFits(v)
    BY <1>0, <2>1, <2>2 DEF CallFits
  <2>4. call' = [call EXCEPT ![c] = v]
    BY <1>1
  <2> QED BY <1>0, <2>1, <2>3, <2>4, CallChanges
<1>2. CASE call' = [call EXCEPT ![c] = NoCall]
  BY <1>0, <1>2, NoCallFits, CallChanges
<1>3. CASE /\ ~Refused(it.amount, saw)
           /\ call' = [call EXCEPT ![c].pc = "answered", ![c].passed = TRUE,
                                   ![c].stripe = Total(stripe)]
  <2> PICK t : t = Total(stripe)
    OBVIOUS
  <2> PICK v : v = [it EXCEPT !.pc = "answered", !.passed = TRUE, !.stripe = t]
    OBVIOUS
  <2>0. t \in Nat /\ Charge(saw).amount_refunded = t + Total(OfCharge(saw))
        /\ Total(OfCharge(saw)) \in Nat
    BY <1>s, ChargeFacts
  <2>1. v \in CallSet /\ v.saw = it.saw /\ v.amount = it.amount /\ v.stripe = t
    BY <1>0, <2>0 DEF CallSet
  <2>2. ASSUME it.amount # NoAmount PROVE FitsCharge(t, it.amount, saw)
    <3>1. ~ (it.amount > Charged - Charge(saw).amount_refunded)
      BY <1>3, <2>2 DEF Refused
    <3> QED BY <1>f, <2>0, <3>1, Numbers DEF FitsCharge
  <2>3. CallFits(v)
    BY <1>0, <2>1, <2>2 DEF CallFits
  <2>4. call' = [call EXCEPT ![c] = v]
    BY <1>3
  <2> QED BY <1>0, <2>1, <2>3, <2>4, CallChanges
<1> QED BY <1>1, <1>2, <1>3 DEF CheckRefund

\* A refund that is filed: it fits what was left when its call was planned.
LEMMA FileFits ==
    ASSUME Filed, CallTyped, CallsFit, RefundsFitTheCharge, SawWhatIsFiled,
           NEW c \in Calls,
           NEW x, x = [amount |-> IF call[c].amount = NoAmount THEN FixtureAmount ELSE call[c].amount,
                       posted |-> call[c].amount # NoAmount, named |-> call[c].named,
                       saw |-> call[c].saw, stripe |-> call[c].stripe,
                       passed |-> call[c].passed],
           minted' = Append(minted, x), stripe' = stripe, call' = [call EXCEPT ![c] = NoCall]
    PROVE  Filed' /\ CallTyped' /\ CallsFit' /\ SawWhatIsFiled' /\ RefundsFitTheCharge'
<1> PICK it : it = call[c]
  OBVIOUS
<1>0. it \in CallSet /\ CallFits(it)
  BY DEF CallTyped, CallsFit
<1>1. /\ it.amount \in Nat /\ it.named \in BOOLEAN /\ it.saw \in Nat /\ it.stripe \in Nat
      /\ it.passed \in BOOLEAN
  BY <1>0 DEF CallSet
<1> PICK n \in Nat : n = Len(minted)
  BY DEF Filed, Refunds
<1>2. Filed'
  <2>1. x \in [amount : Nat, posted : BOOLEAN, named : BOOLEAN, saw : Nat, stripe : Nat,
               passed : BOOLEAN]
    BY <1>1, Numbers
  <2> QED BY <2>1 DEF Filed, Refunds
<1>3. DOMAIN minted' = 1..(n + 1) /\ minted'[n + 1] = x /\ \A i \in 1..n : minted'[i] = minted[i]
  BY DEF Filed, Refunds
<1>4. Len(minted') = n + 1 /\ minted \in Refunds
  BY DEF Filed, Refunds
<1>5. \A saw \in 0..n : SubSeq(minted', 1, saw) = SubSeq(minted, 1, saw)
  BY <1>4, SawStays
<1>6. CallTyped' /\ CallsFit'
  <2>1. CallTyped'
    BY NoCallFits DEF CallTyped
  <2>2. ASSUME NEW v \in CallSet, CallFits(v)
        PROVE  /\ v.saw <= Len(minted')
               /\ v.passed /\ v.amount # NoAmount
                     => FitsCharge(v.stripe, v.amount, SubSeq(minted', 1, v.saw))
    <3>1. v.saw \in 0..n
      BY <2>2 DEF CallSet, CallFits
    <3>2. v.passed /\ v.amount # NoAmount => FitsCharge(v.stripe, v.amount, SubSeq(minted, 1, v.saw))
      BY <2>2 DEF CallFits
    <3>3. v.saw <= Len(minted') /\ SubSeq(minted', 1, v.saw) = SubSeq(minted, 1, v.saw)
      BY <1>4, <1>5, <3>1
    <3> QED BY <3>2, <3>3, Zenon
  <2>3. ASSUME NEW d \in Calls PROVE CallFits(call[d])'
    <3> PICK v : v = call'[d]
      OBVIOUS
    <3>1. v = IF d = c THEN NoCall ELSE call[d]
      BY DEF CallTyped
    <3>2. v \in CallSet /\ CallFits(v)
      BY <3>1, NoCallFits DEF CallTyped, CallsFit
    <3>3. /\ v.saw <= Len(minted')
          /\ v.passed /\ v.amount # NoAmount
                => FitsCharge(v.stripe, v.amount, SubSeq(minted', 1, v.saw))
      BY <2>2, <3>2
    <3> QED BY <3>3 DEF CallFits, FitsCharge
  <2> QED BY <2>1, <2>3 DEF CallsFit
<1>7. ASSUME NEW i \in 1..(n + 1), minted'[i].passed, minted'[i].posted
      PROVE  FitsCharge(minted'[i].stripe, minted'[i].amount, SubSeq(minted', 1, minted'[i].saw))
  <2>1. CASE i = n + 1
    <3>0. x.passed /\ x.posted
      BY <1>3, <1>7, <2>1
    <3>1. it.passed /\ it.amount # NoAmount
      BY <3>0
    <3>2. x.amount = it.amount /\ x.stripe = it.stripe /\ x.saw = it.saw
      BY <3>1
    <3>3. FitsCharge(it.stripe, it.amount, SubSeq(minted, 1, it.saw)) /\ it.saw <= n
      BY <1>0, <3>1 DEF CallFits
    <3>4. SubSeq(minted', 1, it.saw) = SubSeq(minted, 1, it.saw)
      BY <1>1, <1>5, <3>3
    <3> QED BY <1>3, <2>1, <3>2, <3>3, <3>4
  <2>2. CASE i \in 1..n
    <3>1. minted'[i] = minted[i] /\ i \in DOMAIN minted
      BY <1>3, <2>2 DEF Filed, Refunds
    <3>2. FitsCharge(minted[i].stripe, minted[i].amount, SubSeq(minted, 1, minted[i].saw))
      BY <1>7, <3>1 DEF RefundsFitTheCharge, FitsCharge
    <3>3. minted[i].saw \in 0..n
      BY <3>1 DEF SawWhatIsFiled
    <3> QED BY <1>5, <3>1, <3>2, <3>3
  <2> QED BY <2>1, <2>2
<1>8. RefundsFitTheCharge'
  BY <1>3, <1>7 DEF RefundsFitTheCharge, FitsCharge
<1>9. SawWhatIsFiled'
  <2>1. x.saw = it.saw /\ it.saw \in 0..n
    BY <1>0, <1>1 DEF CallFits
  <2>2. \A i \in 1..n : minted[i].saw \in 0..n
    BY DEF SawWhatIsFiled, Filed, Refunds
  <2>3. \A i \in 1..(n + 1) : minted'[i].saw \in 0..(n + 1)
    BY <1>3, <2>1, <2>2
  <2> QED BY <1>3, <1>4, <2>3 DEF SawWhatIsFiled
<1> QED BY <1>2, <1>6, <1>8, <1>9

\* Where Stripe files a refund, the refunds are refunds still.
LEMMA StripeFiles ==
    ASSUME Filed, NEW amount \in Amounts, StripeRefund(amount)
    PROVE  Filed'
BY Numbers DEF Filed, StripeRefund

-----------------------------------------------------------------------------
(* The pages of a list. *)

\* The ids of the faked refunds from lo to n that are on a page with this filter.
Faked(filter, lo, n) == {-j : j \in {i \in lo..n : Passes(minted[i], filter) = "yes"}}

\* Of n faked refunds and s of Stripe's these ids are all, or, when more is to follow,
\* all from the cursor on.
Turned(filter, these, n, s, more, cursor) ==
    \/ ~more /\ these = Faked(filter, 1, n) \cup 1..s
    \/ more /\ cursor \in 1..s /\ these = Faked(filter, 1, n) \cup cursor..s
    \/ more /\ -cursor \in 1..n /\ cursor \in Int /\ these = Faked(filter, -cursor, n)

\* Two sequences without a common element, each without a repeated one.
LEMMA JoinApart ==
    ASSUME NEW p \in Seq(Int), NEW q \in Seq(Int), IsInjective(p), IsInjective(q),
           ToSet(p) \cap ToSet(q) = {}
    PROVE  /\ p \o q \in Seq(Int) /\ IsInjective(p \o q)
           /\ ToSet(p \o q) = ToSet(p) \cup ToSet(q)
<1> PICK m \in Nat, n \in Nat : m = Len(p) /\ n = Len(q)
  OBVIOUS
<1> PICK w : w = p \o q
  OBVIOUS
<1>1. /\ w \in Seq(Int) /\ Len(w) = m + n /\ DOMAIN w = 1..(m + n)
      /\ DOMAIN p = 1..m /\ DOMAIN q = 1..n
  OBVIOUS
<1>2. \A i \in 1..m : w[i] = p[i]
  OBVIOUS
<1>3. \A i \in 1..n : w[m + i] = q[i] /\ m + i \in 1..(m + n)
  OBVIOUS
<1>4. \A i \in 1..(m + n) : i \in 1..m \/ (i - m \in 1..n /\ m + (i - m) = i)
  OBVIOUS
<1>5. ToSet(w) = ToSet(p) \cup ToSet(q)
  <2>1. ASSUME NEW i \in 1..(m + n) PROVE w[i] \in ToSet(p) \cup ToSet(q)
    <3>1. CASE i \in 1..m
      BY <1>1, <1>2, <3>1 DEF ToSet
    <3>2. CASE i - m \in 1..n /\ m + (i - m) = i
      <4>1. w[i] = q[i - m]
        BY <1>3, <3>2
      <4> QED BY <1>1, <3>2, <4>1 DEF ToSet
    <3> QED BY <1>4, <3>1, <3>2
  <2>2. ASSUME NEW i \in 1..m PROVE p[i] \in ToSet(w)
    <3>1. i \in 1..(m + n)
      OBVIOUS
    <3> QED BY <1>1, <1>2, <3>1 DEF ToSet
  <2>3. ASSUME NEW i \in 1..n PROVE q[i] \in ToSet(w)
    BY <1>1, <1>3 DEF ToSet
  <2>4. /\ ToSet(w) = {w[i] : i \in 1..(m + n)}
        /\ ToSet(p) = {p[i] : i \in 1..m}
        /\ ToSet(q) = {q[i] : i \in 1..n}
    BY <1>1 DEF ToSet
  <2>5. ToSet(w) \subseteq ToSet(p) \cup ToSet(q)
    BY <2>1, <2>4
  <2>6. ToSet(p) \subseteq ToSet(w)
    BY <2>2, <2>4
  <2>7. ToSet(q) \subseteq ToSet(w)
    BY <2>3, <2>4
  <2> QED BY <2>5, <2>6, <2>7
<1>6. IsInjective(w)
  <2> SUFFICES ASSUME NEW i \in 1..(m + n), NEW j \in 1..(m + n), w[i] = w[j] PROVE i = j
    BY <1>1 DEF IsInjective
  <2>1. CASE i \in 1..m /\ j \in 1..m
    <3>1. p[i] = p[j]
      BY <1>2, <2>1
    <3> QED BY <1>1, <2>1, <3>1 DEF IsInjective
  <2>2. CASE i - m \in 1..n /\ m + (i - m) = i /\ j - m \in 1..n /\ m + (j - m) = j
    <3>1. q[i - m] = w[i] /\ q[j - m] = w[j]
      BY <1>3, <2>2
    <3>2. i - m = j - m
      BY <1>1, <2>2, <3>1 DEF IsInjective
    <3> QED BY <2>2, <3>2
  <2>3. CASE i \in 1..m /\ j - m \in 1..n /\ m + (j - m) = j
    <3>1. w[i] = p[i] /\ w[j] = q[j - m]
      BY <1>2, <1>3, <2>3
    <3>2. p[i] \in ToSet(p) /\ q[j - m] \in ToSet(q)
      BY <1>1, <2>3 DEF ToSet
    <3> QED BY <3>1, <3>2
  <2>4. CASE j \in 1..m /\ i - m \in 1..n /\ m + (i - m) = i
    <3>1. w[j] = p[j] /\ w[i] = q[i - m]
      BY <1>2, <1>3, <2>4
    <3>2. p[j] \in ToSet(p) /\ q[i - m] \in ToSet(q)
      BY <1>1, <2>4 DEF ToSet
    <3> QED BY <3>1, <3>2
  <2> QED BY <1>4, <2>1, <2>2, <2>3, <2>4
<1> QED BY <1>1, <1>5, <1>6

\* k numbers that go down by one from the first.
Downs(first, k) == [i \in 1..k |-> first - i + 1]

\* They are k numbers, down from the first.
LEMMA Downward ==
    ASSUME NEW first \in Int, NEW k \in Nat, NEW d, d = Downs(first, k)
    PROVE  /\ d \in Seq(Int) /\ Len(d) = k /\ IsInjective(d)
           /\ ToSet(d) = (first - k + 1)..first
           /\ k > 0 => d # <<>> /\ Last(d) = first - k + 1
<1>1. d \in Seq(Int) /\ Len(d) = k /\ DOMAIN d = 1..k
  BY DEF Downs
<1>2. \A i \in 1..k : d[i] = first - i + 1
  BY DEF Downs
<1>3. IsInjective(d)
  BY <1>1, <1>2 DEF IsInjective
<1>4. ToSet(d) = (first - k + 1)..first
  <2>1. \A i \in 1..k : d[i] \in (first - k + 1)..first
    BY <1>2
  <2>2. ASSUME NEW x \in (first - k + 1)..first PROVE x \in ToSet(d)
    <3>1. first - x + 1 \in 1..k /\ d[first - x + 1] = x
      BY <1>2
    <3> QED BY <1>1, <3>1 DEF ToSet
  <2> QED BY <1>1, <2>1, <2>2 DEF ToSet
<1>5. ASSUME k > 0 PROVE d # <<>> /\ Last(d) = first - k + 1
  <2>1. k \in 1..k
    BY <1>5
  <2> QED BY <1>1, <1>2, <1>5, <2>1 DEF Last
<1> QED BY <1>1, <1>3, <1>4, <1>5

\* A page that goes down from first, up to the limit.
GoesOn(page, first, limit) ==
    /\ page.data \in Seq(Int) /\ IsInjective(page.data)
    /\ page.more \in BOOLEAN
    /\ \E k \in 0..first :
          /\ Len(page.data) = k
          /\ page.data = Downs(first, k)
          /\ ToSet(page.data) = (first - k + 1)..first
          /\ ~page.more => k = first /\ k <= limit
          /\ page.more => k < first /\ k = limit
          /\ k > 0 => page.data # <<>> /\ Last(page.data) = first - k + 1

\* Such is a page of Stripe's, from the refund before the cursor.
LEMMA RealPage ==
    ASSUME NEW s \in Nat, s = Len(stripe), NEW cursor \in Nat, NEW limit \in Nat \ {0},
           NEW first, (cursor = NoCursor /\ first = s) \/ (cursor # NoCursor /\ first = cursor - 1),
           NEW page, page = StripePage(cursor, limit)
    PROVE  GoesOn(page, first, limit)
<1>0. first \in Nat
  BY DEF NoCursor
<1>l. limit \in Nat /\ limit > 0
  OBVIOUS
<1> PICK a : a = [i \in 1..first |-> first - i + 1]
  OBVIOUS
<1>a. a = After(cursor)
  BY DEF After
<1>b. a \in Seq(Int) /\ Len(a) = first
  BY <1>0
<1> PICK k : k = IF limit <= first THEN limit ELSE first
  OBVIOUS
<1>k. k \in Nat /\ k <= first /\ k = IF limit <= first THEN limit ELSE first
  BY <1>0, <1>l
<1>c. k = Min({limit, first})
  BY <1>0, <1>k, <1>l, MinOfTwo
<1>e. SubSeq(a, 1, k) = [i \in 1..k |-> first - i + 1]
  <2>1. SubSeq(a, 1, k) = [i \in 1..k |-> a[i]]
    BY <1>b, <1>k
  <2>2. \A i \in 1..k : a[i] = first - i + 1
    BY <1>0, <1>k
  <2> QED BY <2>1, <2>2
<1>1. /\ StripePage(cursor, limit).data = [i \in 1..k |-> first - i + 1]
      /\ StripePage(cursor, limit).more = (first > limit)
  BY <1>a, <1>b, <1>c, <1>e DEF StripePage
<1> PICK d : d = StripePage(cursor, limit).data
  OBVIOUS
<1>d. d = Downs(first, k)
  BY <1>1 DEF Downs
<1> PICK more : more = StripePage(cursor, limit).more
  OBVIOUS
<1>m. more = (first > limit)
  BY <1>1
<1>2. /\ d \in Seq(Int) /\ Len(d) = k /\ IsInjective(d)
      /\ ToSet(d) = (first - k + 1)..first
      /\ k > 0 => d # <<>> /\ Last(d) = first - k + 1
  <2>1. first \in Int
    BY <1>0
  <2> QED BY ONLY <1>d, <2>1, <1>k, Downward
<1>3. more \in BOOLEAN
  BY <1>m
<1>4. k \in 0..first
  BY <1>0, <1>k
<1>5. ~more => k = first /\ k <= limit
  <2> SUFFICES ASSUME ~more PROVE k = first /\ k <= limit
    OBVIOUS
  <2>1. ~ first > limit
    BY <1>m
  <2> QED BY ONLY <1>0, <1>l, <1>k, <2>1
<1>6. more => k < first /\ k = limit
  <2> SUFFICES ASSUME more PROVE k < first /\ k = limit
    OBVIOUS
  <2>1. first > limit
    BY <1>m
  <2> QED BY ONLY <1>0, <1>l, <1>k, <2>1
<1> QED BY <1>d, <1>2, <1>3, <1>4, <1>5, <1>6 DEF GoesOn

\* Of a sequence that goes down, the numbers from its k-th on are its first k.
LEMMA GoesDownTo ==
    ASSUME NEW filter, NEW n \in Nat, NEW q, GoesDown(q, n, filter), NEW k \in 1..Len(q)
    PROVE  {-q[i] : i \in 1..k} = Faked(filter, q[k], n)
<1>1. /\ q \in Seq(Nat) /\ Len(q) \in Nat
      /\ \A i, j \in 1..Len(q) : i < j => q[j] < q[i]
      /\ \A i \in 1..Len(q) : q[i] \in 1..n /\ Passes(minted[q[i]], filter) = "yes"
      /\ \A j \in 1..n : Passes(minted[j], filter) = "yes" => \E i \in 1..Len(q) : q[i] = j
  BY DEF GoesDown
<1>2. ASSUME NEW i \in 1..k PROVE -q[i] \in Faked(filter, q[k], n)
  <2>1. i \in 1..Len(q) /\ (i < k \/ i = k)
    BY <1>1
  <2>2. q[k] <= q[i]
    BY <1>1, <2>1
  <2>3. q[i] \in q[k]..n /\ Passes(minted[q[i]], filter) = "yes"
    BY <1>1, <2>1, <2>2
  <2> QED BY <2>3 DEF Faked
<1>3. ASSUME NEW x \in Faked(filter, q[k], n) PROVE \E i \in 1..k : x = -q[i]
  <2>1. PICK j \in q[k]..n : x = -j /\ Passes(minted[j], filter) = "yes"
    BY DEF Faked
  <2>2. j \in 1..n /\ q[k] <= j
    BY <1>1, <2>1
  <2>3. PICK i \in 1..Len(q) : q[i] = j
    BY <1>1, <2>1, <2>2
  <2>4. ~ k < i
    BY <1>1, <2>2, <2>3
  <2>5. i \in 1..k
    BY <1>1, <2>3, <2>4
  <2> QED BY <2>1, <2>3, <2>5
<1> QED BY <1>2, <1>3

\* All of them.
LEMMA GoesDownAll ==
    ASSUME NEW filter, NEW n \in Nat, NEW q, GoesDown(q, n, filter)
    PROVE  /\ {-q[i] : i \in 1..Len(q)} = Faked(filter, 1, n)
           /\ q # <<>> => q[Len(q)] \in 1..n /\ Faked(filter, 1, n) = Faked(filter, q[Len(q)], n)
<1>1. /\ q \in Seq(Nat) /\ Len(q) \in Nat
      /\ \A i \in 1..Len(q) : q[i] \in 1..n /\ Passes(minted[q[i]], filter) = "yes"
      /\ \A j \in 1..n : Passes(minted[j], filter) = "yes" => \E i \in 1..Len(q) : q[i] = j
  BY DEF GoesDown
<1>2. {-q[i] : i \in 1..Len(q)} = Faked(filter, 1, n)
  <2>1. ASSUME NEW i \in 1..Len(q) PROVE -q[i] \in Faked(filter, 1, n)
    BY <1>1 DEF Faked
  <2>2. ASSUME NEW x \in Faked(filter, 1, n) PROVE \E i \in 1..Len(q) : x = -q[i]
    <3>1. PICK j \in 1..n : x = -j /\ Passes(minted[j], filter) = "yes"
      BY DEF Faked
    <3> QED BY <1>1, <3>1
  <2> QED BY <2>1, <2>2
<1>3. ASSUME q # <<>>
      PROVE  q[Len(q)] \in 1..n /\ Faked(filter, 1, n) = Faked(filter, q[Len(q)], n)
  <2>1. Len(q) \in 1..Len(q)
    BY <1>1, <1>3
  <2>2. q[Len(q)] \in 1..n
    BY <1>1, <2>1
  <2>3. {-q[i] : i \in 1..Len(q)} = Faked(filter, q[Len(q)], n)
    BY ONLY <2>1, n \in Nat, GoesDown(q, n, filter), GoesDownTo
  <2> QED BY <1>2, <2>2, <2>3
<1> QED BY <1>2, <1>3

\* Negated, a sequence that goes down has no id twice.
LEMMA IdsFacts ==
    ASSUME NEW filter, NEW n \in Nat, NEW q, GoesDown(q, n, filter)
    PROVE  /\ Ids(q) \in Seq(Int) /\ Len(Ids(q)) = Len(q) /\ IsInjective(Ids(q))
           /\ \A i \in 1..Len(q) : Ids(q)[i] = -q[i] /\ -q[i] < 0
           /\ ToSet(Ids(q)) = Faked(filter, 1, n)
<1>1. /\ q \in Seq(Nat) /\ Len(q) \in Nat /\ DOMAIN q = 1..Len(q)
      /\ \A i, j \in 1..Len(q) : i < j => q[j] < q[i]
      /\ \A i \in 1..Len(q) : q[i] \in 1..n
  BY DEF GoesDown
<1> PICK p : p = Ids(q)
  OBVIOUS
<1>2. p = [i \in 1..Len(q) |-> -q[i]]
  BY <1>1 DEF Ids
<1>3. p \in Seq(Int) /\ Len(p) = Len(q) /\ DOMAIN p = 1..Len(q)
  BY <1>1, <1>2
<1>4. \A i \in 1..Len(q) : p[i] = -q[i] /\ -q[i] < 0
  BY <1>1, <1>2
<1>5. IsInjective(p)
  <2> SUFFICES ASSUME NEW i \in 1..Len(q), NEW j \in 1..Len(q), p[i] = p[j] PROVE i = j
    BY <1>3 DEF IsInjective
  <2>1. q[i] = q[j] /\ q[i] \in Nat /\ q[j] \in Nat
    BY <1>1, <1>4
  <2>2. ~ i < j /\ ~ j < i
    BY <1>1, <2>1
  <2> QED BY <1>1, <2>2
<1>6. ToSet(p) = {-q[i] : i \in 1..Len(q)}
  BY <1>3, <1>4 DEF ToSet
<1> QED BY <1>3, <1>4, <1>5, <1>6, GoesDownAll

\* A prefix of a joined sequence.
LEMMA PrefixOf ==
    ASSUME NEW p \in Seq(Int), NEW q \in Seq(Int), NEW k \in 0..Len(p)
    PROVE  SubSeq(p \o q, 1, k) = SubSeq(p, 1, k)
<1> PICK a : a = SubSeq(p \o q, 1, k)
  OBVIOUS
<1> PICK b : b = SubSeq(p, 1, k)
  OBVIOUS
<1>1. a \in Seq(Int) /\ b \in Seq(Int) /\ Len(a) = k /\ Len(b) = k
  OBVIOUS
<1>2. \A i \in 1..k : a[i] = b[i]
  OBVIOUS
<1> QED BY <1>1, <1>2, SeqEqual

\* A prefix longer than p is p and a prefix of what follows it.
LEMMA PrefixPast ==
    ASSUME NEW p \in Seq(Int), NEW q \in Seq(Int), NEW k \in 0..Len(q)
    PROVE  SubSeq(p \o q, 1, Len(p) + k) = p \o SubSeq(q, 1, k)
<1> PICK a : a = SubSeq(p \o q, 1, Len(p) + k)
  OBVIOUS
<1> PICK b : b = p \o SubSeq(q, 1, k)
  OBVIOUS
<1>0. /\ p \o q \in Seq(Int) /\ Len(p \o q) = Len(p) + Len(q)
      /\ SubSeq(q, 1, k) \in Seq(Int) /\ Len(SubSeq(q, 1, k)) = k
  OBVIOUS
<1>a. a \in Seq(Int) /\ Len(a) = Len(p) + k
  BY <1>0
<1>b. b \in Seq(Int) /\ Len(b) = Len(p) + k
  BY <1>0
<1>1. a \in Seq(Int) /\ b \in Seq(Int) /\ Len(a) = Len(p) + k /\ Len(b) = Len(p) + k
  BY <1>a, <1>b
<1>2. ASSUME NEW i \in 1..(Len(p) + k) PROVE a[i] = b[i]
  <2>1. CASE i <= Len(p)
    BY <2>1
  <2>2. CASE i > Len(p)
    BY <2>2
  <2> QED BY <2>1, <2>2
<1> QED BY <1>1, <1>2, SeqEqual

\* The first page with no faked refund on it.
LEMMA PlainFirst ==
    ASSUME Filed, NEW filter, NEW limit \in Nat \ {0},
           Faked(filter, 1, Len(minted)) = {},
           NEW page, page = StripePage(NoCursor, limit)
    PROVE  /\ page.data \in Seq(Int) /\ IsInjective(page.data) /\ page.more \in BOOLEAN
           /\ Turned(filter, ToSet(page.data), Len(minted), Len(stripe),
                     page.more /\ page.data # <<>>, Last(page.data))
<1> PICK s \in Nat : s = Len(stripe)
  BY DEF Filed
<1>1. NoCursor \in 0..s
  BY DEF NoCursor
<1>2. GoesOn(page, s, limit)
  BY <1>1, RealPage
<1>3. PICK k \in 0..s : /\ ToSet(page.data) = (s - k + 1)..s
                        /\ ~page.more => k = s
                        /\ page.more => k < s /\ k = limit
                        /\ k > 0 => page.data # <<>> /\ Last(page.data) = s - k + 1
  BY <1>2 DEF GoesOn
<1>d. page.data \in Seq(Int) /\ IsInjective(page.data) /\ page.more \in BOOLEAN
  BY <1>2 DEF GoesOn
<1>4. CASE ~page.more
  <2>1. ToSet(page.data) = 1..s
    BY <1>3, <1>4
  <2> QED BY <1>d, <1>4, <2>1 DEF Turned
<1>5. CASE page.more
  <2>1. k > 0 /\ k < s
    BY <1>3, <1>5
  <2>2. page.data # <<>> /\ Last(page.data) = s - k + 1
    BY <1>3, <2>1
  <2>3. Last(page.data) \in 1..s /\ ToSet(page.data) = Last(page.data)..s
    BY <1>3, <2>1, <2>2
  <2> QED BY <1>d, <1>5, <2>2, <2>3 DEF Turned
<1> QED BY <1>4, <1>5

\* The first page of the faked refunds q and then k of s real ones, cut to the limit.
CutTo(filter, n, s, limit, q, k, x, t, on) ==
    /\ n \in Nat /\ s \in Nat /\ limit \in Nat /\ limit > 0
    /\ GoesDown(q, n, filter) /\ q # <<>>
    /\ k \in 0..s /\ (k < s => k = limit)
    /\ x \in Nat /\ (limit <= Len(q) + k => x = limit) /\ (limit > Len(q) + k => x = Len(q) + k)
    /\ t = SubSeq(Ids(q) \o Downs(s, k), 1, x)
    /\ on \in BOOLEAN /\ (on <=> k < s \/ Len(q) + k > limit)

\* What is cut so is a page.
LEMMA FirstWithin ==
    ASSUME NEW filter, NEW n, NEW s, NEW limit, NEW q, NEW k, NEW x, NEW t, NEW on,
           CutTo(filter, n, s, limit, q, k, x, t, on)
    PROVE  /\ t \in Seq(Int) /\ IsInjective(t)
           /\ Turned(filter, ToSet(t), n, s, on /\ t # <<>>, Last(t))
<1> USE DEF CutTo
<1> PICK m \in Nat : m = Len(q)
  BY DEF GoesDown
<1>0. /\ n \in Nat /\ s \in Nat /\ limit \in Nat /\ limit > 0
      /\ GoesDown(q, n, filter) /\ q # <<>>
      /\ k \in 0..s /\ x \in Nat /\ on \in BOOLEAN
      /\ t = SubSeq(Ids(q) \o Downs(s, k), 1, x)
  OBVIOUS
<1> PICK p : p = Ids(q)
  OBVIOUS
<1> PICK d : d = Downs(s, k)
  OBVIOUS
<1>2. d \in Seq(Int) /\ Len(d) = k
  BY Downward
<1>3. /\ d = Downs(s, k) /\ k \in Nat /\ k <= s
      /\ limit <= m + k => x = limit
      /\ limit > m + k => x = m + k
      /\ k < s => k = limit
      /\ on <=> k < s \/ m + k > limit
  OBVIOUS
<1>4. GoesDown(q, n, filter)
  OBVIOUS
<1>5. /\ p \in Seq(Int) /\ Len(p) = m /\ IsInjective(p)
      /\ \A i \in 1..m : p[i] = -q[i] /\ -q[i] < 0
      /\ ToSet(p) = Faked(filter, 1, n)
  <2>1. p = Ids(q) /\ m = Len(q) /\ n \in Nat
    OBVIOUS
  <2> QED BY ONLY <1>4, <2>1, IdsFacts
<1>6. m > 0 /\ limit \in Nat /\ limit > 0
  BY <1>4 DEF GoesDown
<1>11. CASE limit < m
  <2>1. x = limit /\ limit \in 1..m /\ limit \in 0..m
    BY <1>6, <1>11
  <2>2. t = SubSeq(p, 1, limit)
    <3>1. t = SubSeq(p \o d, 1, limit)
      BY <2>1
    <3>2. limit \in 0..Len(p)
      BY <1>5, <2>1
    <3>3. p \in Seq(Int) /\ d \in Seq(Int)
      BY <1>2, <1>5
    <3> QED BY ONLY <3>1, <3>2, <3>3, PrefixOf
  <2>3. /\ t \in Seq(Int) /\ Len(t) = limit /\ DOMAIN t = 1..limit
        /\ \A i \in 1..limit : t[i] = p[i] /\ i \in 1..m
    BY <1>5, <2>1, <2>2
  <2>4. IsInjective(t)
    BY <1>5, <2>3 DEF IsInjective
  <2>5. ToSet(t) = {-q[i] : i \in 1..limit}
    <3>1. \A i \in 1..limit : t[i] = -q[i]
      BY <1>5, <2>3
    <3>2. ToSet(t) = {t[i] : i \in 1..limit}
      BY <2>3 DEF ToSet
    <3> QED BY <3>1, <3>2
  <2>6. ToSet(t) = Faked(filter, q[limit], n)
    BY ONLY <1>4, <2>1, <2>5, m = Len(q), n \in Nat, GoesDownTo
  <2>7. Last(t) = -q[limit] /\ t # <<>>
    BY <1>5, <1>6, <2>1, <2>3 DEF Last
  <2>8. q[limit] \in 1..n
    BY <1>4, <2>1 DEF GoesDown
  <2>9. -Last(t) \in 1..n /\ -Last(t) = q[limit] /\ Last(t) \in Int
    BY <2>7, <2>8
  <2>10. on
    BY <1>3, <1>6, <1>11
  <2> QED BY <2>3, <2>4, <2>6, <2>7, <2>9, <2>10 DEF Turned
<1>12. CASE limit >= m
  <2> PICK r : r = x - m
    OBVIOUS
  <2>1. r \in 0..k /\ x = m + r /\ r <= s
    BY <1>3, <1>6, <1>12
  <2> PICK e : e = SubSeq(d, 1, r)
    OBVIOUS
  <2>2. t = p \o e
    <3>1. t = SubSeq(p \o d, 1, Len(p) + r)
      BY <1>5, <2>1
    <3>2. r \in 0..Len(d) /\ e = SubSeq(d, 1, r)
      BY <1>2, <2>1
    <3>3. p \in Seq(Int) /\ d \in Seq(Int)
      BY <1>2, <1>5
    <3> QED BY ONLY <3>1, <3>2, <3>3, PrefixPast
  <2>3. e = Downs(s, r)
    BY <1>3, <2>1 DEF Downs
  <2>4. /\ e \in Seq(Int) /\ Len(e) = r /\ IsInjective(e)
        /\ ToSet(e) = (s - r + 1)..s
        /\ r > 0 => e # <<>> /\ Last(e) = s - r + 1
    BY ONLY <2>1, <2>3, <1>3, s \in Nat, Downward
  <2>5. ToSet(p) \cap ToSet(e) = {}
    <3>1. \A y \in Faked(filter, 1, n) : y < 0
      BY DEF Faked
    <3>2. \A y \in (s - r + 1)..s : ~ y < 0
      BY <2>1
    <3> QED BY <1>5, <2>4, <3>1, <3>2
  <2>6. /\ t \in Seq(Int) /\ IsInjective(t)
        /\ ToSet(t) = Faked(filter, 1, n) \cup (s - r + 1)..s
    BY ONLY <1>5, <2>2, <2>4, <2>5, JoinApart
  <2>7. Len(t) = m + r /\ t # <<>>
    <3>1. p \in Seq(Int) /\ e \in Seq(Int) /\ Len(p) = m /\ Len(e) = r
      BY <1>5, <2>4
    <3>2. Len(p \o e) = m + r
      BY ONLY <3>1
    <3> QED BY ONLY <1>6, <2>1, <2>2, <2>6, <3>2
  <2>8. CASE ~on
    <3>2. r = s
      BY <1>3, <1>6, <2>1, <2>8
    <3>3. ToSet(t) = Faked(filter, 1, n) \cup 1..s
      BY <2>6, <3>2
    <3> QED BY <2>6, <2>8, <3>3 DEF Turned
  <2>9. CASE on /\ r = 0
    <3>1. t[m] = p[m] /\ m \in 1..m
      BY <1>5, <1>6, <2>2, <2>4
    <3>2. Last(t) = -q[m]
      BY <1>5, <2>7, <2>9, <3>1 DEF Last
    <3>3. q[m] \in 1..n /\ Faked(filter, 1, n) = Faked(filter, q[m], n)
      BY <1>4, <1>6, GoesDownAll
    <3>4. (s - r + 1)..s = {}
      BY <2>9
    <3>5. -Last(t) = q[m] /\ Last(t) \in Int
      BY <3>2, <3>3
    <3> QED BY <2>6, <2>7, <2>9, <3>3, <3>4, <3>5 DEF Turned
  <2>10. CASE on /\ r # 0
    <3>1. r < s
      BY <1>3, <1>6, <2>1, <2>10
    <3>2. Last(t) = Last(e)
      <4>1. t[m + r] = e[r]
        <5>1. r \in 1..Len(e)
          BY <2>1, <2>4, <2>10
        <5> QED BY ONLY <1>5, <1>6, <2>2, <2>4, <5>1
      <4> QED BY <2>4, <2>7, <4>1 DEF Last
    <3>3. Last(t) = s - r + 1
      BY <2>1, <2>4, <2>10, <3>2
    <3>4. Last(t) \in 1..s
      BY <2>1, <2>10, <3>1, <3>3
    <3>5. ToSet(t) = Faked(filter, 1, n) \cup Last(t)..s
      BY <2>6, <3>3
    <3> QED BY <2>6, <2>7, <2>10, <3>4, <3>5 DEF Turned
  <2> QED BY <2>6, <2>8, <2>9, <2>10
<1>13. limit < m \/ limit >= m
  BY <1>6
<1> QED BY ONLY <1>11, <1>12, <1>13, Zenon

\* The first page with the faked refunds on it.
LEMMA MintedFirst ==
    ASSUME Filed, NEW filter, NEW limit \in Nat \ {0}, Minted(filter) # <<>>,
           NEW page, page = StripePage(NoCursor, limit),
           NEW within, within = PageWithin(Ids(Minted(filter)) \o page.data, limit, page.more)
    PROVE  /\ within.data \in Seq(Int) /\ IsInjective(within.data) /\ within.more \in BOOLEAN
           /\ Turned(filter, ToSet(within.data), Len(minted), Len(stripe),
                     within.more /\ within.data # <<>>, Last(within.data))
<1> PICK s \in Nat : s = Len(stripe)
  BY DEF Filed
<1> PICK n \in Nat : n = Len(minted)
  BY DEF Filed, Refunds
<1>1. NoCursor \in 0..s
  BY DEF NoCursor
<1>2. GoesOn(page, s, limit)
  BY <1>1, RealPage
<1> PICK q : q = Minted(filter)
  OBVIOUS
<1>3. GoesDown(q, n, filter) /\ q # <<>>
  BY MintedFacts
<1> PICK m : m = Len(q)
  OBVIOUS
<1>4. m \in Nat
  BY <1>3 DEF GoesDown
<1>5. PICK k \in 0..s : /\ Len(page.data) = k /\ page.data = Downs(s, k)
                        /\ ~page.more => k = s /\ k <= limit
                        /\ page.more => k < s /\ k = limit
  BY <1>2 DEF GoesOn
<1>6. page.more \in BOOLEAN /\ page.data \in Seq(Int)
  BY <1>2 DEF GoesOn
<1> PICK w : w = Ids(q) \o Downs(s, k)
  OBVIOUS
<1>7. Len(w) = m + k
  <2>1. Ids(q) \in Seq(Int) /\ Len(Ids(q)) = m
    BY <1>3, IdsFacts
  <2>2. Downs(s, k) \in Seq(Int) /\ Len(Downs(s, k)) = k
    BY <1>5, <1>6
  <2> PICK p : p = Ids(q)
    OBVIOUS
  <2> PICK e : e = Downs(s, k)
    OBVIOUS
  <2>3. p \in Seq(Int) /\ Len(p) = m /\ e \in Seq(Int) /\ Len(e) = k
    BY <2>1, <2>2
  <2>4. Len(p \o e) = m + k
    BY ONLY <2>3
  <2> QED BY <2>4
<1>8. limit \in Nat /\ limit > 0 /\ k \in Nat
  OBVIOUS
<1> PICK x : x = IF limit <= m + k THEN limit ELSE m + k
  OBVIOUS
<1>9. /\ x \in Nat /\ x = Min({limit, m + k})
      /\ limit <= m + k => x = limit
      /\ limit > m + k => x = m + k
  <2>1. limit \in Int /\ m + k \in Int
    BY <1>4, <1>8
  <2>2. Min({limit, m + k}) = x
    BY ONLY <2>1, x = IF limit <= m + k THEN limit ELSE m + k, MinOfTwo
  <2>3. x \in Nat /\ (limit <= m + k => x = limit) /\ (limit > m + k => x = m + k)
    BY ONLY <1>4, <1>8, x = IF limit <= m + k THEN limit ELSE m + k
  <2> QED BY <2>2, <2>3
<1>10. within.data = SubSeq(w, 1, x)
  BY <1>5, <1>7, <1>9 DEF PageWithin
<1>11. within.more = (page.more \/ m + k > limit)
  BY <1>5, <1>7 DEF PageWithin
<1> PICK on \in BOOLEAN : on <=> within.more
  OBVIOUS
<1>12. within.more \in BOOLEAN
  BY <1>11
<1>13. on <=> k < s \/ m + k > limit
  <2>1. page.more <=> k < s
    BY <1>5, <1>6, <1>8
  <2> QED BY <1>11, <2>1
<1> PICK t : t = SubSeq(w, 1, x)
  OBVIOUS
<1>14. /\ t \in Seq(Int) /\ IsInjective(t)
       /\ Turned(filter, ToSet(t), n, s, on /\ t # <<>>, Last(t))
  <2>1. k < s => k = limit
    BY <1>5, <1>6, <1>8
  <2>2. t = SubSeq(Ids(q) \o Downs(s, k), 1, x) /\ m = Len(q)
    OBVIOUS
  <2>3. /\ x \in Nat /\ (limit <= Len(q) + k => x = limit)
        /\ (limit > Len(q) + k => x = Len(q) + k)
        /\ on <=> k < s \/ Len(q) + k > limit
    BY <1>9, <1>13
  <2>4. CutTo(filter, n, s, limit, q, k, x, t, on)
    BY <1>3, <1>8, <2>1, <2>2, <2>3 DEF CutTo
  <2> QED BY ONLY <2>4, FirstWithin, Zenon
<1>15. on = within.more
  BY <1>12
<1> QED BY <1>10, <1>12, <1>14, <1>15

\* A page of Stripe's after all the faked refunds and the real ones above it.
LEMMA NextReal ==
    ASSUME NEW filter, NEW n \in Nat, NEW s \in Nat, NEW first \in 0..s, NEW limit \in Nat \ {0},
           NEW page, GoesOn(page, first, limit),
           NEW seen \in Seq(Int), IsInjective(seen),
           ToSet(seen) = Faked(filter, 1, n) \cup (first + 1)..s
    PROVE  /\ IsInjective(seen \o page.data)
           /\ Turned(filter, ToSet(seen \o page.data), n, s,
                     page.more /\ page.data # <<>>, Last(page.data))
<1> PICK d : d = page.data
  OBVIOUS
<1>1. d \in Seq(Int) /\ IsInjective(d) /\ page.more \in BOOLEAN
  BY DEF GoesOn
<1>2. PICK k \in 0..first : /\ ToSet(d) = (first - k + 1)..first
                            /\ ~page.more => k = first
                            /\ page.more => k < first /\ k = limit
                            /\ k > 0 => d # <<>> /\ Last(d) = first - k + 1
  BY DEF GoesOn
<1>3. ToSet(seen) \cap ToSet(d) = {}
  <2>1. \A y \in Faked(filter, 1, n) : y < 0
    BY DEF Faked
  <2>2. \A y \in (first - k + 1)..first : ~ y < 0 /\ y \notin (first + 1)..s
    OBVIOUS
  <2> QED BY <1>2, <2>1, <2>2
<1>4. /\ IsInjective(seen \o d)
      /\ ToSet(seen \o d) = Faked(filter, 1, n) \cup (first - k + 1)..s
  <2>1. IsInjective(seen \o d) /\ ToSet(seen \o d) = ToSet(seen) \cup ToSet(d)
    BY <1>1, <1>3, JoinApart
  <2>2. (first + 1)..s \cup (first - k + 1)..first = (first - k + 1)..s
    OBVIOUS
  <2> QED BY <1>2, <2>1, <2>2
<1>5. CASE ~page.more
  <2>1. ToSet(seen \o d) = Faked(filter, 1, n) \cup 1..s
    BY <1>2, <1>4, <1>5
  <2> QED BY <1>4, <1>5, <2>1 DEF Turned
<1>6. CASE page.more
  <2>1. k > 0 /\ k < first
    BY <1>2, <1>6
  <2>2. d # <<>> /\ Last(d) = first - k + 1
    BY <1>2, <2>1
  <2>3. Last(d) \in 1..s /\ ToSet(seen \o d) = Faked(filter, 1, n) \cup Last(d)..s
    BY <1>4, <2>1, <2>2
  <2> QED BY <1>4, <1>6, <2>2, <2>3 DEF Turned
<1> QED BY <1>5, <1>6

-----------------------------------------------------------------------------
(* The inductive invariant of the charge and its list. *)

ListTyped ==
    list \in [open : BOOLEAN, filter : {"none", "charge", "payment_intent"}, limit : Nat \ {0},
              odd : BOOLEAN, cursor : Int, pages : Seq(Seq(Int)), partial : BOOLEAN,
              hadStripe : Nat, hadMinted : Nat, told : Nat]

ListBounds == list.hadStripe <= Len(stripe) /\ list.hadMinted <= Len(minted)

\* What the pages so far have, of the refunds there were when the last one came.
PagesTurned ==
    \/ list.open /\ list.cursor = NoCursor /\ list.pages = <<>>
    \/ /\ IsInjective(Seen)
       /\ \E n \in list.hadMinted..Len(minted), s \in list.hadStripe..Len(stripe) :
             Turned(list.filter, ToSet(Seen), n, s, list.open, list.cursor)

StripeInv ==
    /\ Filed /\ CallTyped /\ CallsFit /\ SawWhatIsFiled
    /\ ListTyped /\ ListBounds /\ RefundsFitTheCharge
    /\ Through => list.told = Charge(minted).amount_refunded
    /\ list # NoList /\ ~list.partial => PagesTurned

\* A charge begins without refunds.
LEMMA StripeStarts == StripeInit => StripeInv
<1> SUFFICES ASSUME StripeInit PROVE StripeInv
  OBVIOUS
<1>1. stripe = <<>> /\ minted = <<>> /\ list = NoList /\ call = [c \in Calls |-> NoCall]
  BY DEF StripeInit
<1>2. Filed
  BY <1>1 DEF Filed, Refunds
<1>c. CallTyped /\ CallsFit
  BY <1>1, <1>2, NoCallFits DEF CallTyped, CallsFit
<1>w. SawWhatIsFiled
  BY <1>1 DEF SawWhatIsFiled
<1>3. ListTyped
  BY <1>1 DEF ListTyped, NoList, NoCursor
<1>4. ListBounds
  BY <1>1 DEF ListBounds, NoList
<1>5. RefundsFitTheCharge
  BY <1>1 DEF RefundsFitTheCharge
<1> QED BY <1>1, <1>2, <1>3, <1>4, <1>5, <1>c, <1>w DEF StripeInv, Through

\* Every page is a sequence of ids.
LEMMA PageTyped ==
    ASSUME Filed, ListTyped, NEW page, page = RefundsList(list)
    PROVE  page.data \in Seq(Int) /\ page.more \in BOOLEAN /\ page.partial \in BOOLEAN
<1> PICK s \in Nat : s = Len(stripe)
  BY DEF Filed
<1>1. list.limit \in Nat \ {0} /\ list.cursor \in Int
  BY DEF ListTyped
<1> PICK limit \in Nat \ {0} : limit = list.limit
  BY <1>1
<1> PICK cursor : cursor = Rewritten(list.cursor)
  OBVIOUS
<1>2. cursor \in Nat
  BY <1>1 DEF Rewritten, NoCursor
<1> PICK real0 : real0 = StripePage(cursor, limit)
  OBVIOUS
<1>3. real0.data \in Seq(Int) /\ real0.more \in BOOLEAN
  <2> PICK first : (cursor = NoCursor /\ first = s) \/ (cursor # NoCursor /\ first = cursor - 1)
    OBVIOUS
  <2>1. GoesOn(real0, first, limit)
    BY <1>2, RealPage
  <2> QED BY <2>1 DEF GoesOn
<1>4. CASE list.cursor = NoCursor
  <2>1. page = FirstPageOf(list, real0)
    BY <1>4 DEF RefundsList
  <2>2. cursor = NoCursor
    BY <1>4 DEF Rewritten, NoCursor
  <2>3. CASE page = Listed(real0, FALSE) \/ page = Listed(real0, TRUE)
    <3>1. page.data = real0.data /\ page.more = real0.more
      BY <2>3 DEF Listed
    <3>2. page.partial \in BOOLEAN
      <4>1. CASE page = Listed(real0, FALSE)
        BY <4>1 DEF Listed
      <4>2. CASE page = Listed(real0, TRUE)
        BY <4>2 DEF Listed
      <4> QED BY <2>3, <4>1, <4>2
    <3> QED BY <1>3, <3>1, <3>2
  <2>4. CASE /\ Minted(list.filter) # <<>>
             /\ page = Listed(PageWithin(Ids(Minted(list.filter)) \o real0.data, list.limit,
                                         real0.more), FALSE)
    <3> PICK within : within = PageWithin(Ids(Minted(list.filter)) \o real0.data, limit, real0.more)
      OBVIOUS
    <3>1. within.data \in Seq(Int) /\ within.more \in BOOLEAN
      BY <2>2, <2>4, MintedFirst
    <3> QED BY <2>4, <3>1 DEF Listed
  <2> QED BY <2>1, <2>3, <2>4 DEF FirstPageOf
<1>5. CASE list.cursor # NoCursor
  <2>1. \E partial \in BOOLEAN : page = Listed(real0, partial)
    BY <1>5 DEF RefundsList, PageAfterMinted, PageAfterReal
  <2> QED BY <1>3, <2>1 DEF Listed
<1> QED BY <1>4, <1>5

\* A first page that is not partial begins a list.
LEMMA FirstTurns ==
    ASSUME Filed, ListTyped, list.cursor = NoCursor, NEW page, page = RefundsList(list),
           page.partial # TRUE
    PROVE  /\ IsInjective(page.data)
           /\ Turned(list.filter, ToSet(page.data), Len(minted), Len(stripe),
                     page.more /\ page.data # <<>>, Last(page.data))
<1>1. list.limit \in Nat \ {0}
  BY DEF ListTyped
<1> PICK real0 : real0 = StripePage(NoCursor, list.limit)
  OBVIOUS
<1>2. page = FirstPageOf(list, real0)
  BY DEF RefundsList, Rewritten, NoCursor
<1>3. CASE minted = <<>> \/ Minted(list.filter) = <<>>
  <2>1. GoesDown(Minted(list.filter), Len(minted), list.filter)
    BY MintedFacts
  <2>2. Faked(list.filter, 1, Len(minted)) = {}
    <3>1. CASE minted = <<>>
      <4>1. 1..Len(minted) = {}
        BY <3>1
      <4> QED BY <4>1 DEF Faked
    <3>2. CASE Minted(list.filter) = <<>>
      <4>1. \A k \in 1..Len(minted) : Passes(minted[k], list.filter) # "yes"
        BY <2>1, <3>2 DEF GoesDown
      <4> QED BY <4>1 DEF Faked
    <3> QED BY <1>3, <3>1, <3>2
  <2>3. /\ IsInjective(real0.data)
        /\ Turned(list.filter, ToSet(real0.data), Len(minted), Len(stripe),
                  real0.more /\ real0.data # <<>>, Last(real0.data))
    BY <1>1, <2>2, PlainFirst
  <2>4. page = Listed(real0, FALSE) \/ page = Listed(real0, TRUE)
    BY <1>2, <1>3 DEF FirstPageOf
  <2>5. page.data = real0.data /\ page.more = real0.more
    BY <2>4 DEF Listed
  <2> QED BY <2>3, <2>5
<1>4. CASE ~(minted = <<>> \/ Minted(list.filter) = <<>>)
  <2> PICK within : within = PageWithin(Ids(Minted(list.filter)) \o real0.data, list.limit, real0.more)
    OBVIOUS
  <2>1. page = Listed(within, FALSE)
    <3>1. Listed(real0, TRUE).partial = TRUE
      BY DEF Listed
    <3> QED BY <1>2, <1>4, <3>1 DEF FirstPageOf
  <2>2. page.data = within.data /\ page.more = within.more
    BY <2>1 DEF Listed
  <2>3. /\ IsInjective(within.data)
        /\ Turned(list.filter, ToSet(within.data), Len(minted), Len(stripe),
                  within.more /\ within.data # <<>>, Last(within.data))
    BY <1>1, <1>4, MintedFirst
  <2> QED BY <2>2, <2>3
<1> QED BY <1>3, <1>4

\* A later page that is not partial goes on with it.
LEMMA LaterTurns ==
    ASSUME Filed, ListTyped, NEW n \in 0..Len(minted), NEW s \in 0..Len(stripe),
           IsInjective(Seen), Turned(list.filter, ToSet(Seen), n, s, TRUE, list.cursor),
           NEW page, page = RefundsList(list), page.partial # TRUE
    PROVE  /\ IsInjective(Seen \o page.data)
           /\ \E m \in {s, Len(stripe)} :
                 Turned(list.filter, ToSet(Seen \o page.data), n, m,
                        page.more /\ page.data # <<>>, Last(page.data))
<1> PICK filter, limit, cursor : filter = list.filter /\ limit = list.limit /\ cursor = list.cursor
  OBVIOUS
<1>1. limit \in Nat \ {0} /\ cursor \in Int /\ list.pages \in Seq(Seq(Int))
  BY DEF ListTyped
<1>2. Seen \in Seq(Int)
  BY <1>1, FlattenSeqs DEF Seen
<1>3. n \in Nat /\ s \in Nat /\ Len(stripe) \in Nat /\ s <= Len(stripe)
  BY DEF Filed
<1>4. CASE cursor \in 1..s /\ ToSet(Seen) = Faked(filter, 1, n) \cup cursor..s
  <2>1. page = PageAfterReal(StripePage(cursor, limit))
    BY <1>3, <1>4 DEF RefundsList, Rewritten, NoCursor
  <2> PICK real0 : real0 = StripePage(cursor, limit)
    OBVIOUS
  <2>2. page.data = real0.data /\ page.more = real0.more
    BY <2>1 DEF PageAfterReal, Listed
  <2> PICK first : first = cursor - 1
    OBVIOUS
  <2>3. first \in 0..s /\ first + 1 = cursor /\ cursor \in Nat /\ cursor # NoCursor
    BY <1>3, <1>4 DEF NoCursor
  <2>4. GoesOn(real0, first, limit)
    BY <1>1, <1>3, <2>3, RealPage
  <2>5. /\ IsInjective(Seen \o real0.data)
        /\ Turned(filter, ToSet(Seen \o real0.data), n, s,
                  real0.more /\ real0.data # <<>>, Last(real0.data))
    <3>1. ToSet(Seen) = Faked(filter, 1, n) \cup (first + 1)..s
      BY <1>4, <2>3
    <3> QED BY ONLY <1>1, <1>2, <1>3, <2>3, <2>4, <3>1, IsInjective(Seen), NextReal, Zenon
  <2> QED BY <2>2, <2>5
<1>5. CASE -cursor \in 1..n /\ ToSet(Seen) = Faked(filter, -cursor, n)
  <2> PICK t \in Nat : t = Len(stripe)
    BY <1>3
  <2>1. cursor < NoCursor /\ cursor # NoCursor
    BY <1>1, <1>5 DEF NoCursor
  <2>2. page = PageAfterMinted(list, StripePage(NoCursor, limit))
    BY <2>1 DEF RefundsList, Rewritten
  <2> PICK real0 : real0 = StripePage(NoCursor, limit)
    OBVIOUS
  <2>3. page.data = real0.data /\ page.more = real0.more
    BY <2>2 DEF PageAfterMinted, Listed
  <2>4. \A i \in 1..-cursor - 1 : Passes(minted[i], filter) = "no"
    BY <2>2 DEF PageAfterMinted, Listed
  <2>5. Faked(filter, 1, n) = Faked(filter, -cursor, n)
    <3>1. ASSUME NEW i \in 1..n, Passes(minted[i], filter) = "yes" PROVE i \in (-cursor)..n
      <4>1. i \notin 1..-cursor - 1
        BY <2>4, <3>1
      <4> QED BY <1>1, <1>3, <1>5, <4>1
    <3>2. \A i \in (-cursor)..n : i \in 1..n
      BY <1>1, <1>3, <1>5
    <3> QED BY <3>1, <3>2 DEF Faked
  <2>6. GoesOn(real0, t, limit)
    <3>1. NoCursor \in Nat
      BY DEF NoCursor
    <3> QED BY <1>1, <3>1, RealPage
  <2>7. ToSet(Seen) = Faked(filter, 1, n) \cup (t + 1)..t
    <3>1. (t + 1)..t = {}
      OBVIOUS
    <3> QED BY <1>5, <2>5, <3>1
  <2>8. t \in 0..t
    OBVIOUS
  <2>9. /\ IsInjective(Seen \o real0.data)
        /\ Turned(filter, ToSet(Seen \o real0.data), n, t,
                  real0.more /\ real0.data # <<>>, Last(real0.data))
    BY ONLY <1>1, <1>2, <1>3, <2>6, <2>7, <2>8, t \in Nat, IsInjective(Seen), NextReal, Zenon
  <2> QED BY <2>3, <2>9
<1> QED BY <1>4, <1>5 DEF Turned

\* One more faked refund changes nothing of those before it.
LEMMA FakedKeeps ==
    ASSUME Filed, NEW x, minted' = Append(minted, x), NEW filter,
           NEW n \in 0..Len(minted), NEW lo \in 1..(n + 1)
    PROVE  Faked(filter, lo, n)' = Faked(filter, lo, n)
<1>1. \A i \in lo..n : minted'[i] = minted[i]
  <2> PICK R : Refunds = Seq(R)
    BY DEF Refunds
  <2> QED BY DEF Filed
<1>2. \A i \in lo..n : Passes(minted[i], filter)' = Passes(minted[i], filter)
  BY <1>1 DEF Passes
<1> QED BY <1>1, <1>2 DEF Faked

\* Where nothing is filed and the list stays, the pages hold what they held.
LEMMA ListStays ==
    ASSUME StripeInv, stripe' = stripe, minted' = minted, list' = list, CallTyped', CallsFit'
    PROVE  StripeInv'
<1>1. Filed' /\ SawWhatIsFiled' /\ ListTyped' /\ ListBounds' /\ RefundsFitTheCharge'
  BY DEF StripeInv, Filed, SawWhatIsFiled, ListTyped, ListBounds, RefundsFitTheCharge
<1>2. Through' <=> Through
  BY DEF Through
<1>3. Charge(minted)' = Charge(minted) /\ Seen' = Seen
  BY DEF Charge, Seen
<1>4. PagesTurned => PagesTurned'
  BY <1>3 DEF PagesTurned, Turned, Faked
<1> QED BY <1>1, <1>2, <1>3, <1>4 DEF StripeInv, NoList, NoCursor

\* So it is when a call is planned or checked.
LEMMA CallKeeps ==
    ASSUME StripeInv, NEW c \in Calls,
           \/ \E amount \in Amounts \cup {NoAmount}, named \in BOOLEAN :
                 BeginRefund(c, amount, named)
           \/ CheckRefund(c)
    PROVE  StripeInv'
<1>1. Filed /\ CallTyped /\ CallsFit
  BY DEF StripeInv
<1>2. stripe' = stripe /\ minted' = minted /\ list' = list
  BY DEF BeginRefund, CheckRefund
<1>3. CallTyped' /\ CallsFit'
  BY <1>1, BeginFits, CheckFits
<1> QED BY <1>2, <1>3, ListStays

\* A faked refund keeps what the pages so far hold.
LEMMA RefundKeeps ==
    ASSUME StripeInv, ~Through, NEW c \in Calls, FileRefund(c),
           NEW x, x = [amount |-> IF call[c].amount = NoAmount THEN FixtureAmount ELSE call[c].amount,
                       posted |-> call[c].amount # NoAmount, named |-> call[c].named,
                       saw |-> call[c].saw, stripe |-> call[c].stripe,
                       passed |-> call[c].passed],
           minted' = Append(minted, x)
    PROVE  StripeInv'
<1>1. stripe' = stripe /\ list' = list /\ call' = [call EXCEPT ![c] = NoCall]
  BY DEF FileRefund
<1>2. /\ Filed /\ CallTyped /\ CallsFit /\ SawWhatIsFiled
      /\ ListTyped /\ ListBounds /\ RefundsFitTheCharge
  BY DEF StripeInv
<1>3. Filed' /\ CallTyped' /\ CallsFit' /\ SawWhatIsFiled' /\ RefundsFitTheCharge'
  BY <1>1, <1>2, FileFits
<1>4. ListTyped'
  BY <1>1, <1>2 DEF ListTyped
<1>5. Len(minted') = Len(minted) + 1 /\ Len(minted) \in Nat
  BY <1>2 DEF Filed, Refunds
<1>6. list.hadStripe \in Nat /\ list.hadMinted \in Nat /\ list.cursor \in Int
  BY <1>2 DEF ListTyped
<1>7. ListBounds'
  BY <1>1, <1>2, <1>5, <1>6 DEF ListBounds
<1>8. ~Through'
  BY <1>1 DEF Through
<1>9. ASSUME list # NoList, ~list.partial PROVE PagesTurned'
  <2>1. PagesTurned
    BY <1>9 DEF StripeInv
  <2>2. CASE list.open /\ list.cursor = NoCursor /\ list.pages = <<>>
    BY <1>1, <2>2 DEF PagesTurned
  <2>3. CASE ~(list.open /\ list.cursor = NoCursor /\ list.pages = <<>>)
    <3>1. PICK n \in list.hadMinted..Len(minted), s \in list.hadStripe..Len(stripe) :
             Turned(list.filter, ToSet(Seen), n, s, list.open, list.cursor)
      BY <2>1, <2>3 DEF PagesTurned
    <3>2. IsInjective(Seen) /\ Seen' = Seen
      BY <1>1, <2>1, <2>3 DEF PagesTurned, Seen
    <3>3. n \in 0..Len(minted) /\ n \in list.hadMinted..Len(minted')
      BY <1>5, <1>6
    <3>4. Faked(list.filter, 1, n)' = Faked(list.filter, 1, n)
      <4>1. 1 \in 1..(n + 1)
        BY <3>3
      <4> QED BY <1>1, <1>2, <3>3, <4>1, FakedKeeps
    <3>5. -list.cursor \in 1..n =>
             Faked(list.filter, -list.cursor, n)' = Faked(list.filter, -list.cursor, n)
      <4>1. SUFFICES ASSUME -list.cursor \in 1..n
                     PROVE  Faked(list.filter, -list.cursor, n)' = Faked(list.filter, -list.cursor, n)
        OBVIOUS
      <4>2. -list.cursor \in 1..(n + 1)
        BY <3>3, <4>1
      <4> QED BY <1>1, <1>2, <3>3, <4>2, FakedKeeps
    <3>6. Turned(list.filter, ToSet(Seen), n, s, list.open, list.cursor)'
      BY <1>1, <3>1, <3>2, <3>4, <3>5 DEF Turned
    <3> QED BY <1>1, <3>2, <3>3, <3>6 DEF PagesTurned
  <2> QED BY <2>2, <2>3
<1> QED BY <1>1, <1>3, <1>4, <1>7, <1>8, <1>9 DEF StripeInv

\* So does a call that ends, with its refund filed or not.
LEMMA FileKeeps ==
    ASSUME StripeInv, ~Through, NEW c \in Calls, FileRefund(c)
    PROVE  StripeInv'
<1> PICK x : x = [amount |-> IF call[c].amount = NoAmount THEN FixtureAmount ELSE call[c].amount,
                  posted |-> call[c].amount # NoAmount, named |-> call[c].named,
                  saw |-> call[c].saw, stripe |-> call[c].stripe,
                  passed |-> call[c].passed]
  OBVIOUS
<1>1. CASE minted' = Append(minted, x)
  BY <1>1, RefundKeeps
<1>2. CASE minted' = minted
  <2>1. stripe' = stripe /\ list' = list /\ call' = [call EXCEPT ![c] = NoCall]
    BY DEF FileRefund
  <2>2. Filed /\ CallTyped /\ CallsFit
    BY DEF StripeInv
  <2>3. CallTyped' /\ CallsFit'
    BY <1>2, <2>1, <2>2, NoCallFits, CallChanges
  <2> QED BY <1>2, <2>1, <2>3, ListStays
<1> QED BY <1>1, <1>2 DEF FileRefund

\* So does one of Stripe's own.
LEMMA StripeRefundKeeps ==
    ASSUME StripeInv, ~Through, NEW amount \in Amounts, StripeRefund(amount)
    PROVE  StripeInv'
<1>1. stripe' = Append(stripe, amount) /\ list' = list /\ minted' = minted /\ call' = call
  BY DEF StripeRefund
<1>2. /\ Filed /\ CallTyped /\ CallsFit /\ SawWhatIsFiled
      /\ ListTyped /\ ListBounds /\ RefundsFitTheCharge
  BY DEF StripeInv
<1>3. Filed' /\ RefundsFitTheCharge' /\ CallTyped' /\ CallsFit' /\ SawWhatIsFiled'
  BY <1>1, <1>2, StripeFiles
     DEF RefundsFitTheCharge, CallTyped, CallsFit, CallFits, SawWhatIsFiled
<1>4. ListTyped'
  BY <1>1, <1>2 DEF ListTyped
<1>5. Len(stripe') = Len(stripe) + 1 /\ Len(stripe) \in Nat
  BY <1>1, <1>2 DEF Filed
<1>6. list.hadStripe \in Nat /\ list.hadMinted \in Nat
  BY <1>2 DEF ListTyped
<1>7. ListBounds'
  BY <1>1, <1>2, <1>5, <1>6 DEF ListBounds
<1>8. ~Through'
  BY <1>1 DEF Through
<1>9. ASSUME list # NoList, ~list.partial PROVE PagesTurned'
  <2>1. PagesTurned
    BY <1>9 DEF StripeInv
  <2>2. CASE list.open /\ list.cursor = NoCursor /\ list.pages = <<>>
    BY <1>1, <2>2 DEF PagesTurned
  <2>3. CASE ~(list.open /\ list.cursor = NoCursor /\ list.pages = <<>>)
    <3>1. PICK n \in list.hadMinted..Len(minted), s \in list.hadStripe..Len(stripe) :
             Turned(list.filter, ToSet(Seen), n, s, list.open, list.cursor)
      BY <2>1, <2>3 DEF PagesTurned
    <3>2. IsInjective(Seen) /\ Seen' = Seen
      BY <1>1, <2>1, <2>3 DEF PagesTurned, Seen
    <3>3. s \in list.hadStripe..Len(stripe')
      BY <1>5, <1>6
    <3>4. Turned(list.filter, ToSet(Seen), n, s, list.open, list.cursor)'
      BY <1>1, <3>1, <3>2 DEF Turned, Faked
    <3> QED BY <1>1, <3>2, <3>3, <3>4 DEF PagesTurned
  <2> QED BY <2>2, <2>3
<1> QED BY <1>1, <1>3, <1>4, <1>7, <1>8, <1>9 DEF StripeInv

\* So does the beginning of a list.
LEMMA BeginKeeps ==
    ASSUME StripeInv, NEW filter \in {"none", "charge", "payment_intent"}, NEW limit \in Limits,
           NEW odd \in BOOLEAN, BeginList(filter, limit, odd)
    PROVE  StripeInv'
<1>1. /\ stripe' = stripe /\ minted' = minted /\ call' = call
      /\ list' = [NoList EXCEPT !.open = TRUE, !.filter = filter, !.limit = limit, !.odd = odd,
                                !.hadStripe = Len(stripe), !.hadMinted = Len(minted)]
  BY DEF BeginList
<1>2. Filed /\ RefundsFitTheCharge /\ CallTyped /\ CallsFit /\ SawWhatIsFiled
  BY DEF StripeInv
<1>3. Filed' /\ RefundsFitTheCharge' /\ CallTyped' /\ CallsFit' /\ SawWhatIsFiled'
  BY <1>1, <1>2 DEF Filed, RefundsFitTheCharge, CallTyped, CallsFit, CallFits, SawWhatIsFiled
<1>4. Len(stripe) \in Nat /\ Len(minted) \in Nat /\ limit \in Nat \ {0}
  BY <1>2, Numbers DEF Filed, Refunds
<1>5. list' = [open |-> TRUE, filter |-> filter, limit |-> limit, odd |-> odd, cursor |-> NoCursor,
               pages |-> <<>>, partial |-> FALSE, hadStripe |-> Len(stripe),
               hadMinted |-> Len(minted), told |-> 0]
  BY <1>1 DEF NoList
<1>6. ListTyped'
  BY <1>4, <1>5 DEF ListTyped, NoCursor
<1>7. ListBounds'
  BY <1>1, <1>4, <1>5 DEF ListBounds
<1>8. list'.open /\ list'.cursor = NoCursor /\ list'.pages = <<>>
  BY <1>5
<1>9. PagesTurned' /\ ~Through'
  BY <1>8 DEF PagesTurned, Through, NoCursor
<1> QED BY <1>3, <1>6, <1>7, <1>9 DEF StripeInv

\* So does its end.
LEMMA EndKeeps == StripeInv /\ EndList => StripeInv'
<1> SUFFICES ASSUME StripeInv, EndList PROVE StripeInv'
  OBVIOUS
<1>1. stripe' = stripe /\ minted' = minted /\ call' = call /\ list' = NoList
  BY DEF EndList
<1>2. Filed' /\ RefundsFitTheCharge' /\ CallTyped' /\ CallsFit' /\ SawWhatIsFiled'
  BY <1>1 DEF StripeInv, Filed, RefundsFitTheCharge, CallTyped, CallsFit, CallFits, SawWhatIsFiled
<1>3. ListTyped'
  BY <1>1 DEF ListTyped, NoList, NoCursor
<1>4. ListBounds'
  <2>1. Len(stripe) \in Nat /\ Len(minted) \in Nat
    BY DEF StripeInv, Filed, Refunds
  <2> QED BY <1>1, <2>1 DEF ListBounds, NoList
<1>5. ~Through' /\ list' = NoList
  BY <1>1 DEF Through
<1>6. NoList' = NoList
  BY DEF NoList, NoCursor
<1> QED BY <1>2, <1>3, <1>4, <1>5, <1>6 DEF StripeInv

\* So does one page more.
LEMMA PageKeeps ==
    ASSUME StripeInv, ListPage
    PROVE  StripeInv'
<1> PICK page : page = RefundsList(list)
  OBVIOUS
<1> PICK more \in BOOLEAN : more <=> page.more /\ page.data # <<>>
  OBVIOUS
<1> PICK cursor : cursor = IF more THEN Last(page.data) ELSE list.cursor
  OBVIOUS
<1>1. /\ Filed /\ CallTyped /\ CallsFit /\ SawWhatIsFiled
      /\ ListTyped /\ ListBounds /\ RefundsFitTheCharge
  BY DEF StripeInv
<1>2. page.data \in Seq(Int) /\ page.more \in BOOLEAN /\ page.partial \in BOOLEAN
  BY <1>1, PageTyped
<1>3. (page.more /\ page.data # <<>>) = more
  BY <1>2
<1>4. /\ stripe' = stripe /\ minted' = minted /\ call' = call /\ list.open
      /\ list' = [list EXCEPT !.pages = Append(@, page.data),
                              !.partial = @ \/ page.partial,
                              !.open = more,
                              !.cursor = cursor,
                              !.told = Charge(minted).amount_refunded]
  BY <1>3 DEF ListPage
<1>5. Charge(minted).amount_refunded \in Nat
  BY <1>1, ChargeFacts DEF Filed
<1>6. cursor \in Int
  <2>1. CASE more
    <3>1. Len(page.data) \in 1..Len(page.data)
      BY <1>2, <2>1
    <3> QED BY <1>2, <2>1, <3>1 DEF Last
  <2>2. CASE ~more
    BY <1>1, <2>2 DEF ListTyped
  <2> QED BY <2>1, <2>2
<1>7. /\ list.open \in BOOLEAN /\ list.partial \in BOOLEAN /\ list.pages \in Seq(Seq(Int))
      /\ list.cursor \in Int /\ list.hadStripe \in Nat /\ list.hadMinted \in Nat
  BY <1>1 DEF ListTyped
<1> PICK partial \in BOOLEAN : partial <=> list.partial \/ page.partial
  OBVIOUS
<1>8. (list.partial \/ page.partial) = partial
  BY <1>2, <1>7
<1> PICK pages : pages = Append(list.pages, page.data)
  OBVIOUS
<1>9. pages \in Seq(Seq(Int))
  BY <1>2, <1>7
<1> PICK told : told = Charge(minted).amount_refunded
  OBVIOUS
<1>10. list' = [list EXCEPT !.pages = pages, !.partial = partial, !.open = more,
                            !.cursor = cursor, !.told = told]
  BY <1>4, <1>8
<1>11. /\ list'.pages = pages /\ list'.partial = partial /\ list'.open = more
       /\ list'.cursor = cursor /\ list'.told = told /\ list'.filter = list.filter
       /\ list'.hadStripe = list.hadStripe /\ list'.hadMinted = list.hadMinted
  BY <1>1, <1>10 DEF ListTyped
<1>12. ListTyped'
  BY <1>1, <1>5, <1>6, <1>9, <1>10 DEF ListTyped
<1>13. /\ Filed' /\ RefundsFitTheCharge' /\ ListBounds'
       /\ CallTyped' /\ CallsFit' /\ SawWhatIsFiled'
  BY <1>1, <1>4, <1>11
     DEF Filed, RefundsFitTheCharge, ListBounds, CallTyped, CallsFit, CallFits, SawWhatIsFiled
<1>14. list'.told = Charge(minted)'.amount_refunded
  <2>1. Charge(minted)' = Charge(minted)
    BY <1>4 DEF Charge
  <2> QED BY <1>11, <2>1
<1>15. ASSUME ~list'.partial PROVE PagesTurned'
  <2>1. ~list.partial /\ page.partial # TRUE
    BY <1>11, <1>15
  <2>2. list # NoList
    BY <1>4 DEF NoList
  <2>3. PagesTurned
    BY <2>1, <2>2 DEF StripeInv
  <2>4. CASE list.cursor = NoCursor /\ list.pages = <<>>
    <3>1. /\ IsInjective(page.data)
          /\ Turned(list.filter, ToSet(page.data), Len(minted), Len(stripe),
                    page.more /\ page.data # <<>>, Last(page.data))
      BY <1>1, <2>1, <2>4, FirstTurns
    <3>2. Seen' = page.data
      <4>1. pages = Append(<<>>, page.data) /\ <<>> \in Seq(Seq(Int))
        BY <2>4
      <4>2. FlattenSeq(pages) = FlattenSeq(<<>>) \o page.data
        BY <1>2, <4>1, FlattenAppend
      <4>3. FlattenSeq(<<>>) = <<>>
        BY FlattenSeqs
      <4>4. <<>> \o page.data = page.data
        BY <1>2
      <4> QED BY <1>11, <4>2, <4>3, <4>4 DEF Seen
    <3>3. Turned(list.filter, ToSet(page.data), Len(minted), Len(stripe), more, cursor)
      BY <1>2, <3>1 DEF Turned
    <3>4. Turned(list.filter, ToSet(Seen), Len(minted), Len(stripe), list.open, list.cursor)'
      BY <1>4, <1>11, <3>2, <3>3 DEF Turned, Faked
    <3>5. Len(minted') \in list'.hadMinted..Len(minted') /\ Len(stripe') \in list'.hadStripe..Len(stripe')
      BY <1>1, <1>4, <1>7, <1>11 DEF ListBounds, Filed, Refunds
    <3> QED BY <3>1, <3>2, <3>4, <3>5, <1>4 DEF PagesTurned
  <2>5. CASE ~(list.cursor = NoCursor /\ list.pages = <<>>)
    <3>1. PICK n \in list.hadMinted..Len(minted), s \in list.hadStripe..Len(stripe) :
             Turned(list.filter, ToSet(Seen), n, s, list.open, list.cursor)
      BY <2>3, <2>5 DEF PagesTurned
    <3>2. IsInjective(Seen)
      BY <2>3, <2>5 DEF PagesTurned
    <3>3. /\ n \in 0..Len(minted) /\ s \in 0..Len(stripe) /\ Len(stripe) \in Nat
          /\ Len(stripe) \in list.hadStripe..Len(stripe)
      BY <1>1, <1>7 DEF ListBounds, Filed
    <3>4. Turned(list.filter, ToSet(Seen), n, s, TRUE, list.cursor)
      BY <1>4, <3>1 DEF Turned
    <3>5. /\ IsInjective(Seen \o page.data)
          /\ \E m \in {s, Len(stripe)} :
                Turned(list.filter, ToSet(Seen \o page.data), n, m,
                       page.more /\ page.data # <<>>, Last(page.data))
      BY <1>1, <2>1, <3>2, <3>3, <3>4, LaterTurns
    <3>6. PICK m \in {s, Len(stripe)} :
             Turned(list.filter, ToSet(Seen \o page.data), n, m,
                    page.more /\ page.data # <<>>, Last(page.data))
      BY <3>5
    <3>7. Seen' = Seen \o page.data
      <4>1. FlattenSeq(Append(list.pages, page.data)) = FlattenSeq(list.pages) \o page.data
        BY <1>2, <1>7, FlattenAppend
      <4> QED BY <1>11, <4>1 DEF Seen
    <3>8. Turned(list.filter, ToSet(Seen \o page.data), n, m, more, cursor)
      BY <1>2, <3>6 DEF Turned
    <3>9. Turned(list.filter, ToSet(Seen), n, m, list.open, list.cursor)'
      BY <1>4, <1>11, <3>7, <3>8 DEF Turned, Faked
    <3>10. m \in list'.hadStripe..Len(stripe') /\ n \in list'.hadMinted..Len(minted')
      BY <1>4, <1>11, <3>3
    <3> QED BY <3>5, <3>7, <3>9, <3>10 DEF PagesTurned
  <2> QED BY <2>4, <2>5
<1> QED BY <1>12, <1>13, <1>14, <1>15 DEF StripeInv

\* So does every step of the charge.
LEMMA StripeStep == StripeInv /\ (StripeNext \/ UNCHANGED stripeVars) => StripeInv'
<1> SUFFICES ASSUME StripeInv, StripeNext \/ UNCHANGED stripeVars PROVE StripeInv'
  OBVIOUS
<1>1. ASSUME ~Through, NEW amount \in Amounts, StripeRefund(amount) PROVE StripeInv'
  BY <1>1, StripeRefundKeeps
<1>2. ASSUME ~Through, NEW c \in Calls,
             \/ \E amount \in Amounts \cup {NoAmount}, named \in BOOLEAN :
                   BeginRefund(c, amount, named)
             \/ CheckRefund(c)
             \/ FileRefund(c)
      PROVE  StripeInv'
  BY <1>2, CallKeeps, FileKeeps
<1>3. ASSUME NEW filter \in {"none", "charge", "payment_intent"}, NEW limit \in Limits,
             NEW odd \in BOOLEAN, BeginList(filter, limit, odd)
      PROVE  StripeInv'
  BY <1>3, BeginKeeps
<1>4. ASSUME ListPage PROVE StripeInv'
  BY <1>4, PageKeeps
<1>5. ASSUME EndList PROVE StripeInv'
  BY <1>5, EndKeeps
<1>6. CASE UNCHANGED stripeVars
  <2>1. stripe' = stripe /\ minted' = minted /\ list' = list /\ call' = call
    BY <1>6 DEF stripeVars
  <2>2. CallTyped' /\ CallsFit'
    BY <2>1 DEF StripeInv, CallTyped, CallsFit, CallFits
  <2> QED BY <2>1, <2>2, ListStays
<1> QED BY <1>1, <1>2, <1>3, <1>4, <1>5, <1>6 DEF StripeNext

\* A list that has been read to its end has every refund once, and the charge
\* has refunded what they come to.
LEMMA ListIsWhole == StripeInv => ListHoldsEveryRefundOnce
<1> SUFFICES ASSUME StripeInv PROVE ListHoldsEveryRefundOnce
  OBVIOUS
<1> SUFFICES ASSUME Through, ~list.partial PROVE ListHoldsEveryRefundOnce
  BY DEF ListHoldsEveryRefundOnce
<1>1. Filed /\ ListTyped /\ ListBounds /\ PagesTurned /\ list.told = Charge(minted).amount_refunded
  BY DEF StripeInv, Through
<1>2. /\ ~list.open /\ list.hadStripe \in Nat /\ list.hadMinted \in Nat
      /\ list.pages \in Seq(Seq(Int))
  BY <1>1 DEF Through, ListTyped
<1>3. PICK n \in list.hadMinted..Len(minted), s \in list.hadStripe..Len(stripe) :
         ToSet(Seen) = Faked(list.filter, 1, n) \cup 1..s
  BY <1>1, <1>2 DEF PagesTurned, Turned
<1>4. IsInjective(Seen) /\ Seen \in Seq(Int)
  BY <1>1, <1>2, FlattenSeqs DEF PagesTurned, Seen
<1>5. (1..list.hadStripe) \subseteq ToSet(Seen)
  <2>1. \A i \in 1..list.hadStripe : i \in 1..s
    BY <1>2
  <2> QED BY <1>3, <2>1
<1>6. {-i : i \in {j \in 1..list.hadMinted : Passes(minted[j], list.filter) = "yes"}}
         \subseteq ToSet(Seen)
  <2>1. \A i \in 1..list.hadMinted : i \in 1..n
    BY <1>2
  <2> QED BY <1>3, <2>1 DEF Faked
<1>7. ASSUME list.filter = "charge", list.hadStripe = Len(stripe), list.hadMinted = Len(minted)
      PROVE  list.told = Total([i \in DOMAIN Seen |-> AmountOf(Seen[i])])
  <2>1. Len(stripe) \in Nat /\ Len(minted) \in Nat
    BY <1>1 DEF Filed, Refunds
  <2>2. n = Len(minted) /\ s = Len(stripe)
    BY <1>7, <2>1
  <2> PICK f : f = stripe
    OBVIOUS
  <2> PICK g : g = [i \in 1..n |-> minted[i].amount]
    OBVIOUS
  <2>3. f \in Seq(Nat) /\ Len(f) = s /\ s \in Nat /\ n \in Nat
    BY <1>1, <2>1, <2>2 DEF Filed
  <2> PICK R : R = [amount : Nat, posted : BOOLEAN, named : BOOLEAN, saw : Nat, stripe : Nat,
                    passed : BOOLEAN]
    OBVIOUS
  <2>4. minted \in Seq(R) /\ Len(minted) = n
    BY <1>1, <2>2 DEF Filed, Refunds
  <2>5. \A i \in 1..n : minted[i].amount \in Nat
    <3> TAKE i \in 1..n
    <3>1. minted[i] \in R
      BY ONLY <2>3, <2>4, i \in 1..n
    <3> QED BY <3>1
  <2>6. g \in Seq(Nat) /\ Len(g) = n /\ \A i \in 1..n : g[i] = minted[i].amount
    BY <2>3, <2>5
  <2> PICK q : q = Seen
    OBVIOUS
  <2>7. q \in Seq(Int) /\ IsInjective(q) /\ DOMAIN q = 1..Len(q) /\ Len(q) \in Nat
    BY <1>4
  <2>8. \A i \in 1..Len(q) : q[i] \in 1..s \/ (-q[i] \in 1..n /\ q[i] < 0)
    <3> TAKE i \in 1..Len(q)
    <3>1. q[i] \in ToSet(q)
      BY <2>7 DEF ToSet
    <3>2. q[i] \in 1..s \/ q[i] \in Faked(list.filter, 1, n)
      BY <1>3, <3>1
    <3> QED BY <3>2 DEF Faked
  <2> PICK am : am = [i \in 1..Len(q) |-> AmountOf(q[i])]
    OBVIOUS
  <2>9. \A i \in 1..Len(q) : \/ q[i] \in 1..Len(f) /\ am[i] = f[q[i]]
                             \/ -q[i] \in 1..Len(g) /\ am[i] = g[-q[i]]
    <3> TAKE i \in 1..Len(q)
    <3>1. am[i] = AmountOf(q[i]) /\ q[i] \in Int
      BY <2>7
    <3>2. CASE q[i] \in 1..s
      <4>1. ~ q[i] < 0
        BY <3>2
      <4> QED BY <2>3, <3>1, <3>2, <4>1 DEF AmountOf
    <3>3. CASE -q[i] \in 1..n /\ q[i] < 0
      BY <2>6, <3>1, <3>3 DEF AmountOf
    <3> QED BY <2>8, <3>2, <3>3
  <2>10. am \in Seq(Nat) /\ Len(am) = Len(q)
    <3>1. \A i \in 1..Len(q) : AmountOf(q[i]) \in Nat
      <4> TAKE i \in 1..Len(q)
      <4>1. am[i] = AmountOf(q[i])
        OBVIOUS
      <4>2. am[i] \in Nat
        <5>1. CASE q[i] \in 1..Len(f) /\ am[i] = f[q[i]]
          BY ONLY <2>3, <5>1
        <5>2. CASE -q[i] \in 1..Len(g) /\ am[i] = g[-q[i]]
          BY ONLY <2>6, <5>2
        <5> QED BY ONLY <2>9, <5>1, <5>2, i \in 1..Len(q), Zenon
      <4> QED BY <4>1, <4>2
    <3> QED BY <2>7, <3>1
  <2>11. Total(am) = Total(Of(ToSet(q), f, 1)) + Total(Of(ToSet(q), g, -1))
    BY ONLY <2>3, <2>6, <2>7, <2>9, <2>10, SumOver, ZenonT(30)
  <2>12. Of(ToSet(q), f, 1) = f
    <3>1. \A i \in 1..Len(f) : 1 * i \in ToSet(q)
      BY <1>3, <2>3
    <3> QED BY <2>3, <3>1, OfFacts
  <2>13. Of(ToSet(q), g, -1) = OfCharge(minted)
    <3>1. minted \in Refunds
      BY <1>1 DEF Filed
    <3>2. /\ OfCharge(minted) \in Seq(Nat) /\ Len(OfCharge(minted)) = n
          /\ \A i \in 1..n : OfCharge(minted)[i] = IF minted[i].named THEN minted[i].amount ELSE 0
      BY <2>2, <3>1, OfChargeFacts
    <3>3. /\ Of(ToSet(q), g, -1) \in Seq(Nat) /\ Len(Of(ToSet(q), g, -1)) = n
          /\ \A i \in 1..n : Of(ToSet(q), g, -1)[i] = IF (-1) * i \in ToSet(q) THEN g[i] ELSE 0
      <4>1. -1 \in {1, -1}
        OBVIOUS
      <4>2. g \in Seq(Nat)
        BY <2>6
      <4>3. /\ Of(ToSet(q), g, -1) \in Seq(Nat) /\ Len(Of(ToSet(q), g, -1)) = Len(g)
            /\ \A i \in 1..Len(g) :
                  Of(ToSet(q), g, -1)[i] = IF (-1) * i \in ToSet(q) THEN g[i] ELSE 0
        BY ONLY <4>1, <4>2, OfFacts
      <4> QED BY <2>6, <4>3
    <3>4. \A i \in 1..n : (-1) * i \in ToSet(q) <=> minted[i].named
      <4> TAKE i \in 1..n
      <4>1. (-1) * i = -i /\ -i \notin 1..s
        BY <2>3
      <4>2. -i \in Faked(list.filter, 1, n) <=> Passes(minted[i], list.filter) = "yes"
        BY DEF Faked
      <4>3. Passes(minted[i], list.filter) = "yes" <=> minted[i].named
        <5>1. CASE minted[i].named
          BY <1>7, <5>1 DEF Passes
        <5>2. CASE ~minted[i].named
          BY <1>7, <5>2 DEF Passes
        <5> QED BY <5>1, <5>2
      <4> QED BY <1>3, <4>1, <4>2, <4>3
    <3>5. \A i \in 1..n : Of(ToSet(q), g, -1)[i] = OfCharge(minted)[i]
      <4> TAKE i \in 1..n
      <4>1. CASE minted[i].named
        BY <2>6, <3>2, <3>3, <3>4, <4>1
      <4>2. CASE ~minted[i].named
        BY <2>6, <3>2, <3>3, <3>4, <4>2
      <4> QED BY <4>1, <4>2
    <3> QED BY <3>2, <3>3, <3>5, SeqEqual
  <2>14. Charge(minted).amount_refunded = Total(stripe) + Total(OfCharge(minted))
    BY <1>1, ChargeFacts DEF Filed
  <2>15. am = [i \in DOMAIN Seen |-> AmountOf(Seen[i])]
    BY <2>7
  <2> QED BY <1>1, <2>11, <2>12, <2>13, <2>14, <2>15
<1> QED BY <1>4, <1>5, <1>6, <1>7 DEF ListHoldsEveryRefundOnce

\* In every state of an agent and the charge.
LEMMA StripeHolds == Spec => []StripeInv
<1>1. Init => StripeInv
  BY StripeStarts DEF Init
<1>2. StripeInv /\ [Next]_vars => StripeInv'
  <2> SUFFICES ASSUME StripeInv, [Next]_vars PROVE StripeInv'
    OBVIOUS
  <2>1. StripeNext \/ UNCHANGED stripeVars
    BY DEF Next, vars
  <2> QED BY <2>1, StripeStep
<1> QED BY <1>1, <1>2, PTL DEF Spec

\* A refund whose check passed takes no more than was left of the charge by Stripe's
\* own at its check and by the run's that were filed before its request was planned,
\* and a list of refunds that is read to its end has each once or says that it is
\* partial: for every charge, any amounts and limits, any number of calls under way
\* at once, and however many refunds are made by anybody meanwhile.
THEOREM RefundsAgree == Spec => []RefundsAddUp
<1>1. StripeInv => RefundsAddUp
  BY ListIsWhole DEF StripeInv, RefundsAddUp
<1> QED BY <1>1, StripeHolds, PTL

-----------------------------------------------------------------------------
(* The channel: its messages and the ids of the run's posts. *)

\* A set of numbers with a bound has a greatest one.
LEMMA GreatestExists ==
    ASSUME NEW S, S \subseteq Nat, S # {}, NEW n \in Nat, \A i \in S : i <= n
    PROVE  \E e \in S : \A j \in S : j <= e
<1> DEFINE Bounds == {k \in Nat : \A j \in S : j <= k}
<1>1. Bounds \subseteq Nat /\ Bounds # {}
  OBVIOUS
<1>2. PICK e \in Bounds : \A k \in Bounds : ~ (<<k, e>> \in OpToRel(<, Nat))
  BY <1>1, NatLessThanWellFounded, WFMin
<1>3. ASSUME NEW k \in Bounds, k < e PROVE FALSE
  <2>1. <<k, e>> \in OpToRel(<, Nat)
    BY <1>3 DEF OpToRel
  <2> QED BY <1>2, <2>1
<1>4. e \in S
  <2> SUFFICES ASSUME e \notin S PROVE FALSE
    OBVIOUS
  <2>1. e \in Nat /\ \A j \in S : j \in Nat /\ j <= e /\ j # e
    OBVIOUS
  <2>2. PICK j \in S : j \in Nat /\ j <= e /\ j # e
    BY <2>1
  <2>3. e - 1 \in Nat /\ e - 1 < e
    BY <2>1, <2>2
  <2>4. \A m \in Nat : m <= e /\ m # e => m <= e - 1
    BY <2>1
  <2>5. \A m \in S : m <= e - 1
    BY <2>1, <2>4
  <2> QED BY <1>3, <2>3, <2>5
<1> QED BY <1>4

\* The greatest of the numbers of a sequence, and 0.
LEMMA MaxOfFacts ==
    ASSUME NEW n \in Nat, NEW f \in [1..n -> Nat], NEW last0 \in Nat,
           NEW S, S = {last0} \cup {f[i] : i \in 1..n}
    PROVE  MaxOf(S) \in Nat /\ MaxOf(S) \in S \cup {NoTs} /\ \A x \in S : x <= MaxOf(S)
<1> DEFINE T == {m \in Nat : m <= n => \E b \in Nat : last0 <= b /\ \A i \in 1..m : f[i] <= b}
<1>1. 0 \in T
  BY SMT
<1>2. ASSUME NEW m \in T \cap Nat PROVE m + 1 \in T
  <2>1. m + 1 \in Nat
    OBVIOUS
  <2>2. SUFFICES ASSUME m + 1 <= n
                 PROVE  \E b \in Nat : last0 <= b /\ \A i \in 1..(m + 1) : f[i] <= b
    BY <2>1
  <2>3. PICK b \in Nat : last0 <= b /\ \A i \in 1..m : f[i] <= b
    BY <2>2
  <2>4. f[m + 1] \in Nat
    BY <2>2
  <2> PICK c : c = IF f[m + 1] <= b THEN b ELSE f[m + 1]
    OBVIOUS
  <2>5. c \in Nat /\ b <= c /\ f[m + 1] <= c
    BY <2>4
  <2>6. \A i \in 1..(m + 1) : f[i] <= c
    <3> TAKE i \in 1..(m + 1)
    <3>1. CASE i = m + 1
      BY <2>5, <3>1
    <3>2. CASE i # m + 1
      <4>1. i \in 1..m /\ f[i] \in Nat
        BY <2>2, <3>2
      <4> QED BY <2>3, <2>5, <4>1
    <3> QED BY <3>1, <3>2
  <2> QED BY <2>3, <2>5, <2>6
<1> HIDE DEF T
<1>3. n \in T
  BY <1>1, <1>2, Induction
<1>4. PICK b \in Nat : last0 <= b /\ \A i \in 1..n : f[i] <= b
  BY <1>3 DEF T
<1> PICK all : all = S \cup {NoTs}
  OBVIOUS
<1>5. all \subseteq Nat /\ all # {} /\ \A x \in all : x <= b
  BY <1>4 DEF NoTs
<1>6. PICK e \in all : \A x \in all : x <= e
  BY <1>5, GreatestExists
<1>7. Max(all) \in all /\ \A x \in all : Max(all) >= x
  <2>1. \E y \in all : \A x \in all : y >= x
    BY <1>5, <1>6
  <2> QED BY <2>1 DEF Max
<1> QED BY <1>5, <1>7 DEF MaxOf

\* w has the numbers up to m that are in places, each once and in order.
Places(w, m, places) ==
    /\ w \in Seq(Nat)
    /\ \A i, j \in 1..Len(w) : i < j => w[i] < w[j]
    /\ \A i \in 1..Len(w) : w[i] \in 1..m /\ w[i] \in places
    /\ \A k \in 1..m : k \in places => \E i \in 1..Len(w) : w[i] = k

\* The steps of what is picked.
Picking(messages, places, S) ==
    [i \in 1..Len(messages) |->
        [a \in Seq(S) |-> IF i \in places THEN Append(a, messages[i]) ELSE a]]

\* What is picked is built a message at a time.
LEMMA PickedRuns ==
    ASSUME NEW S, NEW messages \in Seq(S), NEW places
    PROVE  \E g : /\ Runs(g, Seq(S), Len(messages), <<>>, Picking(messages, places, S))
                  /\ Picked(messages, places) = g[Len(messages)]
<1> DEFINE upto[i \in 0..Len(messages)] ==
            IF i = 0 THEN <<>>
            ELSE IF i \in places THEN Append(upto[i - 1], messages[i])
            ELSE upto[i - 1]
<1>0. Len(messages) \in Nat /\ <<>> \in Seq(S)
  OBVIOUS
<1>p. Picking(messages, places, S) \in [1..Len(messages) -> [Seq(S) -> Seq(S)]]
  <2>1. ASSUME NEW i \in 1..Len(messages), NEW a \in Seq(S)
        PROVE  (IF i \in places THEN Append(a, messages[i]) ELSE a) \in Seq(S)
    OBVIOUS
  <2> QED BY <2>1 DEF Picking
<1>1. PICK g : Runs(g, Seq(S), Len(messages), <<>>, Picking(messages, places, S))
  BY <1>0, <1>p, Recursion
<1>2. ASSUME NEW i \in 1..Len(messages)
      PROVE  g[i] = IF i \in places THEN Append(g[i - 1], messages[i]) ELSE g[i - 1]
  <2>1. i - 1 \in 0..Len(messages)
    BY <1>0
  <2>2. g[i - 1] \in Seq(S)
    BY <1>1, <2>1 DEF Runs
  <2>3. g[i] = Picking(messages, places, S)[i][g[i - 1]]
    BY <1>1 DEF Runs
  <2> QED BY <2>2, <2>3 DEF Picking
<1>3. g[0] = <<>> /\ g \in [0..Len(messages) -> Seq(S)]
  BY <1>1 DEF Runs
<1>4. g = [i \in 0..Len(messages) |->
            IF i = 0 THEN <<>>
            ELSE IF i \in places THEN Append(g[i - 1], messages[i])
            ELSE g[i - 1]]
  <2>1. \A i \in 0..Len(messages) : i # 0 => i \in 1..Len(messages)
    BY <1>0
  <2> QED BY <1>2, <1>3, <2>1
<1>5. upto = [i \in 0..Len(messages) |->
            IF i = 0 THEN <<>>
            ELSE IF i \in places THEN Append(upto[i - 1], messages[i])
            ELSE upto[i - 1]]
  BY <1>4
<1>6. Picked(messages, places) = upto[Len(messages)]
  BY DEF Picked
<1> HIDE DEF upto
<1> DEFINE T == {m \in Nat : m <= Len(messages) => upto[m] = g[m]}
<1>7. Len(messages) \in T
  <2>1. 0 \in T
    <3>1. 0 \in 0..Len(messages)
      BY <1>0
    <3>2. upto[0] = IF 0 = 0 THEN <<>>
                    ELSE IF 0 \in places THEN Append(upto[0 - 1], messages[0])
                    ELSE upto[0 - 1]
      BY <1>5, <3>1
    <3>3. upto[0] = g[0]
      BY <1>3, <3>2
    <3> QED BY <3>3
  <2>2. ASSUME NEW m \in T \cap Nat PROVE m + 1 \in T
    <3>1. m + 1 \in Nat
      OBVIOUS
    <3>2. SUFFICES ASSUME m + 1 <= Len(messages) PROVE upto[m + 1] = g[m + 1]
      BY <3>1
    <3>3. m + 1 \in 0..Len(messages) /\ m + 1 # 0 /\ (m + 1) - 1 = m /\ m + 1 \in 1..Len(messages)
      BY <1>0, <3>2
    <3>4. upto[m] = g[m]
      BY <1>0, <3>2
    <3> HIDE DEF T
    <3>5. upto[m + 1] = IF m + 1 \in places THEN Append(upto[m], messages[m + 1]) ELSE upto[m]
      BY <1>5, <3>3
    <3>6. g[m + 1] = IF m + 1 \in places THEN Append(g[m], messages[m + 1]) ELSE g[m]
      BY <1>2, <3>3
    <3> QED BY <3>4, <3>5, <3>6
  <2> HIDE DEF T
  <2> QED BY <2>1, <2>2, <1>0, Induction
<1> QED BY <1>0, <1>1, <1>6, <1>7

\* What is picked are the messages at the places, in order.
LEMMA PickedFacts ==
    ASSUME NEW S, NEW messages \in Seq(S), NEW places
    PROVE  /\ Picked(messages, places) \in Seq(S)
           /\ \E w : /\ Places(w, Len(messages), places)
                     /\ Len(Picked(messages, places)) = Len(w)
                     /\ \A i \in 1..Len(w) : Picked(messages, places)[i] = messages[w[i]]
<1>0. Len(messages) \in Nat /\ Len(messages) \in 0..Len(messages)
  OBVIOUS
<1>1. PICK g : /\ Runs(g, Seq(S), Len(messages), <<>>, Picking(messages, places, S))
               /\ Picked(messages, places) = g[Len(messages)]
  BY PickedRuns
<1> DEFINE T == {m \in Nat : m <= Len(messages) =>
                    \E w : /\ Places(w, m, places) /\ Len(g[m]) = Len(w)
                           /\ \A i \in 1..Len(w) : g[m][i] = messages[w[i]]}
<1>2. 0 \in T
  <2>1. g[0] = <<>>
    BY <1>1 DEF Runs
  <2>2. Places(<<>>, 0, places)
    <3>1. <<>> \in Seq(Nat) /\ Len(<<>>) = 0
      OBVIOUS
    <3> QED BY <3>1 DEF Places
  <2>3. Len(g[0]) = Len(<<>>) /\ \A i \in 1..Len(<<>>) : g[0][i] = messages[<<>>[i]]
    BY <2>1
  <2> QED BY <2>2, <2>3
<1>3. ASSUME NEW m \in T \cap Nat PROVE m + 1 \in T
  <2>1. m + 1 \in Nat
    OBVIOUS
  <2>2. SUFFICES ASSUME m + 1 <= Len(messages)
                 PROVE  \E w : /\ Places(w, m + 1, places) /\ Len(g[m + 1]) = Len(w)
                               /\ \A i \in 1..Len(w) : g[m + 1][i] = messages[w[i]]
    BY <2>1
  <2>3. PICK w : /\ Places(w, m, places) /\ Len(g[m]) = Len(w)
                 /\ \A i \in 1..Len(w) : g[m][i] = messages[w[i]]
    BY <1>0, <2>2
  <2> HIDE DEF T
  <2>4. m + 1 \in 1..Len(messages) /\ (m + 1) - 1 = m /\ m \in 0..Len(messages)
    BY <1>0, <2>2
  <2> PICK a : a = g[m]
    OBVIOUS
  <2>5. a \in Seq(S) /\ messages[m + 1] \in S
    BY <1>1, <2>4 DEF Runs
  <2>6. g[m + 1] = IF m + 1 \in places THEN Append(a, messages[m + 1]) ELSE a
    <3>1. g[m + 1] = Picking(messages, places, S)[m + 1][a]
      BY <1>1, <2>4 DEF Runs
    <3> QED BY <2>4, <2>5, <3>1 DEF Picking
  <2>7. /\ w \in Seq(Nat) /\ Len(w) \in Nat
        /\ \A i, j \in 1..Len(w) : i < j => w[i] < w[j]
        /\ \A i \in 1..Len(w) : w[i] \in 1..m /\ w[i] \in places
        /\ \A k \in 1..m : k \in places => \E i \in 1..Len(w) : w[i] = k
    BY <2>3 DEF Places
  <2>8. CASE m + 1 \in places
    <3> PICK v : v = Append(w, m + 1)
      OBVIOUS
    <3>1. /\ v \in Seq(Nat) /\ Len(v) = Len(w) + 1 /\ v[Len(w) + 1] = m + 1
          /\ \A i \in 1..Len(w) : v[i] = w[i]
      BY <2>1, <2>7
    <3>2. \A i, j \in 1..Len(v) : i < j => v[i] < v[j]
      <4> SUFFICES ASSUME NEW i \in 1..Len(v), NEW j \in 1..Len(v), i < j PROVE v[i] < v[j]
        OBVIOUS
      <4>1. i \in 1..Len(w)
        BY <2>7, <3>1
      <4>2. CASE j = Len(w) + 1
        BY <2>7, <3>1, <4>1, <4>2
      <4>3. CASE j # Len(w) + 1
        <5>1. j \in 1..Len(w)
          <6>1. Len(w) \in Nat /\ Len(v) = Len(w) + 1 /\ j \in 1..Len(v)
            BY <2>7, <3>1
          <6> QED BY ONLY <4>3, <6>1
        <5> QED BY <2>7, <3>1, <4>1, <5>1
      <4> QED BY <4>2, <4>3
    <3>3. \A i \in 1..Len(v) : v[i] \in 1..(m + 1) /\ v[i] \in places
      <4> TAKE i \in 1..Len(v)
      <4>1. CASE i = Len(w) + 1
        BY <2>1, <2>8, <3>1, <4>1
      <4>2. CASE i # Len(w) + 1
        <5>1. i \in 1..Len(w)
          <6>1. Len(w) \in Nat /\ Len(v) = Len(w) + 1 /\ i \in 1..Len(v)
            BY <2>7, <3>1
          <6> QED BY ONLY <4>2, <6>1
        <5> QED BY <2>7, <3>1, <5>1
      <4> QED BY <4>1, <4>2
    <3>4. \A k \in 1..(m + 1) : k \in places => \E i \in 1..Len(v) : v[i] = k
      <4> SUFFICES ASSUME NEW k \in 1..(m + 1), k \in places PROVE \E i \in 1..Len(v) : v[i] = k
        OBVIOUS
      <4>1. CASE k = m + 1
        BY <2>7, <3>1, <4>1
      <4>2. CASE k # m + 1
        <5>1. k \in 1..m
          BY <4>2
        <5>2. PICK i \in 1..Len(w) : w[i] = k
          BY <2>7, <5>1
        <5>3. i \in 1..Len(v) /\ v[i] = k
          BY <2>7, <3>1, <5>2
        <5> QED BY <5>3
      <4> QED BY <4>1, <4>2
    <3>5. Places(v, m + 1, places)
      BY <3>1, <3>2, <3>3, <3>4 DEF Places
    <3> PICK b : b = Append(a, messages[m + 1])
      OBVIOUS
    <3>6. Len(b) = Len(v) /\ b[Len(w) + 1] = messages[m + 1] /\ \A i \in 1..Len(w) : b[i] = a[i]
      BY <2>3, <2>5, <2>7, <3>1
    <3>7. \A i \in 1..Len(v) : b[i] = messages[v[i]]
      <4> TAKE i \in 1..Len(v)
      <4>1. CASE i = Len(w) + 1
        BY <3>1, <3>6, <4>1
      <4>2. CASE i # Len(w) + 1
        <5>1. i \in 1..Len(w)
          <6>1. Len(w) \in Nat /\ Len(v) = Len(w) + 1 /\ i \in 1..Len(v)
            BY <2>7, <3>1
          <6> QED BY ONLY <4>2, <6>1
        <5> QED BY <2>3, <3>1, <3>6, <5>1
      <4> QED BY <4>1, <4>2
    <3>8. g[m + 1] = b
      BY <2>6, <2>8
    <3>9. Len(g[m + 1]) = Len(v) /\ \A i \in 1..Len(v) : g[m + 1][i] = messages[v[i]]
      BY ONLY <3>6, <3>7, <3>8
    <3> QED BY ONLY <3>5, <3>9
  <2>9. CASE m + 1 \notin places
    <3>1. \A k \in 1..(m + 1) : k \in places => k \in 1..m
      BY <2>9
    <3>2. Places(w, m + 1, places)
      BY <2>7, <3>1 DEF Places
    <3> QED BY <2>3, <2>6, <2>9, <3>2
  <2> QED BY <2>8, <2>9
<1> HIDE DEF T
<1>4. Len(messages) \in T
  BY <1>0, <1>2, <1>3, Induction
<1>5. Picked(messages, places) \in Seq(S)
  BY <1>0, <1>1 DEF Runs
<1> QED BY <1>0, <1>1, <1>4, <1>5 DEF T

\* Slack's own messages, and the run's posts.
Written == [ts : Nat, thread : Nat]

Posted == [ts : Nat, channel : {"here", "there", "name"}, thread : Nat, broadcast : BOOLEAN,
          whole : BOOLEAN, after : Nat]

ChannelTyped ==
    /\ {now, last, newest} \subseteq Nat
    /\ fixture \in BOOLEAN
    /\ real \in Seq(Written)
    /\ posts \in Seq(Posted)

\* The clock of the ids is ahead of all that the agent was shown and of every post.
ClockAhead ==
    /\ newest <= last
    /\ \A i \in 1..Len(posts) : posts[i].ts <= last

ChannelInv == ChannelTyped /\ ClockAhead /\ PostsSortAfterWhatWasRead

\* What is left of a read are messages of Slack's.
LEMMA LeftFacts ==
    ASSUME real \in Seq(Written), NEW r
    PROVE  Left(r) \in Seq(Written)
<1>1. HistoryLeft(r) \in Seq(Written)
  <2> PICK places : places = {i \in Answers(NoTs) : /\ Inside(real[i].ts, r)
                                                    /\ r.cursor # NoTs => real[i].ts < r.cursor}
    OBVIOUS
  <2>1. Picked(real, places) \in Seq(Written)
    BY PickedFacts, Zenon
  <2>2. ASSUME NEW q \in Seq(Written) PROVE Reverse(q) \in Seq(Written)
    BY DEF Reverse
  <2>3. HistoryLeft(r) = Reverse(Picked(real, places))
    BY DEF HistoryLeft
  <2> QED BY ONLY <2>1, <2>2, <2>3
<1>2. RepliesLeft(r) \in Seq(Written)
  BY PickedFacts, Zenon DEF RepliesLeft
<1> QED BY <1>1, <1>2 DEF Left

\* What a page has of it is its beginning.
LEMMA CutFacts ==
    ASSUME real \in Seq(Written), NEW r
    PROVE  /\ Cut(r) \in Seq(Written)
           /\ Len(Cut(r)) <= Len(Left(r))
           /\ \A i \in 1..Len(Cut(r)) : Cut(r)[i] = Left(r)[i]
<1> PICK q : q = Left(r)
  OBVIOUS
<1>1. q \in Seq(Written) /\ Len(q) \in Nat
  BY LeftFacts
<1>2. CASE r.limited
  <2> PICK k : k = Min({PageSize, Len(q)})
    OBVIOUS
  <2>1. k \in Nat /\ k <= Len(q)
    BY <1>1, MinOfTwo, SlackAssumption
  <2>2. Cut(r) = SubSeq(q, 1, k)
    BY <1>2 DEF Cut
  <2>3. /\ SubSeq(q, 1, k) \in Seq(Written) /\ Len(SubSeq(q, 1, k)) = k
        /\ \A i \in 1..k : SubSeq(q, 1, k)[i] = q[i]
    BY ONLY <1>1, <2>1
  <2> QED BY <2>1, <2>2, <2>3
<1>3. CASE ~r.limited
  BY <1>1, <1>3 DEF Cut
<1> QED BY <1>2, <1>3

\* What a page sends: messages Slack has.
LEMMA SentFacts ==
    ASSUME real \in Seq(Written), NEW r
    PROVE  Parents(r) \o Cut(r) \in Seq(Written)
<1>1. Parents(r) \in Seq(Written)
  <2>1. Picked(real, {i \in DOMAIN real : real[i].ts = r.thread}) \in Seq(Written)
    BY PickedFacts, Zenon
  <2>2. <<>> \in Seq(Written)
    OBVIOUS
  <2> QED BY ONLY <2>1, <2>2 DEF Parents
<1> QED BY <1>1, CutFacts

\* The ids of an answer are numbers.
LEMMA SentTimes ==
    ASSUME real \in Seq(Written), NEW r
    PROVE  \E n \in Nat : \E f \in [1..n -> Nat] :
              /\ DOMAIN Answered(r).messages = 1..n
              /\ \A i \in 1..n : Answered(r).messages[i].ts = f[i]
<1> PICK q : q = Parents(r) \o Cut(r)
  OBVIOUS
<1>1. q \in Seq(Written) /\ Len(q) \in Nat /\ DOMAIN q = 1..Len(q)
  BY SentFacts
<1>2. Answered(r).messages = [i \in DOMAIN q |-> Live(q[i])]
  BY DEF Answered
<1>3. \A i \in DOMAIN q : Live(q[i]).ts = q[i].ts
  BY DEF Live
<1>4. \A i \in DOMAIN q : q[i].ts \in Nat
  <2>1. \A i \in DOMAIN q : q[i] \in Written
    BY ONLY <1>1
  <2> QED BY <2>1 DEF Written
<1>5. /\ [i \in 1..Len(q) |-> q[i].ts] \in [1..Len(q) -> Nat]
      /\ DOMAIN Answered(r).messages = 1..Len(q)
      /\ \A i \in 1..Len(q) : Answered(r).messages[i].ts = [k \in 1..Len(q) |-> q[k].ts][i]
  BY <1>1, <1>2, <1>3, <1>4
<1> QED BY <1>1, <1>5

\* A channel begins with irimi's clock at no time.
LEMMA ChannelStarts == SlackInit => ChannelInv
<1> SUFFICES ASSUME SlackInit PROVE ChannelInv
  OBVIOUS
<1>1. ChannelTyped
  BY DEF SlackInit, ChannelTyped, NoTs
<1>2. Len(posts) = 0 /\ DOMAIN posts = {} /\ newest <= last
  BY DEF SlackInit, NoTs
<1>3. ClockAhead /\ PostsSortAfterWhatWasRead
  BY <1>2 DEF ClockAhead, PostsSortAfterWhatWasRead
<1> QED BY <1>1, <1>3 DEF ChannelInv

\* A post gets an id after every one before it.
LEMMA MintAhead ==
    ASSUME ChannelTyped PROVE Mint \in Nat /\ Mint > last
<1>1. /\ now \in Nat /\ last \in Nat /\ Carry \in Nat /\ Carry # 0
  BY SlackAssumption DEF ChannelTyped
<1> PICK d : d = last \div Carry
  OBVIOUS
<1>2. d \in Nat /\ last < (d + 1) * Carry
  BY <1>1, SMTT(30)
<1>3. CASE now > d
  <2>1. now * Carry >= (d + 1) * Carry /\ now * Carry \in Nat
    BY <1>1, <1>2, <1>3, SMTT(30)
  <2>2. Mint = now * Carry
    BY <1>3 DEF Mint
  <2> QED BY <1>1, <1>2, <2>1, <2>2, SMTT(30)
<1>4. CASE ~(now > d)
  BY <1>1, <1>4 DEF Mint
<1> QED BY <1>3, <1>4

\* The tops of the threads are times.
LEMMA TopsAreNat == ASSUME ChannelTyped PROVE Tops \subseteq Nat
<1>1. \A m \in ToSet(real) : m.ts \in Nat
  <2>1. real \in Seq(Written)
    BY DEF ChannelTyped
  <2>2. \A i \in DOMAIN real : real[i] \in Written
    BY ONLY <2>1
  <2>3. \A i \in DOMAIN real : real[i].ts \in Nat
    BY <2>2 DEF Written
  <2> QED BY <2>3 DEF ToSet
<1>2. \A m \in Posts : m.ts \in Nat
  <2>1. posts \in Seq(Posted)
    BY DEF ChannelTyped
  <2>2. \A i \in DOMAIN posts : posts[i] \in Posted
    BY ONLY <2>1
  <2>3. \A i \in DOMAIN posts : posts[i].ts \in Nat
    <3> TAKE i \in DOMAIN posts
    <3>1. posts[i] \in Posted
      BY ONLY <2>2
    <3> QED BY ONLY <3>1 DEF Posted
  <2> QED BY <2>3 DEF Posts, ToSet
<1> QED BY <1>1, <1>2 DEF Tops

\* A message of somebody else leaves irimi's clock ahead of what was shown.
LEMMA RealMessageKeeps ==
    ASSUME ChannelInv, NEW ts \in RealTimes, NEW thread \in {NoTs} \cup Tops, RealMessage(ts, thread)
    PROVE  ChannelInv'
<1> PICK m : m = [ts |-> ts, thread |-> thread]
  OBVIOUS
<1>1. m \in Written
  BY TopsAreNat, SlackAssumption DEF ChannelInv, Written, NoTs
<1>2. real \in Seq(Written) /\ real' = Append(real, m)
  BY DEF ChannelInv, ChannelTyped, RealMessage
<1>3. real' \in Seq(Written)
  BY ONLY <1>1, <1>2
<1>4. UNCHANGED <<now, last, fixture, posts, newest>>
  BY DEF RealMessage
<1> QED BY <1>3, <1>4 DEF ChannelInv, ChannelTyped, ClockAhead, PostsSortAfterWhatWasRead

\* So does a post, which takes the next time.
LEMMA PostKeeps ==
    ASSUME ChannelInv, NEW channel \in {"here", "there", "name"}, NEW thread \in {NoTs} \cup Tops,
           NEW broadcast \in BOOLEAN, Post(channel, thread, broadcast)
    PROVE  ChannelInv'
<1> PICK p : p = [ts |-> Mint, channel |-> channel, thread |-> thread,
                  broadcast |-> broadcast, whole |-> fixture, after |-> newest]
  OBVIOUS
<1>0. ChannelTyped /\ ClockAhead /\ PostsSortAfterWhatWasRead
  BY DEF ChannelInv
<1>1. Mint \in Nat /\ Mint > last
  BY <1>0, MintAhead
<1>2. thread \in Nat /\ fixture \in BOOLEAN /\ newest \in Nat /\ last \in Nat /\ newest <= last
  BY <1>0, TopsAreNat DEF ChannelTyped, ClockAhead, NoTs
<1>3. p \in Posted
  <2> PICK t : t = Mint
    OBVIOUS
  <2> PICK w : w = fixture
    OBVIOUS
  <2>1. p = [ts |-> t, channel |-> channel, thread |-> thread,
             broadcast |-> broadcast, whole |-> w, after |-> newest]
    OBVIOUS
  <2>2. t \in Nat /\ w \in BOOLEAN
    BY <1>1, <1>2
  <2> QED BY ONLY <1>2, <2>1, <2>2, channel \in {"here", "there", "name"}, broadcast \in BOOLEAN,
            Zenon DEF Posted
<1>4. p.ts = Mint /\ p.after = newest
  OBVIOUS
<1>5. posts \in Seq(Posted) /\ posts' = Append(posts, p) /\ last' = Mint
      /\ UNCHANGED <<now, fixture, real, newest>>
  BY <1>0 DEF Post, ChannelTyped
<1> PICK FR : FR = Posted
  OBVIOUS
<1>6. /\ posts' \in Seq(Posted) /\ Len(posts) \in Nat /\ Len(posts') = Len(posts) + 1
      /\ posts'[Len(posts) + 1] = p /\ \A i \in 1..Len(posts) : posts'[i] = posts[i]
      /\ DOMAIN posts' = 1..Len(posts') /\ DOMAIN posts = 1..Len(posts)
  <2>1. p \in FR /\ posts \in Seq(FR)
    BY <1>3, <1>5
  <2>2. Append(posts, p) \in Seq(FR) /\ Len(posts) \in Nat /\ Len(Append(posts, p)) = Len(posts) + 1
        /\ Append(posts, p)[Len(posts) + 1] = p
        /\ \A i \in 1..Len(posts) : Append(posts, p)[i] = posts[i]
        /\ DOMAIN Append(posts, p) = 1..Len(Append(posts, p)) /\ DOMAIN posts = 1..Len(posts)
    BY ONLY <2>1
  <2> QED BY ONLY <1>5, <2>2, FR = Posted
<1>7. \A i \in 1..Len(posts) : posts[i].ts \in Nat
  <2> TAKE i \in 1..Len(posts)
  <2>1. posts[i] \in Posted
    BY ONLY <1>5, i \in 1..Len(posts)
  <2> QED BY ONLY <2>1 DEF Posted
<1>8. \A i \in 1..Len(posts) : posts[i].ts <= last /\ posts[i].ts < Mint
  BY ONLY <1>0, <1>1, <1>2, <1>7 DEF ClockAhead
<1> PICK ahead : ahead = Mint
  OBVIOUS
<1>9. ClockAhead'
  <2>1. \A i \in 1..Len(posts') : posts'[i].ts <= ahead
    <3> TAKE i \in 1..Len(posts')
    <3>1. CASE i = Len(posts) + 1
      BY ONLY <1>1, <1>4, <1>6, <3>1, ahead = Mint
    <3>2. CASE i # Len(posts) + 1
      <4>1. i \in 1..Len(posts)
        BY ONLY <1>6, <3>2, i \in 1..Len(posts')
      <4> QED BY ONLY <1>1, <1>6, <1>7, <1>8, <4>1, ahead = Mint
    <3> QED BY <3>1, <3>2
  <2>2. newest' <= last'
    BY <1>1, <1>2, <1>5
  <2>3. last' = ahead
    BY <1>5
  <2> QED BY ONLY <2>1, <2>2, <2>3 DEF ClockAhead
<1>10. PostsSortAfterWhatWasRead'
  <2>1. ASSUME NEW i \in 1..Len(posts')
        PROVE  posts'[i].ts > posts'[i].after /\ \A j \in 1..i - 1 : posts'[j].ts < posts'[i].ts
    <3>1. CASE i = Len(posts) + 1
      <4>1. posts'[i] = p
        BY <1>6, <3>1
      <4>2. Mint > newest
        BY <1>1, <1>2
      <4>3. \A j \in 1..i - 1 : j \in 1..Len(posts)
        BY ONLY <1>6, <3>1
      <4> QED BY ONLY <1>4, <1>6, <1>8, <4>1, <4>2, <4>3
    <3>2. CASE i # Len(posts) + 1
      <4>1. i \in 1..Len(posts) /\ \A j \in 1..i - 1 : j \in 1..Len(posts)
        BY ONLY <1>6, <3>2, i \in 1..Len(posts')
      <4> QED BY ONLY <1>0, <1>6, <4>1 DEF PostsSortAfterWhatWasRead
    <3> QED BY <3>1, <3>2
  <2>2. \A i \in 1..Len(posts') :
            posts'[i].ts > posts'[i].after /\ \A j \in 1..i - 1 : posts'[j].ts < posts'[i].ts
    BY ONLY <2>1
  <2>3. DOMAIN posts' = 1..Len(posts')
    BY <1>6
  <2> QED BY ONLY <2>2, <2>3, Zenon DEF PostsSortAfterWhatWasRead
<1>11. ChannelTyped'
  <2>1. last' \in Nat /\ now' \in Nat /\ newest' \in Nat /\ fixture' \in BOOLEAN
        /\ real' \in Seq(Written)
    BY <1>0, <1>1, <1>5 DEF ChannelTyped
  <2> QED BY ONLY <1>6, <2>1 DEF ChannelTyped
<1> QED BY <1>9, <1>10, <1>11 DEF ChannelInv

\* So does a page, whose times are observed.
LEMMA PageAhead ==
    ASSUME ChannelInv, Page PROVE ChannelInv'
<1>1. real \in Seq(Written) /\ last \in Nat /\ newest \in Nat /\ newest <= last
      /\ now \in Nat /\ fixture \in BOOLEAN /\ posts \in Seq(Posted)
  BY DEF ChannelInv, ChannelTyped, ClockAhead
<1> PICK messages : messages = Answered(read.r).messages
  OBVIOUS
<1>2. PICK n \in Nat : \E f \in [1..n -> Nat] :
          DOMAIN messages = 1..n /\ \A i \in 1..n : messages[i].ts = f[i]
  BY <1>1, SentTimes
<1>3. PICK f \in [1..n -> Nat] :
          DOMAIN messages = 1..n /\ \A i \in 1..n : messages[i].ts = f[i]
  BY <1>2
<1>4. Shown(messages) = {f[i] : i \in 1..n}
  BY <1>3 DEF Shown
<1>5. {messages[i].ts : i \in DOMAIN messages} = {f[i] : i \in 1..n}
  BY <1>3
<1>6. last' = MaxOf({last} \cup {f[i] : i \in 1..n})
  <2>1. last' = Observe(messages)
    BY DEF Page
  <2> QED BY <1>5, <2>1 DEF Observe
<1>7. newest' = MaxOf({newest} \cup {f[i] : i \in 1..n})
  <2>1. newest' = MaxOf({newest} \cup Shown(messages))
    BY DEF Page
  <2> QED BY <1>4, <2>1
<1> PICK A : A = {last} \cup {f[i] : i \in 1..n}
  OBVIOUS
<1> PICK B : B = {newest} \cup {f[i] : i \in 1..n}
  OBVIOUS
<1>8. MaxOf(A) \in Nat /\ \A x \in A : x <= MaxOf(A)
  BY <1>1, MaxOfFacts
<1>9. MaxOf(B) \in Nat /\ MaxOf(B) \in B \cup {NoTs}
  BY <1>1, MaxOfFacts
<1>10. last' \in Nat /\ newest' \in Nat /\ last <= last' /\ newest' <= last'
  <2>0. last \in A /\ \A x \in B \cup {NoTs} : x \in A \/ x = newest \/ x = 0
    BY DEF NoTs
  <2>1. last <= MaxOf(A) /\ newest <= MaxOf(A)
    BY ONLY <1>1, <1>8, <2>0
  <2>2. MaxOf(B) <= MaxOf(A)
    BY ONLY <1>8, <1>9, <2>0, <2>1
  <2> QED BY <1>6, <1>7, <1>8, <1>9, <2>1, <2>2
<1>11. UNCHANGED <<now, fixture, real, posts>>
  BY DEF Page
<1>12. ChannelTyped'
  BY ONLY <1>1, <1>10, <1>11 DEF ChannelTyped
<1>13. \A i \in 1..Len(posts) : posts[i].ts \in Nat /\ posts[i].ts <= last
  <2> TAKE i \in 1..Len(posts)
  <2>1. posts[i] \in Posted
    BY ONLY <1>1, i \in 1..Len(posts)
  <2>2. posts[i].ts \in Nat
    BY ONLY <2>1 DEF Posted
  <2> QED BY <2>2 DEF ChannelInv, ClockAhead
<1>14. ClockAhead'
  BY ONLY <1>1, <1>10, <1>11, <1>13 DEF ClockAhead
<1>15. PostsSortAfterWhatWasRead'
  BY ONLY <1>11, ChannelInv DEF ChannelInv, PostsSortAfterWhatWasRead
<1> QED BY <1>12, <1>14, <1>15 DEF ChannelInv

\* So does every step of the channel.
LEMMA ChannelStep == ChannelInv /\ (SlackNext \/ UNCHANGED slackVars) => ChannelInv'
<1> SUFFICES ASSUME ChannelInv, SlackNext \/ UNCHANGED slackVars PROVE ChannelInv'
  OBVIOUS
<1>1. CASE UNCHANGED slackVars
  BY <1>1 DEF slackVars, ChannelInv, ChannelTyped, ClockAhead, PostsSortAfterWhatWasRead
<1>2. CASE Tick
  <2>1. now' \in Nat /\ UNCHANGED <<last, fixture, real, posts, newest>>
    BY <1>2, SlackAssumption DEF Tick
  <2> QED BY ONLY ChannelInv, <2>1 DEF ChannelInv, ChannelTyped, ClockAhead, PostsSortAfterWhatWasRead
<1>3. CASE \E r \in Reads : BeginRead(r)
  <2>1. UNCHANGED <<now, last, fixture, real, posts, newest>>
    BY <1>3 DEF BeginRead
  <2> QED BY ONLY ChannelInv, <2>1 DEF ChannelInv, ChannelTyped, ClockAhead, PostsSortAfterWhatWasRead
<1>4. CASE EndRead
  <2>1. UNCHANGED <<now, last, fixture, real, posts, newest>>
    BY <1>4 DEF EndRead
  <2> QED BY ONLY ChannelInv, <2>1 DEF ChannelInv, ChannelTyped, ClockAhead, PostsSortAfterWhatWasRead
<1> QED BY <1>1, <1>2, <1>3, <1>4, RealMessageKeeps, PostKeeps, PageAhead DEF SlackNext

\* In every state of an agent and the channel.
LEMMA ChannelHolds == Spec => []ChannelInv
<1>1. Init => ChannelInv
  BY ChannelStarts DEF Init
<1>2. ChannelInv /\ [Next]_vars => ChannelInv'
  <2> SUFFICES ASSUME ChannelInv, [Next]_vars PROVE ChannelInv'
    OBVIOUS
  <2>1. SlackNext \/ UNCHANGED slackVars
    BY DEF Next, vars
  <2> QED BY <2>1, ChannelStep
<1> QED BY <1>1, <1>2, PTL DEF Spec

\* A faked message sorts after all that the agent had been shown and after the run's
\* own before it, though the wall clock is behind Slack's or is set back, for every
\* clock, any messages of others and any reads between the posts.
THEOREM PostsSort == Spec => []PostsSortAfterWhatWasRead
<1>1. ChannelInv => PostsSortAfterWhatWasRead
  BY DEF ChannelInv
<1> QED BY <1>1, ChannelHolds, PTL

-----------------------------------------------------------------------------
(* What an agent reads of the channel: the messages there are, and what a     *)
(* sequence that has each of some of them once is.                             *)

\* A message on a page.
Message == [ts : Nat, count : Nat, thread : Nat]

\* The messages others wrote.
Others == ToSet(real)

\* Each of T is at one place of q, and nothing else is.
Enum(q, T) ==
    /\ \A i \in DOMAIN q : q[i] \in T
    /\ \A x \in T : \E i \in DOMAIN q : q[i] = x /\ \A j \in DOMAIN q : q[j] = x => j = i

\* Messages and posts have ids of their own; a thread hangs from a top message that
\* is there, and one of Slack's from one of Slack's.
ThreadsHang ==
    /\ \A i \in DOMAIN real : real[i].ts # NoTs
    /\ \A i, j \in DOMAIN real : i < j => real[i].ts < real[j].ts
    /\ \A x \in Others : x.thread # NoTs => \E y \in Others : y.ts = x.thread /\ y.thread = NoTs
    /\ \A p \in Posts :
          /\ p.ts # NoTs
          /\ \A x \in Others : x.ts # p.ts
          /\ p.thread # NoTs => \E y \in Others \cup Posts : y.ts = p.thread /\ y.thread = NoTs
          /\ p.broadcast => p.thread # NoTs

\* The channel, its clock and its threads.
World == ChannelInv /\ ThreadsHang

\* A set that another is mapped onto, one to one, has as many elements.
LEMMA SameSize ==
    ASSUME NEW S, NEW T, IsFiniteSet(S), NEW f, f \in [S -> T],
           \A a, b \in S : f[a] = f[b] => a = b, \A t \in T : \E s \in S : f[s] = t
    PROVE  IsFiniteSet(T) /\ Cardinality(T) = Cardinality(S)
<1>1. f \in Surjection(S, T) /\ f \in Injection(S, T)
  BY DEF Surjection, Injection, IsInjective
<1> QED BY <1>1, FS_Surjection

\* The messages of a sequence are finitely many.
LEMMA SetOfSeq ==
    ASSUME NEW S, NEW q \in Seq(S)
    PROVE  ToSet(q) \subseteq S /\ IsFiniteSet(ToSet(q))
<1>1. PICK n : n = Len(q)
  OBVIOUS
<1>2. n \in Nat /\ DOMAIN q = 1..n /\ q \in [1..n -> S]
  BY <1>1
<1>3. ToSet(q) \subseteq S /\ ToSet(q) = {q[i] : i \in 1..n}
  BY ONLY <1>2 DEF ToSet
<1>4. IsFiniteSet(1..n)
  BY <1>2, FS_Interval
<1>5. q \in Surjection(1..n, ToSet(q))
  BY ONLY <1>2, <1>3 DEF Surjection
<1> QED BY <1>3, <1>4, <1>5, FS_Surjection

\* Who wrote what is known by its id, and what answers another has no answers.
LEMMA WorldFacts ==
    ASSUME World
    PROVE  /\ Others \subseteq Written /\ Posts \subseteq Posted
           /\ IsFiniteSet(Others) /\ IsFiniteSet(Posts)
           /\ \A x \in Others : x.ts \in Nat /\ x.ts # NoTs /\ x.thread \in Nat
           /\ \A p \in Posts : p.ts \in Nat /\ p.ts # NoTs /\ p.thread \in Nat
           /\ \A x, y \in Others : x.ts = y.ts => x = y
           /\ \A x, y \in Posts : x.ts = y.ts => x = y
           /\ \A x \in Others, p \in Posts : x.ts # p.ts
<1>1. real \in Seq(Written) /\ posts \in Seq(Posted)
  BY DEF World, ChannelInv, ChannelTyped
<1>2. /\ Others \subseteq Written /\ Posts \subseteq Posted
      /\ IsFiniteSet(Others) /\ IsFiniteSet(Posts)
  BY <1>1, SetOfSeq DEF Others, Posts
<1>3. /\ \A x \in Others : x.ts \in Nat /\ x.ts # NoTs /\ x.thread \in Nat
      /\ \A p \in Posts : p.ts \in Nat /\ p.ts # NoTs /\ p.thread \in Nat
      /\ \A x \in Others, p \in Posts : x.ts # p.ts
  <2>1. \A x \in Written : x.ts \in Nat /\ x.thread \in Nat
    BY DEF Written
  <2>2. \A p \in Posted : p.ts \in Nat /\ p.thread \in Nat
    BY DEF Posted
  <2>3. \A x \in Others : x.ts # NoTs
    BY DEF World, ThreadsHang, Others, ToSet
  <2>4. \A p \in Posts : p.ts # NoTs /\ \A x \in Others : x.ts # p.ts
    BY DEF World, ThreadsHang
  <2> QED BY ONLY <1>2, <2>1, <2>2, <2>3, <2>4
<1>4. \A x, y \in Others : x.ts = y.ts => x = y
  <2>1. PICK n : n = Len(real)
    OBVIOUS
  <2>2. n \in Nat /\ DOMAIN real = 1..n
    BY ONLY <1>1, <2>1
  <2>3. \A i \in 1..n : real[i].ts \in Nat
    BY <1>3, <2>2 DEF Others, ToSet
  <2>4. \A i, j \in 1..n : real[i].ts = real[j].ts => i = j
    <3>1. \A i, j \in 1..n : i < j => real[i].ts < real[j].ts
      BY <2>2 DEF World, ThreadsHang
    <3> QED BY ONLY <2>2, <2>3, <3>1
  <2> QED BY ONLY <2>2, <2>4 DEF Others, ToSet
<1>5. \A x, y \in Posts : x.ts = y.ts => x = y
  <2>1. PICK n : n = Len(posts)
    OBVIOUS
  <2>2. n \in Nat /\ DOMAIN posts = 1..n
    BY ONLY <1>1, <2>1
  <2>3. \A i \in 1..n : posts[i].ts \in Nat
    BY <1>3, <2>2 DEF Posts, ToSet
  <2>4. \A i, j \in 1..n : posts[i].ts = posts[j].ts => i = j
    <3>1. \A i \in 1..n : \A j \in 1..i - 1 : posts[j].ts < posts[i].ts
      BY <2>2 DEF World, ChannelInv, PostsSortAfterWhatWasRead
    <3>2. \A i, j \in 1..n : i < j => i \in 1..j - 1
      BY ONLY <2>2
    <3>3. \A i, j \in 1..n : i < j => posts[i].ts < posts[j].ts
      BY ONLY <3>1, <3>2
    <3> QED BY ONLY <2>2, <2>3, <3>3
  <2> QED BY ONLY <2>2, <2>4 DEF Posts, ToSet
<1> QED BY <1>2, <1>3, <1>4, <1>5

\* What answers a message has no answers of its own, and Slack has none to a post.
LEMMA AnswersHang ==
    ASSUME World
    PROVE  /\ \A x, y \in Others \cup Posts : x.thread # NoTs => y.thread # x.ts
           /\ \A x \in Others, p \in Posts : x.thread # p.ts
<1>1. /\ \A x \in Others \cup Posts : x.ts # NoTs
      /\ \A x, y \in Others \cup Posts : x.ts = y.ts => x.thread = y.thread
      /\ \A x \in Others, p \in Posts : x.ts # p.ts
  BY WorldFacts
<1>2. /\ \A x \in Others : x.thread # NoTs => \E y \in Others : y.ts = x.thread /\ y.thread = NoTs
      /\ \A p \in Posts :
            p.thread # NoTs => \E y \in Others \cup Posts : y.ts = p.thread /\ y.thread = NoTs
  BY DEF World, ThreadsHang
<1>3. \A y \in Others \cup Posts :
          y.thread # NoTs => \E z \in Others \cup Posts : z.ts = y.thread /\ z.thread = NoTs
  BY ONLY <1>2
<1> QED BY ONLY <1>1, <1>2, <1>3

\* As many places answer a message as messages do.
LEMMA AnswersCounted ==
    ASSUME World, NEW t
    PROVE  /\ IsFiniteSet({x \in Others : x.thread = t})
           /\ Cardinality(Answers(t)) = Cardinality({x \in Others : x.thread = t})
           /\ Cardinality(Answers(t)) \in Nat
<1>1. PICK n, T, X : n = Len(real) /\ T = Answers(t) /\ X = {x \in Others : x.thread = t}
  OBVIOUS
<1>2. n \in Nat /\ DOMAIN real = 1..n
  <2>1. real \in Seq(Written)
    BY DEF World, ChannelInv, ChannelTyped
  <2> QED BY ONLY <1>1, <2>1
<1>3. T \subseteq 1..n /\ T = {i \in 1..n : real[i].thread = t}
  BY <1>1, <1>2 DEF Answers
<1>4. IsFiniteSet(T)
  <2>1. IsFiniteSet(1..n)
    BY <1>2, FS_Interval
  <2> QED BY <1>3, <2>1, FS_Subset
<1>5. PICK f : f = [i \in T |-> real[i]]
  OBVIOUS
<1>6. f \in [T -> X] /\ \A x \in X : \E i \in T : f[i] = x
  BY ONLY <1>1, <1>2, <1>3, <1>5 DEF Others, ToSet
<1>7. \A a, b \in T : f[a] = f[b] => a = b
  <2>1. \A i, j \in 1..n : i < j => real[i].ts < real[j].ts
    BY <1>2 DEF World, ThreadsHang
  <2>2. \A i \in 1..n : real[i].ts \in Nat
    BY <1>2, WorldFacts DEF Others, ToSet
  <2>3. \A i, j \in 1..n : real[i] = real[j] => i = j
    BY ONLY <1>2, <2>1, <2>2
  <2> QED BY ONLY <1>3, <1>5, <2>3
<1>8. IsFiniteSet(X) /\ Cardinality(X) = Cardinality(T)
  BY ONLY <1>4, <1>6, <1>7, SameSize
<1>9. Cardinality(T) \in Nat
  BY <1>4, FS_CardinalityType
<1> QED BY ONLY <1>1, <1>8, <1>9

\* Messages of different ids have as many ids.
LEMMA TimesCounted ==
    ASSUME NEW S, IsFiniteSet(S), \A x, y \in S : x.ts = y.ts => x = y
    PROVE  IsFiniteSet({x.ts : x \in S}) /\ Cardinality({x.ts : x \in S}) = Cardinality(S)
<1>1. PICK T, f : T = {x.ts : x \in S} /\ f = [x \in S |-> x.ts]
  OBVIOUS
<1>2. f \in [S -> T] /\ (\A a, b \in S : f[a] = f[b] => a = b) /\ \A t \in T : \E s \in S : f[s] = t
  BY ONLY <1>1, \A x, y \in S : x.ts = y.ts => x = y
<1>3. IsFiniteSet(T) /\ Cardinality(T) = Cardinality(S)
  BY <1>2, SameSize
<1> QED BY ONLY <1>1, <1>3

\* q is in the order of messages.
InTheirOrder(q, messages) ==
    \A i, j \in DOMAIN q : i < j =>
        \E k, l \in DOMAIN messages : k < l /\ q[i] = messages[k] /\ q[j] = messages[l]

\* No message is there twice.
Differ(messages) == \A i, j \in DOMAIN messages : messages[i] = messages[j] => i = j

\* What is picked of messages that differ is each of those at the places once.
LEMMA PickedEnum ==
    ASSUME NEW S, NEW messages \in Seq(S), NEW places, Differ(messages),
           NEW q, q = Picked(messages, places),
           NEW T, T = {messages[i] : i \in {k \in DOMAIN messages : k \in places}}
    PROVE  q \in Seq(S) /\ Enum(q, T) /\ InTheirOrder(q, messages)
<1>0. PICK n : q = Picked(messages, places) /\ n = Len(messages)
  OBVIOUS
<1>a. PICK w : /\ q \in Seq(S) /\ Places(w, n, places) /\ Len(q) = Len(w)
               /\ \A i \in 1..Len(w) : q[i] = messages[w[i]]
  BY <1>0, PickedFacts
<1>1. /\ q = Picked(messages, places) /\ n = Len(messages)
      /\ q \in Seq(S) /\ Places(w, n, places) /\ Len(q) = Len(w)
      /\ \A i \in 1..Len(w) : q[i] = messages[w[i]]
  BY <1>0, <1>a
<1>2. PICK m : m = Len(w)
  OBVIOUS
<1>3. n \in Nat /\ DOMAIN messages = 1..n
  BY <1>1
<1>4. /\ m \in Nat /\ DOMAIN q = 1..m
      /\ \A i, j \in 1..m : i < j => w[i] < w[j]
      /\ \A i \in 1..m : w[i] \in 1..n /\ w[i] \in places /\ q[i] = messages[w[i]]
      /\ \A k \in 1..n : k \in places => \E i \in 1..m : w[i] = k
  <2>1. w \in Seq(Nat)
    BY <1>1 DEF Places
  <2>2. m \in Nat
    BY ONLY <1>2, <2>1
  <2>3. DOMAIN q = 1..m
    BY ONLY <1>1, <1>2
  <2> QED BY ONLY <1>1, <1>2, <2>2, <2>3 DEF Places
<1>5. T = {messages[i] : i \in {k \in DOMAIN messages : k \in places}}
  OBVIOUS
<1>6. \A i, j \in 1..n : messages[i] = messages[j] => i = j
  BY <1>3 DEF Differ
<1>7. \A i, j \in 1..m : w[i] = w[j] => i = j
  BY ONLY <1>3, <1>4
<1>8. Enum(q, T)
  <2>1. \A i \in DOMAIN q : q[i] \in T
    BY ONLY <1>3, <1>4, <1>5
  <2>2. ASSUME NEW x \in T PROVE \E i \in DOMAIN q : q[i] = x /\ \A j \in DOMAIN q : q[j] = x => j = i
    <3>1. PICK k \in 1..n : k \in places /\ x = messages[k]
      BY ONLY <1>3, <1>5, x \in T
    <3>2. PICK i \in 1..m : w[i] = k
      BY ONLY <1>4, <3>1
    <3>3. q[i] = x
      BY ONLY <1>4, <3>1, <3>2
    <3>4. ASSUME NEW j \in 1..m, q[j] = x PROVE j = i
      <4>1. w[j] \in 1..n /\ messages[w[j]] = messages[k]
        BY ONLY <1>4, <3>1, <3>4
      <4>2. w[j] = w[i]
        BY ONLY <1>6, <3>1, <3>2, <4>1
      <4> QED BY ONLY <1>7, <4>2, <3>2, j \in 1..m
    <3> QED BY ONLY <1>4, <3>2, <3>3, <3>4
  <2> QED BY ONLY <2>1, <2>2 DEF Enum
<1>9. ASSUME NEW i \in DOMAIN q, NEW j \in DOMAIN q, i < j
      PROVE  \E k, l \in DOMAIN messages : k < l /\ q[i] = messages[k] /\ q[j] = messages[l]
  <2>1. w[i] < w[j] /\ w[i] \in DOMAIN messages /\ w[j] \in DOMAIN messages
        /\ q[i] = messages[w[i]] /\ q[j] = messages[w[j]]
    BY ONLY <1>3, <1>4, <1>9
  <2> QED BY ONLY <2>1
<1> QED BY ONLY <1>1, <1>8, <1>9 DEF InTheirOrder

\* Turned round, a sequence has the same elements.
LEMMA ReverseEnum ==
    ASSUME NEW S, NEW q \in Seq(S), NEW T, Enum(q, T)
    PROVE  /\ Reverse(q) \in Seq(S) /\ Len(Reverse(q)) = Len(q)
           /\ Enum(Reverse(q), T)
           /\ \A i \in 1..Len(q) : Reverse(q)[i] = q[(Len(q) - i) + 1]
<1>1. PICK n, v : n = Len(q) /\ v = Reverse(q)
  OBVIOUS
<1>2. n \in Nat /\ DOMAIN q = 1..n /\ \A i \in 1..n : q[i] \in S
  BY <1>1
<1>3. v = [i \in 1..n |-> q[(n - i) + 1]]
  BY <1>1 DEF Reverse
<1>4. \A i \in 1..n : (n - i) + 1 \in 1..n /\ (n - ((n - i) + 1)) + 1 = i
  BY ONLY <1>2
<1>5. v \in Seq(S) /\ Len(v) = n /\ DOMAIN v = 1..n
  BY ONLY <1>2, <1>3, <1>4
<1>6. \A x \in T : \E i \in 1..n : v[i] = x /\ \A j \in 1..n : v[j] = x => j = i
  <2> SUFFICES ASSUME NEW x \in T
               PROVE  \E i \in 1..n : v[i] = x /\ \A j \in 1..n : v[j] = x => j = i
    OBVIOUS
  <2>1. PICK k \in 1..n : q[k] = x /\ \A j \in 1..n : q[j] = x => j = k
    BY <1>2 DEF Enum
  <2>2. (n - k) + 1 \in 1..n /\ v[(n - k) + 1] = x
    BY ONLY <1>3, <1>4, <2>1
  <2>3. \A j \in 1..n : v[j] = x => j = (n - k) + 1
    <3> TAKE j \in 1..n
    <3>1. v[j] = q[(n - j) + 1] /\ (n - j) + 1 \in 1..n
      BY ONLY <1>3, <1>4, j \in 1..n
    <3>2. v[j] = x => (n - j) + 1 = k
      BY ONLY <2>1, <3>1
    <3> QED BY ONLY <1>2, <2>1, <3>2, j \in 1..n
  <2> QED BY ONLY <2>2, <2>3
<1>7. \A i \in 1..n : v[i] \in T
  BY <1>2, <1>3, <1>4 DEF Enum
<1> QED BY ONLY <1>1, <1>3, <1>5, <1>6, <1>7 DEF Enum

\* The places of posts that differ.
LEMMA PostsApart ==
    ASSUME World
    PROVE  /\ posts \in Seq(Posted) /\ real \in Seq(Written)
           /\ \A i, j \in DOMAIN posts : i < j => posts[i].ts < posts[j].ts
           /\ Differ(posts) /\ Differ(real)
           /\ \A i, j \in DOMAIN real : i < j => real[i].ts < real[j].ts
<1>1. posts \in Seq(Posted) /\ real \in Seq(Written)
  BY DEF World, ChannelInv, ChannelTyped
<1>2. PICK n, m : n = Len(posts) /\ m = Len(real)
  OBVIOUS
<1>3. n \in Nat /\ DOMAIN posts = 1..n /\ m \in Nat /\ DOMAIN real = 1..m
  BY ONLY <1>1, <1>2
<1>4. (\A i \in 1..n : posts[i].ts \in Nat) /\ (\A i \in 1..m : real[i].ts \in Nat)
  BY <1>3, WorldFacts DEF Posts, Others, ToSet
<1>5. \A i, j \in 1..n : i < j => posts[i].ts < posts[j].ts
  <2>1. \A i \in 1..n : \A j \in 1..i - 1 : posts[j].ts < posts[i].ts
    BY <1>3 DEF World, ChannelInv, PostsSortAfterWhatWasRead
  <2>2. \A i, j \in 1..n : i < j => i \in 1..j - 1
    BY ONLY <1>3
  <2> QED BY ONLY <2>1, <2>2
<1>6. \A i, j \in 1..m : i < j => real[i].ts < real[j].ts
  BY <1>3 DEF World, ThreadsHang
<1>7. (\A i, j \in 1..n : posts[i] = posts[j] => i = j) /\ (\A i, j \in 1..m : real[i] = real[j] => i = j)
  BY ONLY <1>3, <1>4, <1>5, <1>6
<1> QED BY ONLY <1>1, <1>3, <1>5, <1>6, <1>7 DEF Differ

\* Posts are put in the order of their ids, each once.
LEMMA ByTsEnum ==
    ASSUME World, NEW these, these \subseteq Posts
    PROVE  /\ Cardinality(these) \in Nat /\ DOMAIN ByTs(these) = 1..Cardinality(these)
           /\ Enum(ByTs(these), these)
<1>1. PICK n : n = Cardinality(these)
  OBVIOUS
<1>2. IsFiniteSet(these) /\ n \in Nat
  BY <1>1, WorldFacts, FS_Subset, FS_CardinalityType
<1>3. PICK Q : Q = {q \in [1..n -> these] : \A i, j \in 1..n : i < j => q[i].ts < q[j].ts}
  OBVIOUS
<1>4. Q # {}
  <2>1. PICK places, q : /\ places = {k \in DOMAIN posts : posts[k] \in these}
                         /\ q = Picked(posts, places)
    OBVIOUS
  <2>2. these = {posts[i] : i \in {k \in DOMAIN posts : k \in places}}
    BY <2>1 DEF Posts, ToSet
  <2>3. q \in Seq(Posted) /\ Enum(q, these) /\ InTheirOrder(q, posts)
    <3>1. posts \in Seq(Posted) /\ Differ(posts) /\ q = Picked(posts, places)
      BY <2>1, PostsApart
    <3> QED BY ONLY <2>2, <3>1, PickedEnum
  <2>4. PICK m : m = Len(q)
    OBVIOUS
  <2>5. m \in Nat /\ DOMAIN q = 1..m /\ q = [i \in 1..m |-> q[i]]
    BY ONLY <2>3, <2>4
  <2>6. q \in [1..m -> these]
    BY ONLY <2>3, <2>5 DEF Enum
  <2>7. /\ \A a, b \in 1..m : q[a] = q[b] => a = b
        /\ \A t \in these : \E s \in 1..m : q[s] = t
    BY ONLY <2>3, <2>5 DEF Enum
  <2>8. IsFiniteSet(1..m) /\ Cardinality(1..m) = m
    BY <2>5, FS_Interval
  <2>9. m = n
    BY ONLY <1>1, <2>6, <2>7, <2>8, SameSize
  <2>10. \A i, j \in 1..n : i < j => q[i].ts < q[j].ts
    BY <2>3, <2>5, <2>9, PostsApart DEF InTheirOrder
  <2> QED BY ONLY <1>3, <2>6, <2>9, <2>10
<1>5. PICK b : b = ByTs(these)
  OBVIOUS
<1>6. b \in Q
  <2>1. b = CHOOSE q \in [1..n -> these] : \A i, j \in DOMAIN q : i < j => q[i].ts < q[j].ts
    BY <1>1, <1>5 DEF ByTs
  <2>2. \A q \in [1..n -> these] : DOMAIN q = 1..n
    OBVIOUS
  <2> QED BY <1>3, <1>4, <2>1, <2>2
<1>7. b \in [1..n -> these] /\ \A i, j \in 1..n : i < j => b[i].ts < b[j].ts
  BY ONLY <1>3, <1>6
<1>8. \A i \in 1..n : b[i].ts \in Nat
  BY <1>7, WorldFacts
<1>9. \A i, j \in 1..n : b[i] = b[j] => i = j
  BY ONLY <1>2, <1>7, <1>8
<1>10. \A x \in these : \E i \in 1..n : b[i] = x
  <2>1. b \in Injection(1..n, these)
    BY ONLY <1>7, <1>9 DEF Injection, IsInjective
  <2>2. Cardinality(1..n) = n
    BY <1>2, FS_Interval
  <2>3. b \in Surjection(1..n, these)
    BY <1>1, <1>2, <2>1, <2>2, FS_Injection
  <2> QED BY <2>3 DEF Surjection
<1>11. Enum(b, these)
  BY ONLY <1>7, <1>9, <1>10 DEF Enum
<1> QED BY ONLY <1>1, <1>2, <1>5, <1>7, <1>11

-----------------------------------------------------------------------------
(* What Slack sends: of what is left, the next. *)

\* A read as an agent may ask for it, wherever it has come to.
Shape(r) ==
    /\ r.op \in {"history", "replies"}
    /\ {r.oldest, r.latest, r.cursor, r.thread} \subseteq Nat
    /\ r.op = "history" => r.thread = NoTs
    /\ r.op = "replies" => \E y \in Others \cup Posts : y.ts = r.thread /\ y.thread = NoTs

\* What the read asks for.
Fits(x, r) == x.thread = r.thread /\ Inside(x.ts, r)

\* What is left of it: history comes newest first, a thread oldest first.
LeftSet(r) ==
    {x \in Others : /\ Fits(x, r)
                    /\ IF r.op = "history" THEN r.cursor # NoTs => x.ts < r.cursor
                       ELSE x.ts > r.cursor}

\* In the order of the read's operation.
Ordered(q, op) ==
    \A i, j \in DOMAIN q : i < j => IF op = "history" THEN q[i].ts > q[j].ts ELSE q[i].ts < q[j].ts

\* ts comes no later than c.
Behind(ts, op, c) == IF op = "history" THEN ts >= c ELSE ts <= c

\* What is left comes in its order, each message once.
LEMMA LeftEnum ==
    ASSUME World, NEW r, Shape(r)
    PROVE  /\ Left(r) \in Seq(Written) /\ Enum(Left(r), LeftSet(r)) /\ Ordered(Left(r), r.op)
<1>1. /\ real \in Seq(Written) /\ Differ(real)
      /\ \A i, j \in DOMAIN real : i < j => real[i].ts < real[j].ts
  BY PostsApart
<1>2. r.op \in {"history", "replies"} /\ (r.op = "history" => r.thread = NoTs)
  BY DEF Shape
<1>3. CASE r.op = "history"
  <2>1. PICK places, q : /\ places = {i \in Answers(NoTs) : /\ Inside(real[i].ts, r)
                                                            /\ r.cursor # NoTs => real[i].ts < r.cursor}
                         /\ q = Picked(real, places)
    OBVIOUS
  <2>2. LeftSet(r) = {real[i] : i \in {k \in DOMAIN real : k \in places}}
    BY <1>2, <1>3, <2>1 DEF LeftSet, Fits, Answers, Others, ToSet
  <2>3. q \in Seq(Written) /\ Enum(q, LeftSet(r)) /\ InTheirOrder(q, real)
    <3>1. q = Picked(real, places) /\ real \in Seq(Written) /\ Differ(real)
      BY <1>1, <2>1
    <3> QED BY ONLY <2>2, <3>1, PickedEnum
  <2>4. Left(r) = Reverse(q)
    BY <1>3, <2>1 DEF Left, HistoryLeft
  <2>5. PICK n, v : n = Len(q) /\ v = Reverse(q)
    OBVIOUS
  <2>6. /\ v \in Seq(Written) /\ Len(v) = n /\ Enum(v, LeftSet(r))
        /\ \A i \in 1..n : v[i] = q[(n - i) + 1]
    BY ONLY <2>3, <2>5, ReverseEnum
  <2>7. n \in Nat /\ DOMAIN q = 1..n /\ DOMAIN v = 1..n
    BY ONLY <2>3, <2>5, <2>6
  <2>8. ASSUME NEW i \in 1..n, NEW j \in 1..n, i < j PROVE v[i].ts > v[j].ts
    <3>1. PICK a, b : a = (n - i) + 1 /\ b = (n - j) + 1
      OBVIOUS
    <3>2. a \in 1..n /\ b \in 1..n /\ b < a
      BY ONLY <2>7, <2>8, <3>1
    <3>3. PICK k, l : k \in DOMAIN real /\ l \in DOMAIN real /\ k < l /\ q[b] = real[k] /\ q[a] = real[l]
      BY ONLY <2>3, <2>7, <3>2 DEF InTheirOrder
    <3>4. q[b].ts < q[a].ts
      BY ONLY <1>1, <3>3
    <3>5. v[i] = q[a] /\ v[j] = q[b] /\ v[i] \in Written /\ v[j] \in Written
      BY ONLY <2>6, <2>7, <3>1, i \in 1..n, j \in 1..n
    <3>6. v[i].ts \in Nat /\ v[j].ts \in Nat
      BY ONLY <3>5 DEF Written
    <3> QED BY ONLY <3>4, <3>5, <3>6
  <2> QED BY ONLY <1>3, <2>4, <2>5, <2>6, <2>7, <2>8 DEF Ordered
<1>4. CASE r.op = "replies"
  <2>1. PICK places, q : /\ places = {i \in Answers(r.thread) :
                                          Inside(real[i].ts, r) /\ real[i].ts > r.cursor}
                         /\ q = Picked(real, places)
    OBVIOUS
  <2>2. LeftSet(r) = {real[i] : i \in {k \in DOMAIN real : k \in places}}
    BY <1>4, <2>1 DEF LeftSet, Fits, Answers, Others, ToSet
  <2>3. q \in Seq(Written) /\ Enum(q, LeftSet(r)) /\ InTheirOrder(q, real)
    <3>1. q = Picked(real, places) /\ real \in Seq(Written) /\ Differ(real)
      BY <1>1, <2>1
    <3> QED BY ONLY <2>2, <3>1, PickedEnum
  <2>4. Left(r) = q
    BY <1>4, <2>1 DEF Left, RepliesLeft
  <2>5. \A i, j \in DOMAIN q : i < j => q[i].ts < q[j].ts
    BY ONLY <1>1, <2>3 DEF InTheirOrder
  <2> QED BY ONLY <1>4, <2>3, <2>4, <2>5 DEF Ordered
<1> QED BY <1>2, <1>3, <1>4

\* A page that is cut ends at a message, and has all that comes before that.
LEMMA CutEnum ==
    ASSUME World, NEW r, Shape(r), NEW q, q = Cut(r), NEW n, n = Len(Cut(r))
    PROVE  /\ q \in Seq(Written) /\ n \in Nat /\ DOMAIN q = 1..n
           /\ n = Len(Left(r)) => Enum(q, LeftSet(r))
           /\ n < Len(Left(r)) =>
                 /\ n # 0 /\ q[n] \in LeftSet(r)
                 /\ Enum(q, {x \in LeftSet(r) : Behind(x.ts, r.op, q[n].ts)})
           /\ n < Len(Left(r)) \/ n = Len(Left(r))
<1>1. PICK left, m : left = Left(r) /\ m = Len(left)
  OBVIOUS
<1>2. left \in Seq(Written) /\ Enum(left, LeftSet(r)) /\ Ordered(left, r.op)
  BY <1>1, LeftEnum
<1>3. m \in Nat /\ DOMAIN left = 1..m /\ \A i \in 1..m : left[i] \in Written
  BY ONLY <1>1, <1>2
<1>4. q \in Seq(Written) /\ n \in Nat /\ DOMAIN q = 1..n /\ n <= m /\ \A i \in 1..n : q[i] = left[i]
  <2>1. /\ q \in Seq(Written) /\ n <= m /\ \A i \in 1..n : q[i] = left[i]
    BY <1>1, CutFacts, PostsApart
  <2> QED BY <2>1
<1>5. n = m => q = left
  <2>1. q = [i \in 1..n |-> q[i]] /\ left = [i \in 1..m |-> left[i]]
    BY ONLY <1>1, <1>2, <1>3, <1>4
  <2> QED BY ONLY <1>4, <2>1
<1>6. n < m => n # 0
  <2>1. CASE r.limited
    <3>1. q = SubSeq(left, 1, Min({PageSize, m}))
      BY <1>1, <2>1 DEF Cut
    <3>2. Min({PageSize, m}) \in Nat /\ Min({PageSize, m}) \in {PageSize, m}
          /\ Min({PageSize, m}) <= m
      BY <1>3, MinOfTwo, SlackAssumption
    <3>3. PICK k : k = Min({PageSize, m})
      OBVIOUS
    <3>4. Len(SubSeq(left, 1, k)) = k
      BY ONLY <1>1, <1>2, <1>3, <3>2, <3>3
    <3>5. n = k /\ PageSize # 0
      BY <3>1, <3>3, <3>4, SlackAssumption
    <3> QED BY ONLY <1>3, <3>2, <3>3, <3>5
  <2>2. CASE ~r.limited
    <3>1. q = left /\ n = m
      BY <1>1, <2>2 DEF Cut
    <3> QED BY ONLY <1>3, <3>1
  <2> QED BY <2>1, <2>2
<1>7. ASSUME n < m, n # 0
      PROVE  /\ q[n] \in LeftSet(r)
             /\ Enum(q, {x \in LeftSet(r) : Behind(x.ts, r.op, q[n].ts)})
  <2>1. PICK c, S : c = q[n].ts /\ S = {x \in LeftSet(r) : Behind(x.ts, r.op, c)}
    OBVIOUS
  <2>2. n \in 1..n /\ n \in 1..m /\ \A i \in 1..n : i \in 1..m /\ i <= n
    BY ONLY <1>3, <1>4, <1>7
  <2>3. \A i \in 1..m : left[i].ts \in Nat
    BY ONLY <1>3 DEF Written
  <2>4. q[n] \in LeftSet(r) /\ c = left[n].ts
    BY ONLY <1>2, <1>3, <1>4, <2>1, <2>2 DEF Enum
  <2>5. ASSUME NEW i \in 1..m PROVE i <= n <=> Behind(left[i].ts, r.op, c)
    <3>1. /\ i < n => IF r.op = "history" THEN left[i].ts > left[n].ts ELSE left[i].ts < left[n].ts
          /\ n < i => IF r.op = "history" THEN left[n].ts > left[i].ts ELSE left[n].ts < left[i].ts
      BY ONLY <1>2, <1>3, <2>2, i \in 1..m DEF Ordered
    <3>2. left[i].ts \in Nat /\ left[n].ts \in Nat
      BY ONLY <2>2, <2>3, i \in 1..m
    <3>3. i = n => left[i].ts = left[n].ts
      OBVIOUS
    <3> QED BY ONLY <1>3, <1>4, <2>4, <3>1, <3>2, <3>3, i \in 1..m DEF Behind
  <2>6. \A i \in DOMAIN q : q[i] \in S
    BY ONLY <1>2, <1>3, <1>4, <2>1, <2>2, <2>5 DEF Enum
  <2>7. ASSUME NEW x \in S PROVE \E i \in DOMAIN q : q[i] = x /\ \A j \in DOMAIN q : q[j] = x => j = i
    <3>1. x \in LeftSet(r) /\ Behind(x.ts, r.op, c)
      BY ONLY <2>1, x \in S
    <3>2. PICK i \in 1..m : left[i] = x /\ \A j \in 1..m : left[j] = x => j = i
      BY ONLY <1>2, <1>3, <3>1 DEF Enum
    <3>3. i \in 1..n
      BY ONLY <1>3, <1>4, <2>5, <3>1, <3>2
    <3> QED BY ONLY <1>4, <2>2, <3>2, <3>3
  <2> QED BY ONLY <2>1, <2>4, <2>6, <2>7 DEF Enum
<1>8. n < m \/ n = m
  BY ONLY <1>3, <1>4
<1> QED BY ONLY <1>1, <1>2, <1>4, <1>5, <1>6, <1>7, <1>8

-----------------------------------------------------------------------------
(* The messages of a page, and their counts. *)

\* The read began with messages and posts that are there.
Bounds == read.hadReal \in 0..Len(real) /\ read.hadPosts \in 0..Len(posts)

\* The replies there were when the read began.
FirstReplies(t) ==
    Cardinality({x \in RealFirst : x.thread = t})
    + Cardinality({p \in PostsFirst : p.thread = t /\ p.channel = "here"})

\* The faked replies that an agent may be shown.
PostReplies(t) == {p \in Posts : p.thread = t /\ InChannel(p) # "no"}

\* A message that is there, with the count that Slack has.
Genuine(m) ==
    /\ m \in Message
    /\ \E x \in Others \cup Posts : m.ts = x.ts /\ m.thread = x.thread
    /\ m.count >= Cardinality({x \in RealFirst : x.thread = m.ts})

\* With the count that the agent is to see.
Counted(m) == Genuine(m) /\ m.count >= FirstReplies(m.ts)

\* What there was when the read began is still there.
LEMMA FirstFacts ==
    ASSUME World, Bounds
    PROVE  /\ RealFirst \subseteq Others /\ PostsFirst \subseteq Posts
           /\ RealFirst = {real[i] : i \in 1..read.hadReal}
           /\ PostsFirst = {posts[i] : i \in 1..read.hadPosts}
<1>1. ASSUME NEW S, NEW q \in Seq(S), NEW n \in 0..Len(q)
      PROVE  /\ ToSet(SubSeq(q, 1, n)) \subseteq ToSet(q)
             /\ ToSet(SubSeq(q, 1, n)) = {q[i] : i \in 1..n}
  <2>1. n \in Nat /\ DOMAIN q = 1..Len(q) /\ 1..n \subseteq 1..Len(q)
    OBVIOUS
  <2>2. DOMAIN SubSeq(q, 1, n) = 1..n /\ \A i \in 1..n : SubSeq(q, 1, n)[i] = q[i]
    BY <2>1
  <2>3. ToSet(SubSeq(q, 1, n)) = {q[i] : i \in 1..n}
    BY ONLY <2>2 DEF ToSet
  <2> QED BY ONLY <2>1, <2>3 DEF ToSet
<1>2. /\ real \in Seq(Written) /\ posts \in Seq(Posted)
      /\ read.hadReal \in 0..Len(real) /\ read.hadPosts \in 0..Len(posts)
  BY PostsApart DEF Bounds
<1> QED BY ONLY <1>1, <1>2 DEF RealFirst, PostsFirst, Others, Posts

\* A post is surely in the channel where it names it by its id.
LEMMA ChannelFacts ==
    ASSUME World, NEW p \in Posts
    PROVE  InChannel(p) \in {"yes", "no", "unsure"} /\ (InChannel(p) = "yes" <=> p.channel = "here")
<1>1. p.channel \in {"here", "there", "name"}
  BY WorldFacts DEF Posted
<1>2. CASE p.channel = "here"
  BY <1>2 DEF InChannel
<1>3. CASE p.channel = "there"
  BY <1>3 DEF InChannel
<1>4. CASE p.channel = "name"
  BY <1>4 DEF InChannel
<1> QED BY ONLY <1>1, <1>2, <1>3, <1>4

\* What Slack says of a message.
LEMMA LiveGenuine ==
    ASSUME World, Bounds, NEW x \in Others
    PROVE  /\ Genuine(Live(x)) /\ Live(x).ts = x.ts /\ Live(x).thread = x.thread
           /\ Live(x).count = Cardinality({y \in Others : y.thread = x.ts})
<1>1. PICK m, X, Y : /\ m = Live(x) /\ X = {y \in Others : y.thread = x.ts}
                     /\ Y = {y \in RealFirst : y.thread = x.ts}
  OBVIOUS
<1>2. m.ts = x.ts /\ m.thread = x.thread /\ m.count = Cardinality(Answers(x.ts))
      /\ m = [ts |-> m.ts, count |-> m.count, thread |-> m.thread]
  BY <1>1 DEF Live
<1>3. IsFiniteSet(X) /\ m.count = Cardinality(X) /\ m.count \in Nat
  BY <1>1, <1>2, AnswersCounted
<1>4. Y \subseteq X
  BY <1>1, FirstFacts
<1>5. Cardinality(Y) <= Cardinality(X) /\ Cardinality(Y) \in Nat
  BY <1>3, <1>4, FS_Subset, FS_CardinalityType
<1>6. m.ts \in Nat /\ m.thread \in Nat
  BY <1>2, WorldFacts
<1>7. m \in Message
  BY ONLY <1>2, <1>3, <1>6 DEF Message
<1>8. m.count >= Cardinality(Y)
  BY ONLY <1>3, <1>5
<1> QED BY ONLY <1>1, <1>2, <1>3, <1>7, <1>8 DEF Genuine

\* What irimi says of a post.
LEMMA PostGenuine ==
    ASSUME World, Bounds, NEW p \in Posts
    PROVE  /\ Genuine(AsMessage(p)) /\ AsMessage(p).ts = p.ts /\ AsMessage(p).thread = p.thread
           /\ AsMessage(p).count = 0
<1>1. PICK m : m = AsMessage(p)
  OBVIOUS
<1>2. m.ts = p.ts /\ m.thread = p.thread /\ m.count = 0
      /\ m = [ts |-> m.ts, count |-> m.count, thread |-> m.thread]
  BY <1>1 DEF AsMessage
<1>3. {y \in RealFirst : y.thread = m.ts} = {}
  BY <1>2, FirstFacts, AnswersHang
<1>4. Cardinality({y \in RealFirst : y.thread = m.ts}) = 0
  BY <1>3, FS_EmptySet
<1>5. m.ts \in Nat /\ m.thread \in Nat
  BY <1>2, WorldFacts
<1>6. m \in Message
  BY ONLY <1>2, <1>5 DEF Message
<1> QED BY ONLY <1>1, <1>2, <1>4, <1>6, p \in Posts DEF Genuine

\* A reply has no replies, so its count needs no more.
LEMMA ReplyCounted ==
    ASSUME World, Bounds, NEW m, Genuine(m), PostReplies(m.ts) = {}
    PROVE  Counted(m)
<1>1. PICK X, P : /\ X = {x \in RealFirst : x.thread = m.ts}
                  /\ P = {p \in PostsFirst : p.thread = m.ts /\ p.channel = "here"}
  OBVIOUS
<1>2. P = {}
  <2>1. \A p \in P : p \in PostReplies(m.ts)
    <3> TAKE p \in P
    <3>1. p \in Posts /\ p.thread = m.ts /\ p.channel = "here"
      BY <1>1, FirstFacts
    <3>2. InChannel(p) = "yes"
      BY <3>1, ChannelFacts
    <3> QED BY ONLY <3>1, <3>2 DEF PostReplies
  <2> QED BY <2>1
<1>3. Cardinality(P) = 0
  BY <1>2, FS_EmptySet
<1>4. X \subseteq Others /\ IsFiniteSet(Others)
  BY <1>1, FirstFacts, WorldFacts
<1>5. Cardinality(X) \in Nat
  BY <1>4, FS_Subset, FS_CardinalityType
<1>6. m.count \in Nat /\ m.count >= Cardinality(X)
  BY <1>1 DEF Genuine, Message
<1>7. m.count >= FirstReplies(m.ts)
  BY ONLY <1>1, <1>3, <1>5, <1>6 DEF FirstReplies
<1> QED BY <1>7 DEF Counted

\* A thread's fields count the faked replies, and a page on which it is not sure which they
\* are is partial.
LEMMA ThreadsCounted ==
    ASSUME World, Bounds, NEW q \in Seq(Message), \A i \in DOMAIN q : Genuine(q[i]),
           ~Threads(q).partial, NEW v, v = Threads(q).messages
    PROVE  /\ v \in Seq(Message) /\ DOMAIN v = DOMAIN q
           /\ \A i \in DOMAIN q :
                 /\ v[i].ts = q[i].ts /\ v[i].thread = q[i].thread
                 /\ v[i].count = q[i].count + Cardinality(PostReplies(q[i].ts))
                 /\ Counted(v[i])
           /\ \A i \in DOMAIN q : PostReplies(q[i].ts) \subseteq Sure(Posts)
<1>1. PICK R : R = Answering(q)
  OBVIOUS
<1>2. Sure(R) = R /\ v = [i \in DOMAIN q |-> ThreadFields(q[i], R)]
  BY <1>1 DEF Threads
<1>3. PICK n : n = Len(q)
  OBVIOUS
<1>4. n \in Nat /\ DOMAIN q = 1..n /\ \A i \in 1..n : q[i] \in Message
  BY <1>3
<1>5. ASSUME NEW i \in 1..n
      PROVE  /\ v[i] \in Message /\ v[i].ts = q[i].ts /\ v[i].thread = q[i].thread
             /\ v[i].count = q[i].count + Cardinality(PostReplies(q[i].ts))
             /\ Counted(v[i])
             /\ PostReplies(q[i].ts) \subseteq Sure(Posts)
  <2>1. PICK m, P : m = q[i] /\ P = PostReplies(m.ts)
    OBVIOUS
  <2>2. m \in Message /\ Genuine(m) /\ m.ts # NoTs
    <3>1. m \in Message /\ Genuine(m)
      BY <1>4, <2>1
    <3> QED BY <3>1, WorldFacts DEF Genuine
  <2>3. m.ts \in Shown(q)
    BY ONLY <1>4, <2>1, i \in 1..n DEF Shown
  <2>4. P = {p \in R : p.thread = m.ts}
    BY ONLY <1>1, <2>1, <2>2, <2>3 DEF PostReplies, Answering
  <2>5. P \subseteq Sure(Posts)
    BY ONLY <1>1, <1>2, <2>4 DEF Sure, Answering
  <2>6. P \subseteq Posts /\ IsFiniteSet(Posts)
    BY <2>1, WorldFacts DEF PostReplies
  <2>7. IsFiniteSet(P) /\ Cardinality(P) \in Nat
    BY ONLY <2>6, FS_Subset, FS_CardinalityType
  <2>8. v[i] = [m EXCEPT !.count = @ + Cardinality(P)]
    BY ONLY <1>2, <1>4, <2>1, <2>4, i \in 1..n DEF ThreadFields
  <2>9. PICK c, k : c = m.count /\ k = Cardinality(P)
    OBVIOUS
  <2>10. m.ts \in Nat /\ m.thread \in Nat /\ c \in Nat
         /\ m = [ts |-> m.ts, count |-> c, thread |-> m.thread]
    BY ONLY <2>2, <2>9 DEF Message
  <2>11. v[i] = [ts |-> m.ts, count |-> c + k, thread |-> m.thread]
    BY ONLY <2>8, <2>9, <2>10
  <2>12. c + k \in Nat
    BY ONLY <2>7, <2>9, <2>10
  <2>13. v[i] \in Message /\ v[i].ts = m.ts /\ v[i].thread = m.thread /\ v[i].count = c + k
    BY ONLY <2>10, <2>11, <2>12 DEF Message
  <2>14. PICK X, F : /\ X = {x \in RealFirst : x.thread = m.ts}
                     /\ F = {p \in PostsFirst : p.thread = m.ts /\ p.channel = "here"}
    OBVIOUS
  <2>15. F \subseteq P
    <3> SUFFICES ASSUME NEW p \in F PROVE p \in P
      OBVIOUS
    <3>1. p \in Posts /\ p.thread = m.ts /\ p.channel = "here"
      BY <2>14, FirstFacts
    <3>2. InChannel(p) = "yes"
      BY <3>1, ChannelFacts
    <3> QED BY ONLY <2>1, <3>1, <3>2 DEF PostReplies
  <2>16. Cardinality(F) \in Nat /\ Cardinality(F) <= k
    BY <2>7, <2>9, <2>15, FS_Subset, FS_CardinalityType
  <2>17. Cardinality(X) \in Nat
    <3>1. X \subseteq Others /\ IsFiniteSet(Others)
      BY <2>14, FirstFacts, WorldFacts
    <3> QED BY <3>1, FS_Subset, FS_CardinalityType
  <2>18. c >= Cardinality(X)
    BY ONLY <2>2, <2>9, <2>14 DEF Genuine
  <2>19. c + k >= Cardinality(X) + Cardinality(F) /\ c + k >= Cardinality(X)
    BY ONLY <2>7, <2>9, <2>10, <2>16, <2>17, <2>18
  <2>20. \E x \in Others \cup Posts : v[i].ts = x.ts /\ v[i].thread = x.thread
    BY ONLY <2>2, <2>13 DEF Genuine
  <2>21. Counted(v[i])
    BY ONLY <2>13, <2>14, <2>19, <2>20 DEF Counted, Genuine, FirstReplies
  <2> QED BY ONLY <2>1, <2>5, <2>9, <2>13, <2>21
<1>6. DOMAIN v = 1..n
  BY ONLY <1>2, <1>4
<1>7. v = [i \in 1..n |-> v[i]]
  BY ONLY <1>2, <1>4
<1>8. v \in Seq(Message)
  BY ONLY <1>4, <1>5, <1>7
<1> QED BY ONLY <1>4, <1>5, <1>6, <1>8

\* The ids of q are t and, each once, those of S.
Exactly(q, S, t) ==
    /\ t \notin S
    /\ \A i \in DOMAIN q : q[i].ts \in S \cup {t}
    /\ \A s \in S : \E i \in DOMAIN q : q[i].ts = s /\ \A j \in DOMAIN q : q[j].ts = s => j = i

\* Their ids.
Times0(T) == {x.ts : x \in T}

\* What joining two sequences does.
LEMMA Concat ==
    ASSUME NEW S, NEW p \in Seq(S), NEW q \in Seq(S)
    PROVE  /\ p \o q \in Seq(S)
           /\ Len(p) \in Nat /\ Len(q) \in Nat /\ Len(p \o q) = Len(p) + Len(q)
           /\ DOMAIN p = 1..Len(p) /\ DOMAIN q = 1..Len(q) /\ DOMAIN (p \o q) = 1..(Len(p) + Len(q))
           /\ \A i \in 1..Len(p) : i \in DOMAIN (p \o q) /\ (p \o q)[i] = p[i]
           /\ \A i \in 1..Len(q) : Len(p) + i \in DOMAIN (p \o q) /\ (p \o q)[Len(p) + i] = q[i]
           /\ \A i \in DOMAIN (p \o q) :
                  \/ i \in 1..Len(p)
                  \/ \E j \in 1..Len(q) : i = Len(p) + j
<1> PICK r, n, m : r = p \o q /\ n = Len(p) /\ m = Len(q)
  OBVIOUS
<1>1. n \in Nat /\ m \in Nat /\ DOMAIN p = 1..n /\ DOMAIN q = 1..m /\ DOMAIN r = 1..(n + m)
      /\ r \in Seq(S) /\ Len(r) = n + m
  OBVIOUS
<1>2. \A i \in 1..n : i \in DOMAIN r /\ r[i] = p[i]
  BY <1>1
<1>3. \A i \in 1..m : n + i \in DOMAIN r /\ r[n + i] = q[i]
  BY <1>1
<1>4. ASSUME NEW i \in 1..(n + m), i \notin 1..n PROVE \E j \in 1..m : i = n + j
  <2>1. i - n \in 1..m /\ i = n + (i - n)
    BY ONLY <1>1, <1>4, i \in 1..(n + m)
  <2> QED BY ONLY <2>1
<1> QED BY ONLY <1>1, <1>2, <1>3, <1>4, r = p \o q, n = Len(p), m = Len(q)

\* Two sequences of different ids have the ids of both.
LEMMA ExactlyJoined ==
    ASSUME NEW M, NEW p \in Seq(M), NEW q \in Seq(M), NEW S, NEW T, NEW t,
           Exactly(p, S, t), Exactly(q, T, t), \A x \in S : x \notin T
    PROVE  p \o q \in Seq(M) /\ Exactly(p \o q, S \cup T, t)
<1>1. PICK r, n, m : r = p \o q /\ n = Len(p) /\ m = Len(q)
  OBVIOUS
<1>2. /\ r \in Seq(M) /\ n \in Nat /\ m \in Nat
      /\ DOMAIN p = 1..n /\ DOMAIN q = 1..m /\ DOMAIN r = 1..(n + m)
      /\ \A i \in 1..n : i \in DOMAIN r /\ r[i] = p[i]
      /\ \A i \in 1..m : n + i \in DOMAIN r /\ r[n + i] = q[i]
      /\ \A i \in DOMAIN r : i \in 1..n \/ \E j \in 1..m : i = n + j
  BY <1>1, Concat
<1>a. /\ t \notin S /\ t \notin T
      /\ \A i \in 1..n : p[i].ts \in S \cup {t}
      /\ \A i \in 1..m : q[i].ts \in T \cup {t}
      /\ \A s \in S : \E i \in 1..n : p[i].ts = s /\ \A j \in 1..n : p[j].ts = s => j = i
      /\ \A s \in T : \E i \in 1..m : q[i].ts = s /\ \A j \in 1..m : q[j].ts = s => j = i
  <2>1. DOMAIN p = 1..n /\ DOMAIN q = 1..m
    BY ONLY <1>2
  <2> QED BY ONLY <2>1, Exactly(p, S, t), Exactly(q, T, t) DEF Exactly
<1>b. \A x \in S : x \notin T
  OBVIOUS
<1>3. \A i \in DOMAIN r : r[i].ts \in (S \cup T) \cup {t}
  <2> SUFFICES ASSUME NEW i \in DOMAIN r PROVE r[i].ts \in (S \cup T) \cup {t}
    OBVIOUS
  <2>1. CASE i \in 1..n
    <3>1. r[i] = p[i]
      BY ONLY <1>2, <2>1
    <3> QED BY ONLY <1>a, <2>1, <3>1
  <2>2. CASE i \notin 1..n
    <3>1. PICK j \in 1..m : i = n + j
      BY ONLY <1>2, <2>2, i \in DOMAIN r
    <3>2. r[i] = q[j]
      BY ONLY <1>2, <3>1
    <3> QED BY ONLY <1>a, <3>1, <3>2
  <2> QED BY ONLY <2>1, <2>2
<1>4. ASSUME NEW s \in S
      PROVE  \E i \in DOMAIN r : r[i].ts = s /\ \A j \in DOMAIN r : r[j].ts = s => j = i
  <2>1. PICK i \in 1..n : p[i].ts = s /\ \A j \in 1..n : p[j].ts = s => j = i
    BY ONLY <1>a, s \in S
  <2>2. \A j \in 1..m : q[j].ts # s
    BY ONLY <1>a, <1>b, s \in S
  <2>3. ASSUME NEW j \in DOMAIN r, r[j].ts = s PROVE j = i
    <3>1. CASE j \in 1..n
      <4>1. r[j] = p[j]
        BY ONLY <1>2, <3>1
      <4> QED BY ONLY <2>1, <2>3, <3>1, <4>1
    <3>2. CASE j \notin 1..n
      <4>1. PICK k \in 1..m : j = n + k
        BY ONLY <1>2, <3>2, j \in DOMAIN r
      <4>2. r[j] = q[k]
        BY ONLY <1>2, <4>1
      <4> QED BY ONLY <2>2, <2>3, <4>1, <4>2
    <3> QED BY ONLY <3>1, <3>2
  <2>4. i \in DOMAIN r /\ r[i].ts = s
    BY ONLY <1>2, <2>1
  <2> QED BY ONLY <2>3, <2>4
<1>5. ASSUME NEW s \in T
      PROVE  \E i \in DOMAIN r : r[i].ts = s /\ \A j \in DOMAIN r : r[j].ts = s => j = i
  <2>1. PICK i \in 1..m : q[i].ts = s /\ \A j \in 1..m : q[j].ts = s => j = i
    BY ONLY <1>a, s \in T
  <2>2. \A j \in 1..n : p[j].ts # s
    BY ONLY <1>a, <1>b, s \in T
  <2>3. ASSUME NEW j \in DOMAIN r, r[j].ts = s PROVE j = n + i
    <3>1. CASE j \in 1..n
      <4>1. r[j] = p[j]
        BY ONLY <1>2, <3>1
      <4> QED BY ONLY <2>2, <2>3, <3>1, <4>1
    <3>2. CASE j \notin 1..n
      <4>1. PICK k \in 1..m : j = n + k
        BY ONLY <1>2, <3>2, j \in DOMAIN r
      <4>2. r[j] = q[k]
        BY ONLY <1>2, <4>1
      <4>3. k = i
        BY ONLY <2>1, <2>3, <4>1, <4>2
      <4> QED BY ONLY <4>1, <4>3
    <3> QED BY ONLY <3>1, <3>2
  <2>4. n + i \in DOMAIN r /\ r[n + i].ts = s
    BY ONLY <1>2, <2>1
  <2> QED BY ONLY <2>3, <2>4
<1>6. t \notin S \cup T
  BY ONLY <1>a
<1> QED BY ONLY <1>1, <1>2, <1>3, <1>4, <1>5, <1>6 DEF Exactly

\* Only the ids matter.
LEMMA ExactlyAlike ==
    ASSUME NEW p, NEW q, NEW S, NEW t, Exactly(p, S, t), DOMAIN q = DOMAIN p,
           \A i \in DOMAIN p : q[i].ts = p[i].ts
    PROVE  Exactly(q, S, t)
BY DEF Exactly

\* A sequence of messages of different ids has their ids.
LEMMA ExactlyEnum ==
    ASSUME NEW p, NEW T, Enum(p, T), \A x, y \in T : x.ts = y.ts => x = y, NEW t,
           \A x \in T : x.ts # t
    PROVE  Exactly(p, Times0(T), t)
<1>1. t \notin Times0(T) /\ \A i \in DOMAIN p : p[i].ts \in Times0(T) \cup {t}
  BY DEF Enum, Times0
<1>2. ASSUME NEW s \in Times0(T)
      PROVE  \E i \in DOMAIN p : p[i].ts = s /\ \A j \in DOMAIN p : p[j].ts = s => j = i
  <2>1. PICK x \in T : s = x.ts
    BY DEF Times0
  <2>2. PICK i \in DOMAIN p : p[i] = x /\ \A j \in DOMAIN p : p[j] = x => j = i
    BY DEF Enum
  <2>3. \A j \in DOMAIN p : p[j].ts = s => p[j] = x
    BY <2>1 DEF Enum
  <2> QED BY ONLY <2>1, <2>2, <2>3
<1> QED BY ONLY <1>1, <1>2 DEF Exactly

\* There is a real message under which the read's thread hangs; history has none.
Real(r) == r.op = "replies" => \E y \in Others : y.ts = r.thread /\ y.thread = NoTs

\* The count of the message t is Slack's.
Replied(m, t) == m.ts = t => m.count = Cardinality({x \in Others : x.thread = t})

\* An answer has what is left, or what comes first of that.
LEMMA AnswerFacts ==
    ASSUME World, Bounds, NEW r, Shape(r), Real(r), NEW a, a = Answered(r)
    PROVE  /\ a.ok /\ a.messages \in Seq(Message)
           /\ \A i \in DOMAIN a.messages :
                 /\ Genuine(a.messages[i])
                 /\ \E x \in Others : a.messages[i].ts = x.ts
                 /\ Replied(a.messages[i], r.thread)
           /\ r.op = "replies" => r.thread \in Shown(a.messages)
           /\ ~a.more => Exactly(a.messages, Times0(LeftSet(r)), r.thread)
           /\ a.more => \E x \in LeftSet(r) :
                 /\ Last(a.messages).ts = x.ts
                 /\ Exactly(a.messages, Times0({y \in LeftSet(r) : Behind(y.ts, r.op, x.ts)}), r.thread)
<1>1. PICK u, v, n, k : u = Parents(r) /\ v = Cut(r) /\ n = Len(v) /\ k = Len(u)
  OBVIOUS
<1>2. /\ v \in Seq(Written) /\ n \in Nat /\ DOMAIN v = 1..n
      /\ n = Len(Left(r)) => Enum(v, LeftSet(r))
      /\ n < Len(Left(r)) =>
            /\ n # 0 /\ v[n] \in LeftSet(r)
            /\ Enum(v, {x \in LeftSet(r) : Behind(x.ts, r.op, v[n].ts)})
      /\ n < Len(Left(r)) \/ n = Len(Left(r))
  BY <1>1, CutEnum
<1>3. /\ u \in Seq(Written)
      /\ \A i \in DOMAIN u : u[i] \in Others /\ u[i].ts = r.thread
      /\ r.op = "replies" => u # <<>>
  <2>1. CASE r.op = "replies"
    <3>1. PICK places, T : /\ places = {i \in DOMAIN real : real[i].ts = r.thread}
                           /\ T = {real[i] : i \in {l \in DOMAIN real : l \in places}}
      OBVIOUS
    <3>2. real \in Seq(Written) /\ Differ(real) /\ u = Picked(real, places)
      BY <1>1, <2>1, <3>1, PostsApart DEF Parents
    <3>3. u \in Seq(Written) /\ Enum(u, T)
      BY ONLY <3>1, <3>2, PickedEnum
    <3>4. \A x \in T : x \in Others /\ x.ts = r.thread
      BY ONLY <3>1 DEF Others, ToSet
    <3>5. T # {}
      BY <2>1, <3>1 DEF Real, Others, ToSet
    <3> QED BY ONLY <3>3, <3>4, <3>5 DEF Enum
  <2>2. CASE r.op = "history"
    <3>1. u = <<>>
      BY <1>1, <2>2 DEF Parents
    <3> QED BY ONLY <2>2, <3>1
  <2> QED BY <2>1, <2>2 DEF Shape
<1>4. PICK q, m : q = u \o v /\ m = a.messages
  OBVIOUS
<1>5. /\ q \in Seq(Written) /\ k \in Nat /\ Len(q) = k + n
      /\ DOMAIN u = 1..k /\ DOMAIN v = 1..n /\ DOMAIN q = 1..(k + n)
      /\ \A i \in 1..k : i \in DOMAIN q /\ q[i] = u[i]
      /\ \A i \in 1..n : k + i \in DOMAIN q /\ q[k + i] = v[i]
      /\ \A i \in DOMAIN q : i \in 1..k \/ \E j \in 1..n : i = k + j
  <2>1. u \in Seq(Written) /\ v \in Seq(Written) /\ q = u \o v /\ n = Len(v) /\ k = Len(u)
    BY ONLY <1>1, <1>2, <1>3, <1>4
  <2> QED BY ONLY <2>1, Concat
<1>6. /\ m = [i \in DOMAIN q |-> Live(q[i])]
      /\ a.more = (n < Len(Left(r)))
      /\ a.ok = (r.op = "replies" => u # <<>>)
  BY <1>1, <1>4 DEF Answered
<1>7. LeftSet(r) \subseteq Others
  BY DEF LeftSet
<1>8. \A i \in 1..n : v[i] \in Others
  BY ONLY <1>2, <1>7 DEF Enum
<1>9. \A i \in DOMAIN q : q[i] \in Others
  BY ONLY <1>3, <1>5, <1>8
<1>10. \A i \in DOMAIN q : /\ Genuine(m[i]) /\ m[i].ts = q[i].ts
                           /\ m[i].count = Cardinality({y \in Others : y.thread = q[i].ts})
  <2> SUFFICES ASSUME NEW i \in DOMAIN q
               PROVE  /\ Genuine(m[i]) /\ m[i].ts = q[i].ts
                      /\ m[i].count = Cardinality({y \in Others : y.thread = q[i].ts})
    OBVIOUS
  <2>1. m[i] = Live(q[i]) /\ q[i] \in Others
    BY ONLY <1>6, <1>9, i \in DOMAIN q
  <2>2. /\ Genuine(Live(q[i])) /\ Live(q[i]).ts = q[i].ts
        /\ Live(q[i]).count = Cardinality({y \in Others : y.thread = q[i].ts})
    BY <2>1, LiveGenuine
  <2> QED BY ONLY <2>1, <2>2
<1>11. m \in Seq(Message) /\ DOMAIN m = 1..(k + n) /\ Len(m) = k + n
  <2>1. \A i \in 1..(k + n) : m[i] \in Message
    BY ONLY <1>5, <1>10 DEF Genuine
  <2>2. m = [i \in 1..(k + n) |-> m[i]] /\ k + n \in Nat
    BY ONLY <1>2, <1>5, <1>6
  <2> QED BY ONLY <2>1, <2>2
<1>12. Exactly(u, {}, r.thread)
  BY ONLY <1>3 DEF Exactly
<1>13. ASSUME NEW S, S \subseteq LeftSet(r), Enum(v, S)
       PROVE  Exactly(m, Times0(S), r.thread)
  <2>1. \A x, y \in S : x.ts = y.ts => x = y
    BY <1>7, <1>13, WorldFacts
  <2>2. \A x \in S : x.ts # r.thread
    <3> SUFFICES ASSUME NEW x \in S, x.ts = r.thread PROVE FALSE
      OBVIOUS
    <3>1. x \in Others /\ x.thread = r.thread /\ x.ts # NoTs
      BY <1>13, WorldFacts DEF LeftSet, Fits
    <3>2. CASE r.op = "history"
      BY <3>1, <3>2 DEF Shape
    <3>3. CASE r.op = "replies"
      <4>1. PICK y \in Others : y.ts = r.thread /\ y.thread = NoTs
        BY <3>3 DEF Real
      <4>2. y = x
        BY <3>1, <4>1, WorldFacts
      <4> QED BY <3>1, <4>1, <4>2
    <3> QED BY <3>2, <3>3 DEF Shape
  <2>3. Exactly(v, Times0(S), r.thread)
    BY ONLY <1>13, <2>1, <2>2, ExactlyEnum
  <2>4. Exactly(q, {} \cup Times0(S), r.thread)
    BY ONLY <1>2, <1>3, <1>4, <1>12, <2>3, ExactlyJoined
  <2>5. Exactly(q, Times0(S), r.thread)
    BY ONLY <2>4 DEF Exactly
  <2>6. DOMAIN m = DOMAIN q /\ \A i \in DOMAIN q : m[i].ts = q[i].ts
    BY ONLY <1>5, <1>10, <1>11
  <2> QED BY ONLY <2>5, <2>6, ExactlyAlike
<1>14. r.op = "replies" => r.thread \in Shown(m)
  <2> SUFFICES ASSUME r.op = "replies" PROVE r.thread \in Shown(m)
    OBVIOUS
  <2>1. k # 0
    BY <1>1, <1>3
  <2>2. 1 \in 1..k
    BY ONLY <1>5, <2>1
  <2>3. 1 \in DOMAIN m /\ m[1].ts = r.thread
    <3>1. 1 \in DOMAIN q /\ q[1] = u[1] /\ 1 \in DOMAIN u /\ DOMAIN m = DOMAIN q
      BY ONLY <1>5, <1>11, <2>2
    <3> QED BY ONLY <1>3, <1>10, <3>1
  <2> QED BY ONLY <2>3 DEF Shown
<1>15. \A i \in DOMAIN m :
          /\ Genuine(m[i])
          /\ \E x \in Others : m[i].ts = x.ts
          /\ Replied(m[i], r.thread)
  <2>1. DOMAIN m = DOMAIN q
    BY ONLY <1>5, <1>11
  <2> SUFFICES ASSUME NEW i \in DOMAIN m
               PROVE  /\ Genuine(m[i])
                      /\ \E x \in Others : m[i].ts = x.ts
                      /\ Replied(m[i], r.thread)
    OBVIOUS
  <2>3. i \in DOMAIN q
    BY ONLY <2>1, i \in DOMAIN m
  <2>2. q[i] \in Others /\ Genuine(m[i]) /\ m[i].ts = q[i].ts
        /\ m[i].count = Cardinality({y \in Others : y.thread = q[i].ts})
    BY ONLY <1>9, <1>10, <2>3
  <2> QED BY ONLY <2>2 DEF Replied
<1>16. ~a.more => Exactly(m, Times0(LeftSet(r)), r.thread)
  BY ONLY <1>2, <1>6, <1>13
<1>17. ASSUME a.more
       PROVE  \E x \in LeftSet(r) :
                 /\ Last(m).ts = x.ts
                 /\ Exactly(m, Times0({y \in LeftSet(r) : Behind(y.ts, r.op, x.ts)}), r.thread)
  <2>1. n # 0 /\ v[n] \in LeftSet(r) /\ Enum(v, {x \in LeftSet(r) : Behind(x.ts, r.op, v[n].ts)})
    BY ONLY <1>2, <1>6, <1>17
  <2>2. n \in 1..n /\ k + n \in 1..(k + n)
    BY ONLY <1>2, <1>5, <2>1
  <2>3. Last(m).ts = v[n].ts
    BY ONLY <1>5, <1>10, <1>11, <2>2 DEF Last
  <2>4. PICK S : S = {x \in LeftSet(r) : Behind(x.ts, r.op, v[n].ts)}
    OBVIOUS
  <2>5. Exactly(m, Times0(S), r.thread)
    BY ONLY <1>13, <2>1, <2>4
  <2> QED BY ONLY <2>1, <2>3, <2>4, <2>5
<1>18. a.ok
  BY ONLY <1>3, <1>6
<1> QED BY ONLY <1>4, <1>11, <1>14, <1>15, <1>16, <1>17, <1>18

-----------------------------------------------------------------------------
(* What the effects make of a page. *)

\* Turned round, a sequence has the same ids.
LEMMA ReverseExactly ==
    ASSUME NEW S, NEW q \in Seq(S), NEW T, NEW t, Exactly(q, T, t), NEW v, v = Reverse(q)
    PROVE  /\ v \in Seq(S) /\ Exactly(v, T, t)
           /\ \A i \in DOMAIN v : \E j \in DOMAIN q : v[i] = q[j]
<1>1. PICK n : n = Len(q)
  OBVIOUS
<1>2. n \in Nat /\ DOMAIN q = 1..n /\ \A i \in 1..n : q[i] \in S
  BY <1>1
<1>3. v = [i \in 1..n |-> q[(n - i) + 1]]
  BY <1>1 DEF Reverse
<1>4. \A i \in 1..n : (n - i) + 1 \in 1..n /\ (n - ((n - i) + 1)) + 1 = i
  BY ONLY <1>2
<1>5. v \in Seq(S) /\ DOMAIN v = 1..n /\ \A i \in 1..n : v[i] = q[(n - i) + 1]
  BY ONLY <1>2, <1>3, <1>4
<1>6. /\ t \notin T /\ \A i \in 1..n : q[i].ts \in T \cup {t}
      /\ \A s \in T : \E i \in 1..n : q[i].ts = s /\ \A j \in 1..n : q[j].ts = s => j = i
  BY ONLY <1>2, Exactly(q, T, t) DEF Exactly
<1>7. ASSUME NEW s \in T
      PROVE  \E i \in 1..n : v[i].ts = s /\ \A j \in 1..n : v[j].ts = s => j = i
  <2>1. PICK k \in 1..n : q[k].ts = s /\ \A j \in 1..n : q[j].ts = s => j = k
    BY ONLY <1>6, s \in T
  <2>2. (n - k) + 1 \in 1..n /\ v[(n - k) + 1].ts = s
    BY ONLY <1>4, <1>5, <2>1
  <2>3. \A j \in 1..n : v[j].ts = s => j = (n - k) + 1
    <3> TAKE j \in 1..n
    <3>1. v[j] = q[(n - j) + 1] /\ (n - j) + 1 \in 1..n
      BY ONLY <1>4, <1>5, j \in 1..n
    <3>2. v[j].ts = s => (n - j) + 1 = k
      BY ONLY <2>1, <3>1
    <3> QED BY ONLY <1>2, <2>1, <3>2, j \in 1..n
  <2> QED BY ONLY <2>2, <2>3
<1>8. \A i \in 1..n : v[i].ts \in T \cup {t} /\ \E j \in 1..n : v[i] = q[j]
  BY ONLY <1>4, <1>5, <1>6
<1>9. Exactly(v, T, t)
  <2>1. /\ t \notin T /\ \A i \in 1..n : v[i].ts \in T \cup {t}
        /\ \A s \in T : \E i \in 1..n : v[i].ts = s /\ \A j \in 1..n : v[j].ts = s => j = i
    BY ONLY <1>6, <1>7, <1>8
  <2>2. DOMAIN v = 1..n
    BY ONLY <1>5
  <2> QED BY ONLY <2>1, <2>2 DEF Exactly
<1>10. \A i \in DOMAIN v : \E j \in DOMAIN q : v[i] = q[j]
  BY ONLY <1>2, <1>5, <1>8
<1> QED BY ONLY <1>5, <1>9, <1>10

\* The messages q are what irimi says of these posts.
LaidOn(q, these, t) ==
    /\ q \in Seq(Message) /\ Exactly(q, Times0(these), t)
    /\ \A i \in DOMAIN q :
          /\ Genuine(q[i]) /\ q[i].count = 0
          /\ \E p \in these : q[i].ts = p.ts /\ q[i].thread = p.thread

\* Posts laid over a page are messages.
LEMMA LaidOver ==
    ASSUME World, Bounds, NEW these, these \subseteq Posts, NEW t, \A p \in these : p.ts # t,
           NEW q, q = AsMessages(these)
    PROVE  LaidOn(q, these, t)
<1>1. PICK n, b : n = Cardinality(these) /\ b = ByTs(these)
  OBVIOUS
<1>2. n \in Nat /\ DOMAIN b = 1..n /\ Enum(b, these)
  BY <1>1, ByTsEnum
<1>3. q = [i \in 1..n |-> AsMessage(b[i])]
  BY <1>1 DEF AsMessages
<1>4. \A x, y \in these : x.ts = y.ts => x = y
  BY WorldFacts
<1>5. Exactly(b, Times0(these), t)
  BY <1>2, <1>4, ExactlyEnum
<1>6. \A i \in 1..n : /\ b[i] \in these /\ q[i].ts = b[i].ts /\ q[i].thread = b[i].thread
                      /\ Genuine(q[i]) /\ q[i].count = 0
  <2> SUFFICES ASSUME NEW i \in 1..n
               PROVE  /\ b[i] \in these /\ q[i].ts = b[i].ts /\ q[i].thread = b[i].thread
                      /\ Genuine(q[i]) /\ q[i].count = 0
    OBVIOUS
  <2>1. b[i] \in these /\ b[i] \in Posts
    BY <1>2 DEF Enum
  <2>2. q[i] = AsMessage(b[i])
    BY ONLY <1>3, i \in 1..n
  <2> QED BY <2>1, <2>2, PostGenuine
<1>7. DOMAIN q = 1..n
  BY ONLY <1>3
<1>8. q \in Seq(Message)
  <2>1. \A i \in 1..n : q[i] \in Message
    BY ONLY <1>6 DEF Genuine
  <2>2. q = [i \in 1..n |-> q[i]]
    BY ONLY <1>3
  <2> QED BY ONLY <1>2, <2>1, <2>2
<1>9. Exactly(q, Times0(these), t)
  <2>1. DOMAIN q = DOMAIN b /\ \A i \in DOMAIN b : q[i].ts = b[i].ts
    BY ONLY <1>2, <1>6, <1>7
  <2> QED BY ONLY <1>5, <2>1, ExactlyAlike
<1> QED BY ONLY <1>6, <1>7, <1>8, <1>9 DEF LaidOn

\* What is left for this page.
PageSet(r, a) ==
    IF a.more THEN {y \in LeftSet(r) : Behind(y.ts, r.op, Last(a.messages).ts)} ELSE LeftSet(r)

\* The page on which the posts are.
PostsPage(r, a) == IF r.op = "history" THEN FirstPage(r) ELSE ~a.more

\* The page q has its messages and the posts P, and counts their replies.
Holds(q, r, a, P) ==
    /\ q \in Seq(Message) /\ \A i \in DOMAIN q : Counted(q[i])
    /\ P \subseteq Posts /\ \A p \in P : p.channel = "here" /\ Fits(p, r)
    /\ IF PostsPage(r, a) THEN \A p \in Posts : p.channel = "here" /\ Fits(p, r) => p \in P
       ELSE P = {}
    /\ Exactly(q, Times0(PageSet(r, a) \cup P), r.thread)
    /\ r.op = "replies" /\ ~a.more =>
          /\ r.oldest = NoTs /\ r.latest = NoTs => P = PostReplies(r.thread)
          /\ \A i \in DOMAIN q : q[i].ts = r.thread =>
                q[i].count = Cardinality({x \in Others : x.thread = r.thread})
                             + Cardinality(PostReplies(r.thread))

\* What Slack sends is its page.
LEMMA AnswerPage ==
    ASSUME World, Bounds, NEW r, Shape(r), Real(r), NEW a, a = Answered(r)
    PROVE  /\ Exactly(a.messages, Times0(PageSet(r, a)), r.thread)
           /\ PageSet(r, a) \subseteq LeftSet(r) /\ LeftSet(r) \subseteq Others
           /\ a.more => \E x \in LeftSet(r) : Last(a.messages).ts = x.ts
<1>1. /\ ~a.more => Exactly(a.messages, Times0(LeftSet(r)), r.thread)
      /\ a.more => \E x \in LeftSet(r) :
            /\ Last(a.messages).ts = x.ts
            /\ Exactly(a.messages, Times0({y \in LeftSet(r) : Behind(y.ts, r.op, x.ts)}), r.thread)
  BY AnswerFacts
<1>2. a.more \/ ~a.more
  OBVIOUS
<1>3. LeftSet(r) \subseteq Others
  BY DEF LeftSet
<1>4. CASE a.more
  <2>1. PICK x \in LeftSet(r) :
            /\ Last(a.messages).ts = x.ts
            /\ Exactly(a.messages, Times0({y \in LeftSet(r) : Behind(y.ts, r.op, x.ts)}), r.thread)
    BY ONLY <1>1, <1>4
  <2>2. PageSet(r, a) = {y \in LeftSet(r) : Behind(y.ts, r.op, x.ts)}
    BY ONLY <1>4, <2>1 DEF PageSet
  <2>3. Exactly(a.messages, Times0(PageSet(r, a)), r.thread)
    BY ONLY <2>1, <2>2
  <2>4. PageSet(r, a) \subseteq LeftSet(r)
    BY ONLY <2>2
  <2> QED BY ONLY <1>3, <2>1, <2>3, <2>4
<1>5. CASE ~a.more
  <2>1. PageSet(r, a) = LeftSet(r)
    BY ONLY <1>5 DEF PageSet
  <2> QED BY ONLY <1>1, <1>3, <1>5, <2>1
<1> QED BY ONLY <1>2, <1>4, <1>5

\* Nothing is laid over a page.
LEMMA BarePage ==
    ASSUME World, Bounds, NEW r, Shape(r), Real(r), NEW a, a = Answered(r),
           r.op = "history" => \A p \in Posts : InChannel(p) = "no",
           r.op = "replies" => PostReplies(r.thread) = {}
    PROVE  Holds(a.messages, r, a, {})
<1>1. PICK q : q = a.messages
  OBVIOUS
<1>2. /\ q \in Seq(Message)
      /\ \A i \in DOMAIN q : /\ Genuine(q[i]) /\ \E x \in Others : q[i].ts = x.ts
                             /\ Replied(q[i], r.thread)
  <2>1. /\ a.messages \in Seq(Message)
        /\ \A i \in DOMAIN a.messages :
              /\ Genuine(a.messages[i])
              /\ \E x \in Others : a.messages[i].ts = x.ts
              /\ Replied(a.messages[i], r.thread)
    BY AnswerFacts
  <2> QED BY ONLY <1>1, <2>1
<1>3. Exactly(q, Times0(PageSet(r, a)), r.thread)
  BY <1>1, AnswerPage
<1>4. \A p \in Posts : ~(p.channel = "here" /\ Fits(p, r))
  <2> SUFFICES ASSUME NEW p \in Posts, p.channel = "here", p.thread = r.thread PROVE FALSE
    BY DEF Fits
  <2>1. InChannel(p) = "yes"
    BY ChannelFacts
  <2>2. r.op = "replies"
    BY <2>1 DEF Shape
  <2> QED BY <2>1, <2>2 DEF PostReplies
<1>5. ASSUME NEW i \in DOMAIN q PROVE Counted(q[i])
  <2>1. Genuine(q[i])
    BY <1>2
  <2>2. PostReplies(q[i].ts) = {}
    <3>1. CASE r.op = "history"
      BY <3>1 DEF PostReplies
    <3>2. CASE r.op = "replies"
      <4>1. PICK m : m = q[i]
        OBVIOUS
      <4>2. m.ts \in Times0(PageSet(r, a)) \cup {r.thread}
        BY ONLY <1>3, <4>1, i \in DOMAIN q DEF Exactly
      <4>3. CASE m.ts = r.thread
        BY <3>2, <4>1, <4>3
      <4>4. CASE m.ts \in Times0(PageSet(r, a))
        <5>1. PICK x \in PageSet(r, a) : m.ts = x.ts
          BY <4>4 DEF Times0
        <5>2. x \in Others /\ x.thread = r.thread
          BY <5>1, AnswerPage DEF LeftSet, Fits
        <5>3. r.thread # NoTs
          <6>1. \E y \in Others : y.ts = r.thread
            BY <3>2 DEF Real
          <6> QED BY <6>1, WorldFacts
        <5>4. \A p \in Posts : p.thread # m.ts
          BY <5>1, <5>2, <5>3, AnswersHang
        <5> QED BY <4>1, <5>4 DEF PostReplies
      <4> QED BY ONLY <4>2, <4>3, <4>4
    <3> QED BY <3>1, <3>2 DEF Shape
  <2> QED BY <2>1, <2>2, ReplyCounted
<1>6. r.op = "replies" => Cardinality(PostReplies(r.thread)) = 0
  BY FS_EmptySet
<1>7. \A i \in DOMAIN q : q[i].ts = r.thread => q[i].count \in Nat
  BY <1>2 DEF Genuine, Message
<1>8. r.op = "replies" => \A i \in DOMAIN q : q[i].ts = r.thread =>
          q[i].count = Cardinality({x \in Others : x.thread = r.thread})
                       + Cardinality(PostReplies(r.thread))
  <2> SUFFICES ASSUME r.op = "replies", NEW i \in DOMAIN q, q[i].ts = r.thread
               PROVE  q[i].count = Cardinality({x \in Others : x.thread = r.thread})
                                   + Cardinality(PostReplies(r.thread))
    OBVIOUS
  <2>1. PICK c, d : /\ c = Cardinality({x \in Others : x.thread = r.thread})
                    /\ d = Cardinality(PostReplies(r.thread))
    OBVIOUS
  <2>2. q[i].count = c /\ q[i].count \in Nat /\ d = 0
    BY <1>2, <1>6, <1>7, <2>1 DEF Replied
  <2>3. q[i].count = c + d
    BY ONLY <2>2
  <2> QED BY ONLY <2>1, <2>3
<1>9. PageSet(r, a) = PageSet(r, a) \cup {}
  OBVIOUS
<1>10. r.op = "replies" => {} = PostReplies(r.thread)
  OBVIOUS
<1> QED BY ONLY <1>1, <1>2, <1>3, <1>4, <1>5, <1>8, <1>9, <1>10 DEF Holds

\* Counting the replies of a page whose messages and posts are these.
LEMMA FieldsHold ==
    ASSUME World, Bounds, NEW q \in Seq(Message), \A i \in DOMAIN q : Genuine(q[i]),
           ~Threads(q).partial, NEW v, v = Threads(q).messages,
           NEW T, NEW t, Exactly(q, T, t)
    PROVE  /\ v \in Seq(Message) /\ DOMAIN v = DOMAIN q /\ Exactly(v, T, t)
           /\ \A i \in DOMAIN v : Counted(v[i])
<1>1. /\ v \in Seq(Message) /\ DOMAIN v = DOMAIN q
      /\ \A i \in DOMAIN q : v[i].ts = q[i].ts /\ Counted(v[i])
  BY ThreadsCounted
<1>2. Exactly(v, T, t)
  BY <1>1, ExactlyAlike
<1> QED BY ONLY <1>1, <1>2

\* A page of history that is not partial.
LEMMA HistoryPage ==
    ASSUME World, Bounds, NEW r, Shape(r), r.op = "history", NEW a, a = Answered(r),
           NEW b, b = History(r, a), ~b.partial
    PROVE  \E P : Holds(b.messages, r, a, P)
<1>0. Real(r)
  BY DEF Real
<1>1. CASE \A p \in Posts : InChannel(p) = "no"
  <2>1. b = Applied(a.messages, FALSE)
    BY <1>1 DEF History
  <2>2. b.messages = a.messages
    BY <2>1 DEF Applied
  <2>3. Holds(a.messages, r, a, {})
    BY <1>0, <1>1, BarePage
  <2> QED BY <2>2, <2>3
<1>2. CASE \E p \in Posts : InChannel(p) # "no"
  <2>0. PICK H, head, w : /\ H = PageHead(r, a.messages) /\ w = a.messages
                          /\ head = IF FirstPage(r) THEN Reverse(AsMessages(H)) ELSE <<>>
    OBVIOUS
  <2>1. PICK q, v : q = head \o w /\ v = Threads(q)
    OBVIOUS
  <2>2. /\ ~r.odd
        /\ b = Applied(v.messages, \/ v.partial
                                   \/ FirstPage(r) /\ \E p \in ForHistory(r) : p \notin Sure(ForHistory(r))
                                                                        \/ p.broadcast)
    <3>1. ~\A p \in Posts : InChannel(p) = "no"
      BY <1>2
    <3>2. ~r.odd
      <4> SUFFICES ASSUME r.odd PROVE FALSE
        OBVIOUS
      <4>1. b = Applied(a.messages, TRUE)
        BY <3>1 DEF History
      <4> QED BY <4>1 DEF Applied
    <3> QED BY <2>0, <2>1, <3>1, <3>2 DEF History
  <2>3. /\ b.messages = v.messages /\ ~v.partial
        /\ FirstPage(r) => \A p \in ForHistory(r) : p \in Sure(ForHistory(r)) /\ ~p.broadcast
    BY <2>2 DEF Applied
  <2>4. PICK P : P = IF FirstPage(r) THEN H ELSE {}
    OBVIOUS
  <2>5. P \subseteq Posts /\ \A p \in P : p.channel = "here" /\ Fits(p, r)
    <3> SUFFICES ASSUME NEW p \in H, FirstPage(r) PROVE p \in Posts /\ p.channel = "here" /\ Fits(p, r)
      BY <2>4
    <3>1. p \in Sure(ForHistory(r))
      BY <2>0 DEF PageHead
    <3>2. p \in ForHistory(r) /\ InChannel(p) = "yes" /\ p \in Posts
      BY <3>1 DEF Sure, ForHistory
    <3>3. p.thread = NoTs
      BY <2>3, <3>2 DEF ForHistory
    <3>4. Inside(p.ts, r)
      BY <3>2 DEF ForHistory, Belongs, InWindow
    <3>5. p.channel = "here"
      BY <3>2, ChannelFacts
    <3> QED BY <3>2, <3>3, <3>4, <3>5 DEF Fits, Shape
  <2>6. FirstPage(r) => \A p \in Posts : p.channel = "here" /\ Fits(p, r) => p \in P
    <3> SUFFICES ASSUME FirstPage(r), NEW p \in Posts, p.channel = "here", Fits(p, r) PROVE p \in P
      OBVIOUS
    <3>1. InChannel(p) = "yes"
      BY ChannelFacts
    <3>2. p.thread = NoTs /\ Inside(p.ts, r)
      BY DEF Fits, Shape
    <3>3. p \in ForHistory(r)
      BY <3>1, <3>2 DEF ForHistory, Belongs, InWindow
    <3>4. p \in Sure(ForHistory(r))
      BY <2>3, <3>3
    <3>5. p.ts \notin Shown(a.messages)
      <4>1. \A i \in DOMAIN a.messages : \E x \in Others : a.messages[i].ts = x.ts
        BY <1>0, AnswerFacts
      <4>2. \A x \in Others : x.ts # p.ts
        BY WorldFacts
      <4> QED BY ONLY <4>1, <4>2 DEF Shown
    <3> QED BY <2>0, <2>4, <3>4, <3>5 DEF PageHead
  <2>7. /\ head \in Seq(Message) /\ \A i \in DOMAIN head : Genuine(head[i])
        /\ Exactly(head, Times0(P), r.thread)
    <3>1. CASE FirstPage(r)
      <4>1. PICK m : m = AsMessages(P)
        OBVIOUS
      <4>2. \A p \in P : p.ts # r.thread
        BY <2>5, WorldFacts DEF Shape
      <4>3. m \in Seq(Message) /\ Exactly(m, Times0(P), r.thread) /\ \A i \in DOMAIN m : Genuine(m[i])
        BY <2>5, <4>1, <4>2, LaidOver DEF LaidOn
      <4>4. head = Reverse(m)
        BY <2>0, <2>4, <3>1, <4>1
      <4>5. /\ head \in Seq(Message) /\ Exactly(head, Times0(P), r.thread)
            /\ \A i \in DOMAIN head : \E j \in DOMAIN m : head[i] = m[j]
        BY ONLY <4>3, <4>4, ReverseExactly
      <4> QED BY ONLY <4>3, <4>5
    <3>2. CASE ~FirstPage(r)
      <4>1. head = <<>> /\ P = {}
        BY <2>0, <2>4, <3>2
      <4> QED BY ONLY <4>1 DEF Exactly, Times0
    <3> QED BY <3>1, <3>2
  <2>8. /\ w \in Seq(Message) /\ \A i \in DOMAIN w : Genuine(w[i])
        /\ Exactly(w, Times0(PageSet(r, a)), r.thread)
        /\ PageSet(r, a) \subseteq Others
    <3>1. a.messages \in Seq(Message) /\ \A i \in DOMAIN a.messages : Genuine(a.messages[i])
      BY <1>0, AnswerFacts
    <3>2. /\ Exactly(a.messages, Times0(PageSet(r, a)), r.thread)
          /\ PageSet(r, a) \subseteq Others
      BY <1>0, AnswerPage
    <3> QED BY ONLY <2>0, <3>1, <3>2
  <2>9. /\ q \in Seq(Message) /\ \A i \in DOMAIN q : Genuine(q[i])
        /\ Exactly(q, Times0(PageSet(r, a) \cup P), r.thread)
    <3>1. \A x \in Times0(P) : x \notin Times0(PageSet(r, a))
      BY <2>5, <2>8, WorldFacts DEF Times0
    <3>3. q \in Seq(Message) /\ Exactly(q, Times0(P) \cup Times0(PageSet(r, a)), r.thread)
      <4>1. /\ head \in Seq(Message) /\ w \in Seq(Message) /\ q = head \o w
            /\ Exactly(head, Times0(P), r.thread) /\ Exactly(w, Times0(PageSet(r, a)), r.thread)
        BY ONLY <2>1, <2>7, <2>8
      <4> QED BY ONLY <3>1, <4>1, ExactlyJoined
    <3>4. Times0(P) \cup Times0(PageSet(r, a)) = Times0(PageSet(r, a) \cup P)
      BY DEF Times0
    <3>5. /\ \A i \in DOMAIN q : i \in DOMAIN head \/ \E j \in DOMAIN w : q[i] = w[j]
          /\ \A i \in DOMAIN head : q[i] = head[i]
      <4>1. q = head \o w /\ head \in Seq(Message) /\ w \in Seq(Message)
        BY ONLY <2>1, <2>7, <2>8
      <4>2. PICK n, m : n = Len(head) /\ m = Len(w)
        OBVIOUS
      <4>3. /\ DOMAIN head = 1..n /\ DOMAIN w = 1..m /\ DOMAIN q = 1..(n + m)
            /\ \A i \in 1..n : q[i] = head[i]
            /\ \A i \in 1..m : q[n + i] = w[i]
            /\ \A i \in DOMAIN q : i \in 1..n \/ \E j \in 1..m : i = n + j
        BY ONLY <4>1, <4>2, Concat
      <4> QED BY ONLY <4>3
    <3>6. \A i \in DOMAIN q : Genuine(q[i])
      BY ONLY <2>7, <2>8, <3>5
    <3> QED BY ONLY <3>3, <3>4, <3>6
  <2>10. PICK z : z = v.messages
    OBVIOUS
  <2>11. /\ z \in Seq(Message) /\ Exactly(z, Times0(PageSet(r, a) \cup P), r.thread)
         /\ \A i \in DOMAIN z : Counted(z[i])
    <3>1. ~Threads(q).partial /\ z = Threads(q).messages
      BY ONLY <2>1, <2>3, <2>10
    <3>2. PICK T : T = Times0(PageSet(r, a) \cup P)
      OBVIOUS
    <3>3. q \in Seq(Message) /\ (\A i \in DOMAIN q : Genuine(q[i])) /\ Exactly(q, T, r.thread)
      BY ONLY <2>9, <3>2
    <3>4. z \in Seq(Message) /\ Exactly(z, T, r.thread) /\ \A i \in DOMAIN z : Counted(z[i])
      BY ONLY <3>1, <3>3, FieldsHold, World, Bounds
    <3> QED BY ONLY <3>2, <3>4
  <2>12. PostsPage(r, a) = FirstPage(r)
    BY DEF PostsPage
  <2>13. ~FirstPage(r) => P = {}
    BY <2>4
  <2>14. Holds(z, r, a, P)
    BY ONLY <2>5, <2>6, <2>11, <2>12, <2>13, r.op = "history" DEF Holds
  <2> QED BY <2>3, <2>10, <2>14
<1> QED BY ONLY <1>1, <1>2

\* A page of a thread of Slack's that is not partial.
LEMMA RepliesPage ==
    ASSUME World, Bounds, NEW r, Shape(r), r.op = "replies", Real(r), NEW a, a = Answered(r),
           NEW b, b = Replies(r, a), ~b.partial
    PROVE  \E P : Holds(b.messages, r, a, P)
<1>0. r.thread \in Nat /\ r.thread # NoTs /\ \A p \in Posts : p.ts # r.thread
  <2>1. PICK y \in Others : y.ts = r.thread
    BY DEF Real
  <2> QED BY <2>1, WorldFacts
<1>a. Mine(r) = PostReplies(r.thread)
  BY <1>0 DEF Mine, PostReplies
<1>1. CASE Mine(r) = {}
  <2>1. b = Applied(a.messages, FALSE)
    BY <1>1 DEF Replies
  <2>2. b.messages = a.messages
    BY <2>1 DEF Applied
  <2>3. r.op # "history" /\ PostReplies(r.thread) = {}
    BY <1>1, <1>a
  <2>4. Holds(a.messages, r, a, {})
    BY <2>3, BarePage
  <2> QED BY <2>2, <2>4
<1>2. CASE Mine(r) # {}
  <2>0. PICK P, q, v : P = InTail(r) /\ q = a.messages /\ v = Threads(q)
    OBVIOUS
  <2>1. ~r.odd
    <3> SUFFICES ASSUME r.odd PROVE FALSE
      OBVIOUS
    <3>1. b = Applied(a.messages, TRUE)
      BY <1>2 DEF Replies
    <3> QED BY <3>1 DEF Applied
  <2>2. a.more => b = Applied(v.messages, v.partial)
    BY <1>2, <2>0, <2>1 DEF Replies
  <2>b. PICK all : all = v.messages \o AsMessages({p \in Sure(P) : p.ts \notin Shown(q)})
    OBVIOUS
  <2>3. ~a.more => b = Applied(all, v.partial \/ Sure(P) # P)
    BY <1>2, <2>0, <2>1, <2>b DEF Replies
  <2>c. ~b.partial /\ v.partial \in BOOLEAN
    BY <2>0 DEF Threads
  <2>d. ~a.more => b.messages = all /\ ~v.partial /\ Sure(P) = P
    <3> SUFFICES ASSUME ~a.more PROVE b.messages = all /\ ~v.partial /\ Sure(P) = P
      OBVIOUS
    <3>1. b.messages = all
      BY ONLY <2>3, ~a.more DEF Applied
    <3>2. CASE v.partial
      <4>1. b = Applied(all, TRUE)
        BY ONLY <2>3, <3>2, ~a.more
      <4> QED BY ONLY <2>c, <4>1 DEF Applied
    <3>3. CASE Sure(P) # P
      <4>1. b = Applied(all, TRUE)
        BY ONLY <2>3, <3>3, ~a.more
      <4> QED BY ONLY <2>c, <4>1 DEF Applied
    <3> QED BY ONLY <2>c, <3>1, <3>2, <3>3
  <2>4. ~v.partial
    BY ONLY <2>2, <2>c, <2>d DEF Applied
  <2>5. /\ q \in Seq(Message)
        /\ \A i \in DOMAIN q : /\ Genuine(q[i]) /\ \E x \in Others : q[i].ts = x.ts
                               /\ Replied(q[i], r.thread)
    <3>1. /\ a.messages \in Seq(Message)
          /\ \A i \in DOMAIN a.messages :
                /\ Genuine(a.messages[i])
                /\ \E x \in Others : a.messages[i].ts = x.ts
                /\ Replied(a.messages[i], r.thread)
      BY AnswerFacts
    <3> QED BY ONLY <2>0, <3>1
  <2>6. Exactly(q, Times0(PageSet(r, a)), r.thread) /\ PageSet(r, a) \subseteq Others
    <3>1. /\ Exactly(a.messages, Times0(PageSet(r, a)), r.thread)
          /\ PageSet(r, a) \subseteq Others
      BY AnswerPage
    <3> QED BY ONLY <2>0, <3>1
  <2>7. PICK u, T : u = v.messages /\ T = Times0(PageSet(r, a))
    OBVIOUS
  <2>8. /\ u \in Seq(Message) /\ Exactly(u, T, r.thread) /\ \A i \in DOMAIN u : Counted(u[i])
        /\ DOMAIN u = DOMAIN q
        /\ \A i \in DOMAIN q :
              u[i].ts = q[i].ts /\ u[i].count = q[i].count + Cardinality(PostReplies(q[i].ts))
    <3>1. ~Threads(q).partial /\ u = Threads(q).messages
      BY ONLY <2>0, <2>4, <2>7
    <3>2. q \in Seq(Message) /\ (\A i \in DOMAIN q : Genuine(q[i])) /\ Exactly(q, T, r.thread)
      BY ONLY <2>5, <2>6, <2>7
    <3>3. u \in Seq(Message) /\ Exactly(u, T, r.thread) /\ \A i \in DOMAIN u : Counted(u[i])
      BY ONLY <3>1, <3>2, FieldsHold, World, Bounds
    <3>4. /\ DOMAIN u = DOMAIN q
          /\ \A i \in DOMAIN q :
                u[i].ts = q[i].ts /\ u[i].count = q[i].count + Cardinality(PostReplies(q[i].ts))
      BY ONLY <3>1, <3>2, ThreadsCounted, World, Bounds
    <3> QED BY ONLY <3>3, <3>4
  <2>9. PostsPage(r, a) = ~a.more
    BY DEF PostsPage
  <2>10. CASE a.more
    <3>1. b.messages = u
      BY <2>2, <2>7, <2>10 DEF Applied
    <3>2. T = Times0(PageSet(r, a) \cup {})
      BY <2>7
    <3>3. Holds(u, r, a, {})
      BY ONLY <2>8, <2>9, <2>10, <3>2 DEF Holds
    <3> QED BY <3>1, <3>3
  <2>11. CASE ~a.more
    <3>1. PICK w, z : w = AsMessages(P) /\ z = u \o w
      OBVIOUS
    <3>2. /\ Sure(P) = P /\ P \subseteq Posts
          /\ \A p \in P : p.channel = "here" /\ Fits(p, r) /\ InChannel(p) # "no"
      <4>1. Sure(P) = P
        BY ONLY <2>d, <2>11
      <4> SUFFICES ASSUME NEW p \in P
                   PROVE  p \in Posts /\ p.channel = "here" /\ Fits(p, r) /\ InChannel(p) # "no"
        BY <4>1
      <4>2. InChannel(p) = "yes"
        BY <4>1 DEF Sure
      <4>3. p \in Mine(r) /\ p \in Posts /\ p.thread = r.thread
        BY <2>0 DEF InTail, Mine
      <4>4. Inside(p.ts, r)
        BY <2>0 DEF InTail, Belongs, InWindow
      <4>5. p.channel = "here"
        BY <4>2, <4>3, ChannelFacts
      <4> QED BY <4>2, <4>3, <4>4, <4>5 DEF Fits
    <3>3. \A p \in Posts : p.channel = "here" /\ Fits(p, r) => p \in P
      <4> SUFFICES ASSUME NEW p \in Posts, p.channel = "here", Fits(p, r) PROVE p \in P
        OBVIOUS
      <4>1. InChannel(p) = "yes"
        BY ChannelFacts
      <4> QED BY <1>0, <2>0, <4>1 DEF Fits, InTail, Mine, Belongs, InWindow
    <3>4. {p \in Sure(P) : p.ts \notin Shown(q)} = P
      <4>1. \A p \in Posts : \A i \in DOMAIN q : q[i].ts # p.ts
        BY <2>5, WorldFacts
      <4> QED BY ONLY <3>2, <4>1 DEF Shown
    <3>5. b.messages = z
      BY ONLY <2>7, <2>11, <2>b, <2>d, <3>1, <3>4
    <3>6. /\ w \in Seq(Message) /\ Exactly(w, Times0(P), r.thread)
          /\ \A i \in DOMAIN w : /\ Genuine(w[i])
                                 /\ \E p \in P : w[i].ts = p.ts /\ w[i].thread = p.thread
      <4>1. \A p \in P : p.ts # r.thread
        BY ONLY <1>0, <3>2
      <4>2. P \subseteq Posts /\ w = AsMessages(P)
        BY ONLY <3>1, <3>2
      <4>3. LaidOn(w, P, r.thread)
        BY ONLY <4>1, <4>2, LaidOver, World, Bounds
      <4> QED BY ONLY <4>3 DEF LaidOn
    <3>7. \A i \in DOMAIN w : Counted(w[i]) /\ w[i].ts # r.thread
      <4> SUFFICES ASSUME NEW i \in DOMAIN w PROVE Counted(w[i]) /\ w[i].ts # r.thread
        OBVIOUS
      <4>1. PICK p \in P : w[i].ts = p.ts /\ w[i].thread = p.thread
        BY ONLY <3>6, i \in DOMAIN w
      <4>2. p \in Posts /\ p.thread = r.thread
        BY <3>2, <4>1 DEF Fits
      <4>3. \A y \in Posts : y.thread # p.ts
        BY <1>0, <4>2, AnswersHang
      <4>4. PostReplies(w[i].ts) = {}
        BY <4>1, <4>3 DEF PostReplies
      <4>5. Genuine(w[i])
        BY ONLY <3>6, i \in DOMAIN w
      <4> QED BY <1>0, <4>1, <4>2, <4>4, <4>5, ReplyCounted
    <3>8. PICK n, m : n = Len(u) /\ m = Len(w)
      OBVIOUS
    <3>9. /\ DOMAIN u = 1..n /\ DOMAIN w = 1..m /\ DOMAIN z = 1..(n + m)
          /\ \A i \in 1..n : z[i] = u[i]
          /\ \A i \in 1..m : z[n + i] = w[i]
          /\ \A i \in DOMAIN z : i \in 1..n \/ \E j \in 1..m : i = n + j
      <4>1. u \in Seq(Message) /\ w \in Seq(Message) /\ z = u \o w
        BY ONLY <2>8, <3>1, <3>6
      <4> QED BY ONLY <3>8, <4>1, Concat
    <3>10. z \in Seq(Message) /\ Exactly(z, Times0(PageSet(r, a) \cup P), r.thread)
      <4>1. \A x \in T : x \notin Times0(P)
        BY <2>6, <2>7, <3>2, WorldFacts DEF Times0
      <4>2. u \in Seq(Message) /\ w \in Seq(Message) /\ z = u \o w
            /\ Exactly(u, T, r.thread) /\ Exactly(w, Times0(P), r.thread)
        BY ONLY <2>8, <3>1, <3>6
      <4>3. z \in Seq(Message) /\ Exactly(z, T \cup Times0(P), r.thread)
        BY ONLY <4>1, <4>2, ExactlyJoined
      <4>4. T \cup Times0(P) = Times0(PageSet(r, a) \cup P)
        BY ONLY <2>7 DEF Times0
      <4> QED BY ONLY <4>3, <4>4
    <3>11. \A i \in DOMAIN z : Counted(z[i])
      BY ONLY <2>8, <3>7, <3>9
    <3>12. \A i \in DOMAIN z : z[i].ts = r.thread =>
              z[i].count = Cardinality({x \in Others : x.thread = r.thread})
                           + Cardinality(PostReplies(r.thread))
      <4> SUFFICES ASSUME NEW i \in DOMAIN z, z[i].ts = r.thread
                   PROVE  z[i].count = Cardinality({x \in Others : x.thread = r.thread})
                                       + Cardinality(PostReplies(r.thread))
        OBVIOUS
      <4>1. i \in 1..n /\ z[i] = u[i]
        <5>1. CASE i \in 1..n
          BY ONLY <3>9, <5>1
        <5>2. CASE i \notin 1..n
          <6>1. PICK j \in 1..m : z[i] = w[j]
            BY ONLY <3>9, <5>2, i \in DOMAIN z
          <6> QED BY ONLY <3>7, <3>9, <6>1, z[i].ts = r.thread
        <5> QED BY ONLY <5>1, <5>2
      <4>2. i \in DOMAIN q /\ q[i].ts = r.thread /\ Replied(q[i], r.thread)
            /\ z[i].count = q[i].count + Cardinality(PostReplies(q[i].ts))
        BY ONLY <2>5, <2>8, <3>9, <4>1, z[i].ts = r.thread
      <4> QED BY ONLY <4>2 DEF Replied
    <3>13. r.oldest = NoTs /\ r.latest = NoTs => P = PostReplies(r.thread)
      <4> SUFFICES ASSUME r.oldest = NoTs, r.latest = NoTs PROVE P = Mine(r)
        BY <1>a
      <4>1. \A p \in Posts : Inside(p.ts, r)
        BY WorldFacts DEF Inside, NoTs
      <4> QED BY <2>0, <4>1 DEF InTail, Belongs, InWindow, Mine
    <3>14. Holds(z, r, a, P)
      BY ONLY <2>9, <2>11, <3>2, <3>3, <3>10, <3>11, <3>12, <3>13 DEF Holds
    <3> QED BY <3>5, <3>14
  <2> QED BY ONLY <2>10, <2>11
<1> QED BY ONLY <1>1, <1>2

\* Everything that is read of the thread of a post.
FakedThread(q, r, P) ==
    /\ q \in Seq(Message) /\ \A i \in DOMAIN q : Counted(q[i])
    /\ P \subseteq Posts /\ \A p \in P : p.channel = "here" /\ (Fits(p, r) \/ p.ts = r.thread)
    /\ \A p \in Posts : p.channel = "here" /\ Fits(p, r) => p \in P
    /\ Exactly(q, Times0(P), NoTs)
    /\ \A i \in DOMAIN q : q[i].ts = r.thread =>
          q[i].count = Cardinality({x \in P : x.thread = r.thread})

\* Slack has no thread under a post.
LEMMA NoThread ==
    ASSUME World, Bounds, NEW r, Shape(r), r.op = "replies", ~Real(r), NEW a, a = Answered(r)
    PROVE  ~a.more /\ ~a.ok /\ \A x \in Others : ~Fits(x, r)
<1>0. PICK top \in Posts : top.ts = r.thread /\ top.thread = NoTs
  BY DEF Shape, Real
<1>1. /\ r.thread # NoTs /\ \A x \in Others : x.ts # r.thread
      /\ \A x \in Others : x.thread # r.thread
      /\ \A p \in Posts : p.ts = r.thread => p = top
  BY <1>0, WorldFacts, AnswersHang
<1>2. \A x \in Others : ~Fits(x, r)
  BY <1>1 DEF Fits
<1>3. ~a.more
  <2>1. LeftSet(r) = {}
    BY <1>2 DEF LeftSet
  <2>2. PICK q, n : q = Cut(r) /\ n = Len(q)
    OBVIOUS
  <2>3. n \in Nat /\ (n < Len(Left(r)) => q[n] \in LeftSet(r))
    BY <2>2, CutEnum
  <2>4. a.more = (n < Len(Left(r)))
    BY <2>2 DEF Answered
  <2> QED BY ONLY <2>1, <2>3, <2>4
<1>4. ~a.ok
  <2>1. PICK places, T, u : /\ places = {i \in DOMAIN real : real[i].ts = r.thread}
                            /\ T = {real[i] : i \in {l \in DOMAIN real : l \in places}}
                            /\ u = Parents(r)
    OBVIOUS
  <2>2. real \in Seq(Written) /\ Differ(real) /\ u = Picked(real, places)
    BY <2>1, PostsApart DEF Parents
  <2>3. u \in Seq(Written) /\ Enum(u, T)
    BY ONLY <2>1, <2>2, PickedEnum
  <2>4. T = {}
    BY <1>1, <2>1 DEF Others, ToSet
  <2>5. u = <<>>
    <3>1. PICK n : n = Len(u)
      OBVIOUS
    <3>2. n \in Nat /\ DOMAIN u = 1..n /\ u = [i \in 1..n |-> u[i]]
      BY ONLY <2>3, <3>1
    <3>3. 1 \notin 1..n
      BY ONLY <2>3, <2>4, <3>2 DEF Enum
    <3> QED BY ONLY <3>2, <3>3
  <2> QED BY <2>1, <2>5 DEF Answered
<1> QED BY <1>2, <1>3, <1>4

\* There is one page of it, of irimi's own or of nothing.
LEMMA FakedPage ==
    ASSUME World, Bounds, NEW r, Shape(r), r.op = "replies", ~Real(r), NEW a, a = Answered(r),
           NEW b, b = ApplyRead(r, a), ~b.partial
    PROVE  \E P : FakedThread(b.messages, r, P)
<1>0. PICK top \in Posts : top.ts = r.thread /\ top.thread = NoTs
  BY DEF Shape, Real
<1>1. /\ r.thread # NoTs /\ \A x \in Others : x.ts # r.thread
      /\ \A x \in Others : x.thread # r.thread
      /\ \A p \in Posts : p.ts = r.thread => p = top
  BY <1>0, WorldFacts, AnswersHang
<1>4. ~a.ok
  BY NoThread
<1>5. CASE MayMintThread(r)
  <2>1. PICK T, R, q, v : /\ T = {p \in Posts : p.thread = NoTs /\ p.ts = r.thread}
                          /\ R = {p \in Posts : p.thread = r.thread}
                          /\ q = AsMessages(T) \o AsMessages(R) /\ v = Threads(q)
    OBVIOUS
  <2>2. b = v
    BY <1>4, <1>5, <2>1 DEF ApplyRead, MintedThread
  <2>3. /\ T = {top} /\ top.channel = "here"
        /\ R \subseteq Posts /\ \A p \in R : p.channel = "here" /\ InChannel(p) # "no"
    <3>1. T = {top}
      BY <1>0, <1>1, <2>1
    <3>2. PICK parent \in Sure(Posts) : parent.thread = NoTs /\ parent.ts = r.thread
      BY <1>5 DEF MayMintThread
    <3>3. parent \in Posts /\ InChannel(parent) = "yes"
      BY <3>2 DEF Sure
    <3>4. parent = top
      BY <1>1, <3>2, <3>3
    <3>5. top.channel = "here"
      BY <3>3, <3>4, ChannelFacts
    <3>6. R \subseteq Sure(Posts)
      BY <1>5, <2>1 DEF MayMintThread
    <3>7. \A p \in R : p \in Posts /\ InChannel(p) = "yes"
      BY <3>6 DEF Sure
    <3> QED BY <3>1, <3>5, <3>7, ChannelFacts
  <2>4. PICK P, s, t : P = T \cup R /\ s = AsMessages(T) /\ t = AsMessages(R)
    OBVIOUS
  <2>5. P \subseteq Posts /\ \A p \in P : p.channel = "here" /\ (p.thread = r.thread \/ p.ts = r.thread)
    BY <1>0, <2>1, <2>3, <2>4
  <2>6. \A p \in P : p.channel = "here" /\ (Fits(p, r) \/ p.ts = r.thread)
    <3>1. \A p \in Posts : Inside(p.ts, r)
      BY <1>5, WorldFacts DEF MayMintThread, Inside, NoTs
    <3> QED BY <2>5, <3>1 DEF Fits
  <2>7. \A p \in Posts : p.channel = "here" /\ Fits(p, r) => p \in P
    BY <2>1, <2>4 DEF Fits
  <2>8. \A p \in Posts : p.ts # NoTs
    BY WorldFacts
  <2>9. /\ s \in Seq(Message) /\ Exactly(s, Times0(T), NoTs)
        /\ \A i \in DOMAIN s : Genuine(s[i]) /\ s[i].count = 0
    <3>1. T \subseteq Posts /\ (\A p \in T : p.ts # NoTs) /\ s = AsMessages(T)
      BY <2>3, <2>4, <2>8
    <3>2. LaidOn(s, T, NoTs)
      BY ONLY <3>1, LaidOver, World, Bounds
    <3> QED BY ONLY <3>2 DEF LaidOn
  <2>10. /\ t \in Seq(Message) /\ Exactly(t, Times0(R), NoTs)
         /\ \A i \in DOMAIN t : Genuine(t[i]) /\ t[i].count = 0
    <3>1. R \subseteq Posts /\ (\A p \in R : p.ts # NoTs) /\ t = AsMessages(R)
      BY <2>3, <2>4, <2>8
    <3>2. LaidOn(t, R, NoTs)
      BY ONLY <3>1, LaidOver, World, Bounds
    <3> QED BY ONLY <3>2 DEF LaidOn
  <2>11. q \in Seq(Message) /\ Exactly(q, Times0(P), NoTs)
    <3>1. \A x \in Times0(T) : x \notin Times0(R)
      BY <1>0, <1>1, <2>1, <2>3 DEF Times0
    <3>2. q = s \o t
      BY <2>1, <2>4
    <3>3. q \in Seq(Message) /\ Exactly(q, Times0(T) \cup Times0(R), NoTs)
      BY ONLY <2>9, <2>10, <3>1, <3>2, ExactlyJoined
    <3>4. Times0(T) \cup Times0(R) = Times0(P)
      BY <2>4 DEF Times0
    <3> QED BY ONLY <3>3, <3>4
  <2>12. \A i \in DOMAIN q : Genuine(q[i]) /\ q[i].count = 0
    <3>1. PICK n, m : n = Len(s) /\ m = Len(t)
      OBVIOUS
    <3>2. s \in Seq(Message) /\ t \in Seq(Message) /\ q = s \o t
      BY <2>1, <2>4, <2>9, <2>10
    <3>3. /\ DOMAIN s = 1..n /\ DOMAIN t = 1..m
          /\ \A i \in 1..n : q[i] = s[i]
          /\ \A i \in 1..m : q[n + i] = t[i]
          /\ \A i \in DOMAIN q : i \in 1..n \/ \E j \in 1..m : i = n + j
      BY ONLY <3>1, <3>2, Concat
    <3> QED BY ONLY <2>9, <2>10, <3>3
  <2>13. PICK z : z = v.messages
    OBVIOUS
  <2>14. /\ z \in Seq(Message) /\ Exactly(z, Times0(P), NoTs) /\ DOMAIN z = DOMAIN q
         /\ \A i \in DOMAIN z : Counted(z[i])
         /\ \A i \in DOMAIN q : z[i].ts = q[i].ts
                                /\ z[i].count = q[i].count + Cardinality(PostReplies(q[i].ts))
    <3>1. ~Threads(q).partial /\ z = Threads(q).messages
      BY <2>1, <2>2, <2>13
    <3>2. PICK S : S = Times0(P)
      OBVIOUS
    <3>3. q \in Seq(Message) /\ (\A i \in DOMAIN q : Genuine(q[i])) /\ Exactly(q, S, NoTs)
      BY ONLY <2>11, <2>12, <3>2
    <3>4. z \in Seq(Message) /\ Exactly(z, S, NoTs) /\ \A i \in DOMAIN z : Counted(z[i])
      BY ONLY <3>1, <3>3, FieldsHold, World, Bounds
    <3>5. /\ DOMAIN z = DOMAIN q
          /\ \A i \in DOMAIN q :
                z[i].ts = q[i].ts /\ z[i].count = q[i].count + Cardinality(PostReplies(q[i].ts))
      BY ONLY <3>1, <3>3, ThreadsCounted, World, Bounds
    <3> QED BY ONLY <3>2, <3>4, <3>5
  <2>15. \A i \in DOMAIN z : z[i].ts = r.thread =>
            z[i].count = Cardinality({x \in P : x.thread = r.thread})
    <3> SUFFICES ASSUME NEW i \in DOMAIN z, z[i].ts = r.thread
                 PROVE  z[i].count = Cardinality({x \in P : x.thread = r.thread})
      OBVIOUS
    <3>1. PICK S : S = {x \in P : x.thread = r.thread}
      OBVIOUS
    <3>2. S = R /\ PostReplies(r.thread) = R
      BY <1>0, <1>1, <2>1, <2>3, <2>4, <3>1 DEF PostReplies
    <3>3. Cardinality(R) \in Nat
      BY <2>3, WorldFacts, FS_Subset, FS_CardinalityType
    <3>4. z[i].count = 0 + Cardinality(R)
      BY ONLY <2>12, <2>14, <3>2, i \in DOMAIN z, z[i].ts = r.thread
    <3>5. z[i].count = Cardinality(S)
      BY ONLY <3>2, <3>3, <3>4
    <3> QED BY ONLY <3>1, <3>5
  <2>16. FakedThread(z, r, P)
    BY ONLY <2>5, <2>6, <2>7, <2>14, <2>15 DEF FakedThread
  <2> QED BY <2>2, <2>13, <2>16
<1>6. CASE ~MayMintThread(r)
  <2>1. b = Applied(<<>>, \E p \in Posts : WouldApply(r, p))
    BY <1>4, <1>6 DEF ApplyRead
  <2>2. b.messages = <<>> /\ \A p \in Posts : ~WouldApply(r, p)
    BY <2>1 DEF Applied
  <2>3. \A p \in Posts : ~(p.channel = "here" /\ Fits(p, r))
    <3> SUFFICES ASSUME NEW p \in Posts, p.channel = "here", Fits(p, r) PROVE FALSE
      OBVIOUS
    <3>1. InChannel(p) = "yes" /\ p.thread = r.thread
      BY ChannelFacts DEF Fits
    <3> QED BY <2>2, <3>1 DEF WouldApply
  <2>4. <<>> \in Seq(Message) /\ DOMAIN <<>> = {}
    OBVIOUS
  <2>5. Exactly(<<>>, Times0({}), NoTs)
    BY ONLY <2>4 DEF Exactly, Times0
  <2>6. FakedThread(<<>>, r, {})
    BY ONLY <2>3, <2>4, <2>5 DEF FakedThread
  <2> QED BY <2>2, <2>6
<1> QED BY ONLY <1>5, <1>6

-----------------------------------------------------------------------------
(* What the steps do to the messages there are. *)

\* One more at the end of a sequence.
LEMMA OneMore ==
    ASSUME NEW S, NEW q \in Seq(S), NEW e \in S, NEW v, v = Append(q, e), NEW n, n = Len(q)
    PROVE  /\ v \in Seq(S) /\ n \in Nat /\ Len(v) = n + 1
           /\ DOMAIN q = 1..n /\ DOMAIN v = 1..(n + 1)
           /\ \A i \in 1..n : v[i] = q[i]
           /\ v[n + 1] = e
OBVIOUS

\* The elements of the longer one.
LEMMA OneMoreIn ==
    ASSUME NEW S, NEW q \in Seq(S), NEW e \in S, NEW v, v = Append(q, e)
    PROVE  ToSet(v) = ToSet(q) \cup {e}
<1>1. PICK n : n = Len(q)
  OBVIOUS
<1>2. /\ n \in Nat /\ DOMAIN q = 1..n /\ DOMAIN v = 1..(n + 1)
      /\ (\A i \in 1..n : v[i] = q[i]) /\ v[n + 1] = e
  BY <1>1, OneMore
<1>3. \A i \in 1..(n + 1) : i \in 1..n \/ i = n + 1
  BY ONLY <1>2
<1>4. n + 1 \in 1..(n + 1) /\ \A i \in 1..n : i \in 1..(n + 1)
  BY ONLY <1>2
<1>5. \A x : x \in ToSet(v) <=> x \in ToSet(q) \cup {e}
  BY ONLY <1>2, <1>3, <1>4 DEF ToSet
<1> QED BY ONLY <1>5

\* What it begins with is what the shorter one did.
LEMMA OneMoreFirst ==
    ASSUME NEW S, NEW q \in Seq(S), NEW e \in S, NEW v, v = Append(q, e), NEW n \in 0..Len(q)
    PROVE  SubSeq(v, 1, n) = SubSeq(q, 1, n)
<1>1. PICK m : m = Len(q)
  OBVIOUS
<1>2. /\ m \in Nat /\ DOMAIN q = 1..m /\ DOMAIN v = 1..(m + 1) /\ v \in Seq(S)
      /\ \A i \in 1..m : v[i] = q[i]
  BY <1>1, OneMore
<1>3. n \in Nat /\ \A i \in 1..n : i \in 1..m
  BY ONLY <1>1, <1>2, n \in 0..Len(q)
<1>4. SubSeq(v, 1, n) = [i \in 1..n |-> v[i]] /\ SubSeq(q, 1, n) = [i \in 1..n |-> q[i]]
  BY <1>1, <1>2, <1>3
<1> QED BY ONLY <1>2, <1>3, <1>4

\* What others write comes after all there is, and hangs from theirs.
LEMMA RealGrows ==
    ASSUME World, NEW ts \in RealTimes, NEW thread \in {NoTs} \cup Tops, RealMessage(ts, thread),
           NEW m, m = [ts |-> ts, thread |-> thread]
    PROVE  /\ ThreadsHang'
           /\ real' = Append(real, m) /\ m \in Written
           /\ posts' = posts /\ read' = read
           /\ \A x \in Others : x.ts < m.ts
<1>1. /\ real' = Append(real, m) /\ posts' = posts /\ read' = read
      /\ ts > MaxOf(Shown(real)) /\ ts \notin Shown(posts)
      /\ thread # NoTs => \E x \in ToSet(real) : x.ts = thread /\ x.thread = NoTs
  BY DEF RealMessage
<1>2. real \in Seq(Written) /\ m \in Written /\ ts \in Nat /\ ts # NoTs
  <2>1. ts \in Nat /\ ts # 0
    BY SlackAssumption
  <2>2. thread \in Nat
    BY TopsAreNat DEF World, ChannelInv, NoTs
  <2> QED BY <2>1, <2>2 DEF World, ChannelInv, ChannelTyped, Written, NoTs
<1>3. PICK n : n = Len(real)
  OBVIOUS
<1>4. /\ n \in Nat /\ DOMAIN real = 1..n /\ DOMAIN real' = 1..(n + 1)
      /\ \A i \in 1..n : real'[i] = real[i]
      /\ real'[n + 1] = m
      /\ ToSet(real') = ToSet(real) \cup {m}
  <2>1. PICK q, v : q = real /\ v = real'
    OBVIOUS
  <2>2. q \in Seq(Written) /\ m \in Written /\ v = Append(q, m) /\ n = Len(q)
    BY ONLY <1>1, <1>2, <1>3, <2>1
  <2>3. /\ n \in Nat /\ DOMAIN q = 1..n /\ DOMAIN v = 1..(n + 1)
        /\ \A i \in 1..n : v[i] = q[i]
        /\ v[n + 1] = m
    BY ONLY <2>2, OneMore
  <2>4. ToSet(v) = ToSet(q) \cup {m}
    BY ONLY <2>2, OneMoreIn DEF ToSet
  <2> QED BY ONLY <2>1, <2>3, <2>4
<1>5. \A i \in 1..n : real[i].ts \in Nat /\ real[i].ts < ts
  <2>1. \A i \in 1..n : real[i].ts \in Nat
    BY <1>4, WorldFacts DEF Others, ToSet
  <2>2. PICK f, S : f = [i \in 1..n |-> real[i].ts] /\ S = {0} \cup {f[i] : i \in 1..n}
    OBVIOUS
  <2>3. f \in [1..n -> Nat]
    BY ONLY <2>1, <2>2
  <2>4. MaxOf(S) \in Nat /\ \A x \in S : x <= MaxOf(S)
    <3>1. n \in Nat /\ 0 \in Nat
      BY ONLY <1>4
    <3> QED BY ONLY <2>2, <2>3, <3>1, MaxOfFacts
  <2>5. Shown(real) \cup {NoTs} = S \cup {NoTs}
    BY ONLY <1>4, <2>2 DEF Shown, NoTs
  <2>6. MaxOf(Shown(real)) = MaxOf(S)
    BY ONLY <2>5 DEF MaxOf
  <2>7. \A i \in 1..n : real[i].ts \in S
    BY ONLY <2>2
  <2> QED BY ONLY <1>1, <1>2, <2>1, <2>4, <2>6, <2>7
<1>6. Others' = Others \cup {m} /\ Posts' = Posts
  BY <1>1, <1>4 DEF Others, Posts
<1>7. \A i \in DOMAIN real' : real'[i].ts # NoTs
  <2>a. DOMAIN real' = 1..(n + 1)
    BY ONLY <1>4
  <2> SUFFICES ASSUME NEW i \in 1..(n + 1) PROVE real'[i].ts # NoTs
    BY <2>a
  <2>1. \A j \in 1..n : real[j].ts # NoTs
    BY <1>4 DEF World, ThreadsHang
  <2>2. i \in 1..n \/ i = n + 1
    BY ONLY <1>4, i \in 1..(n + 1)
  <2> QED BY <1>2, <1>4, <2>1, <2>2
<1>8. \A i, j \in DOMAIN real' : i < j => real'[i].ts < real'[j].ts
  <2>a. DOMAIN real' = 1..(n + 1)
    BY ONLY <1>4
  <2> SUFFICES ASSUME NEW i \in 1..(n + 1), NEW j \in 1..(n + 1), i < j
               PROVE  real'[i].ts < real'[j].ts
    BY <2>a
  <2>1. \A k, l \in 1..n : k < l => real[k].ts < real[l].ts
    BY <1>4 DEF World, ThreadsHang
  <2>2. i \in 1..n /\ (j \in 1..n \/ j = n + 1)
    BY ONLY <1>4, i \in 1..(n + 1), j \in 1..(n + 1), i < j
  <2>3. m.ts = ts
    OBVIOUS
  <2> QED BY ONLY <1>4, <1>5, <2>1, <2>2, <2>3, i < j
<1>9. \A x \in Others' : x.thread # NoTs => \E y \in Others' : y.ts = x.thread /\ y.thread = NoTs
  <2>1. \A x \in Others : x.thread # NoTs => \E y \in Others : y.ts = x.thread /\ y.thread = NoTs
    BY DEF World, ThreadsHang
  <2>2. m.thread = thread
    OBVIOUS
  <2>3. thread # NoTs => \E x \in Others : x.ts = thread /\ x.thread = NoTs
    BY ONLY <1>1 DEF Others
  <2> QED BY ONLY <1>6, <2>1, <2>2, <2>3
<1>10. \A p \in Posts' :
          /\ p.ts # NoTs
          /\ \A x \in Others' : x.ts # p.ts
          /\ p.thread # NoTs => \E y \in Others' \cup Posts' : y.ts = p.thread /\ y.thread = NoTs
          /\ p.broadcast => p.thread # NoTs
  <2>1. \A p \in Posts :
          /\ p.ts # NoTs
          /\ \A x \in Others : x.ts # p.ts
          /\ p.thread # NoTs => \E y \in Others \cup Posts : y.ts = p.thread /\ y.thread = NoTs
          /\ p.broadcast => p.thread # NoTs
    BY DEF World, ThreadsHang
  <2>2. m.ts = ts
    OBVIOUS
  <2>3. \A p \in Posts : p.ts # ts
    BY ONLY <1>1 DEF Posts, Shown, ToSet
  <2> QED BY ONLY <1>6, <2>1, <2>2, <2>3
<1>11. \A x \in Others : x.ts < m.ts
  BY <1>4, <1>5 DEF Others, ToSet
<1>12. ThreadsHang'
  BY ONLY <1>7, <1>8, <1>9, <1>10 DEF ThreadsHang
<1> QED BY ONLY <1>1, <1>2, <1>11, <1>12

\* So does a post.
LEMMA PostGrows ==
    ASSUME World, NEW channel \in {"here", "there", "name"}, NEW thread \in {NoTs} \cup Tops,
           NEW broadcast \in BOOLEAN, Post(channel, thread, broadcast),
           NEW p, p = [ts |-> Mint, channel |-> channel, thread |-> thread,
                       broadcast |-> broadcast, whole |-> fixture, after |-> newest]
    PROVE  /\ ThreadsHang'
           /\ posts' = Append(posts, p) /\ p \in Posted
           /\ real' = real /\ read' = read
<1>1. /\ posts' = Append(posts, p) /\ real' = real /\ read' = read
      /\ broadcast => thread # NoTs
      /\ Mint \notin Shown(real)
  BY DEF Post
<1>0. ChannelTyped /\ ChannelInv
  BY DEF World, ChannelInv
<1>2. Mint \in Nat /\ Mint > last /\ last \in Nat
  BY <1>0, MintAhead DEF ChannelTyped
<1>3. p \in Posted
  <2> PICK t : t = Mint
    OBVIOUS
  <2> PICK w, a : w = fixture /\ a = newest
    OBVIOUS
  <2>1. p = [ts |-> t, channel |-> channel, thread |-> thread,
             broadcast |-> broadcast, whole |-> w, after |-> a]
    OBVIOUS
  <2>2. t \in Nat /\ w \in BOOLEAN /\ a \in Nat /\ thread \in Nat
    BY <1>0, <1>2, TopsAreNat DEF ChannelTyped, NoTs
  <2> QED BY ONLY <2>1, <2>2, channel \in {"here", "there", "name"}, broadcast \in BOOLEAN,
            Zenon DEF Posted
<1>4. p.ts = Mint /\ p.thread = thread /\ p.broadcast = broadcast
  OBVIOUS
<1>5. Others' = Others /\ Posts' = Posts \cup {p}
  <2>1. posts \in Seq(Posted)
    BY <1>0 DEF ChannelTyped
  <2>2. ToSet(posts') = ToSet(posts) \cup {p}
    <3>1. PICK q, v : q = posts /\ v = posts'
      OBVIOUS
    <3>2. q \in Seq(Posted) /\ p \in Posted /\ v = Append(q, p)
      BY ONLY <1>1, <1>3, <2>1, <3>1
    <3>3. ToSet(v) = ToSet(q) \cup {p}
      BY ONLY <3>2, OneMoreIn DEF ToSet
    <3> QED BY ONLY <3>1, <3>3
  <2> QED BY ONLY <1>1, <2>2 DEF Others, Posts
<1>6. p.ts # NoTs /\ \A x \in Others : x.ts # p.ts
  <2>1. Mint # 0
    BY ONLY <1>2
  <2> QED BY ONLY <1>1, <1>4, <2>1 DEF Others, ToSet, Shown, NoTs
<1>7. p.thread # NoTs => \E y \in Others \cup Posts : y.ts = p.thread /\ y.thread = NoTs
  BY <1>4 DEF Tops, Others
<1>8. \A x \in Posts :
          /\ x.ts # NoTs
          /\ \A y \in Others : y.ts # x.ts
          /\ x.thread # NoTs => \E y \in Others \cup Posts : y.ts = x.thread /\ y.thread = NoTs
          /\ x.broadcast => x.thread # NoTs
  BY DEF World, ThreadsHang
<1>9. \A x \in Posts' :
          /\ x.ts # NoTs
          /\ \A y \in Others' : y.ts # x.ts
          /\ x.thread # NoTs => \E y \in Others' \cup Posts' : y.ts = x.thread /\ y.thread = NoTs
          /\ x.broadcast => x.thread # NoTs
  BY ONLY <1>1, <1>4, <1>5, <1>6, <1>7, <1>8
<1>10. /\ \A i \in DOMAIN real' : real'[i].ts # NoTs
       /\ \A i, j \in DOMAIN real' : i < j => real'[i].ts < real'[j].ts
       /\ \A x \in Others' : x.thread # NoTs => \E y \in Others' : y.ts = x.thread /\ y.thread = NoTs
  BY <1>1, <1>5 DEF World, ThreadsHang
<1>11. ThreadsHang'
  BY ONLY <1>9, <1>10 DEF ThreadsHang
<1> QED BY ONLY <1>1, <1>3, <1>11

-----------------------------------------------------------------------------
(* What the pages of a read hold. *)

\* Of a read that goes on: N of Slack's messages and P of the posts, so far.
SoFar(q, r, N, P) ==
    /\ Real(r) /\ \E y \in Others : y.ts = r.cursor
    /\ N \subseteq Others /\ P \subseteq Posts /\ (r.op = "replies" => P = {})
    /\ \A x \in N : Fits(x, r) /\ Behind(x.ts, r.op, r.cursor)
    /\ \A p \in P : p.channel = "here" /\ Fits(p, r)
    /\ \A x \in Others :
          Fits(x, r) /\ Behind(x.ts, r.op, r.cursor) /\ (r.op = "replies" \/ x \in RealFirst) => x \in N
    /\ r.op = "history" => \A p \in PostsFirst : p.channel = "here" /\ Fits(p, r) => p \in P
    /\ Exactly(q, Times0(N \cup P), r.thread)

\* Of a read that has ended; each page of a thread of Slack's begins with the message t.
AllRead(q, final, r, N, P, t) ==
    /\ N \subseteq Others /\ P \subseteq Posts
    /\ t = NoTs \/ (t = r.thread /\ \E y \in Others : y.ts = t)
    /\ \A x \in N : Fits(x, r)
    /\ \A p \in P : p.channel = "here" /\ (Fits(p, r) \/ p.ts = r.thread)
    /\ \A x \in RealFirst : Fits(x, r) => x \in N
    /\ \A p \in PostsFirst : p.channel = "here" /\ Fits(p, r) => p \in P
    /\ Exactly(q, Times0(N \cup P), t)
    /\ r.op = "replies" /\ r.oldest = NoTs /\ r.latest = NoTs =>
          \A i \in DOMAIN final : final[i].ts = r.thread =>
              final[i].count = Cardinality({x \in N \cup P : x.thread = r.thread})

\* What the pages of a read that is not partial hold, while it is open and when it has ended.
Progress ==
    /\ read.pages \in Seq(Seq(Message))
    /\ \A i \in DOMAIN AllShown : Counted(AllShown[i])
    /\ read.open => \/ read.pages = <<>> /\ read.r.cursor = NoTs
                    \/ \E N, P : SoFar(AllShown, read.r, N, P)
    /\ ~read.open => \E N, P, t : AllRead(AllShown, Last(read.pages), read.r, N, P, t)

\* What a read may post.
Asked ==
    [op : {"none", "history", "replies"}, thread : Nat, oldest : Nat, latest : Nat,
     inclusive : BOOLEAN, limited : BOOLEAN, odd : BOOLEAN, cursor : Nat]

\* The read has its fields.
ReadTyped ==
    /\ DOMAIN read = {"r", "open", "pages", "partial", "hadReal", "hadPosts"}
    /\ read.r \in Asked /\ read.open \in BOOLEAN /\ read.partial \in BOOLEAN

\* The inductive invariant.
ReadInv ==
    /\ World /\ ReadTyped /\ Bounds
    /\ read # Idle => Shape(read.r) /\ (~read.partial => Progress)

\* Each id that is wanted is at one place.
LEMMA OnePlace ==
    ASSUME NEW q, NEW S, NEW t, Exactly(q, S, t), NEW s, s # t
    PROVE  /\ s \in S => Cardinality({i \in DOMAIN q : q[i].ts = s}) = 1
           /\ s \notin S => Cardinality({i \in DOMAIN q : q[i].ts = s}) = 0
<1>1. PICK I : I = {i \in DOMAIN q : q[i].ts = s}
  OBVIOUS
<1>2. ASSUME s \in S PROVE Cardinality(I) = 1
  <2>1. PICK i \in DOMAIN q : q[i].ts = s /\ \A j \in DOMAIN q : q[j].ts = s => j = i
    BY <1>2 DEF Exactly
  <2>2. I = {i}
    BY ONLY <1>1, <2>1
  <2> QED BY <2>2, FS_Singleton
<1>3. ASSUME s \notin S PROVE Cardinality(I) = 0
  <2>1. I = {}
    BY <1>1, <1>3 DEF Exactly
  <2> QED BY <2>1, FS_EmptySet
<1> QED BY ONLY <1>1, <1>2, <1>3

\* The replies an agent has seen are those that were read.
LEMMA SeenAll ==
    ASSUME World, NEW q, \A i \in DOMAIN q : Counted(q[i]), NEW r, r.thread # NoTs,
           NEW final, NEW N, NEW P, NEW t, AllRead(q, final, r, N, P, t)
    PROVE  Cardinality({q[i].ts : i \in {k \in DOMAIN q : q[k].thread = r.thread}})
           = Cardinality({x \in N \cup P : x.thread = r.thread})
<1>1. PICK T, I, R : /\ T = {x \in N \cup P : x.thread = r.thread}
                     /\ I = {q[i].ts : i \in {k \in DOMAIN q : q[k].thread = r.thread}}
                     /\ R = {x.ts : x \in T}
  OBVIOUS
<1>2. T \subseteq Others \cup Posts /\ N \subseteq Others /\ P \subseteq Posts
  BY <1>1 DEF AllRead
<1>3. \A x, y \in Others \cup Posts : x.ts = y.ts => x = y
  BY WorldFacts
<1>4. Exactly(q, Times0(N \cup P), t)
  BY DEF AllRead
<1>5. ASSUME NEW s \in I PROVE s \in R
  <2>1. PICK i \in DOMAIN q : q[i].ts = s /\ q[i].thread = r.thread
    BY <1>1
  <2>2. PICK x \in Others \cup Posts : q[i].ts = x.ts /\ q[i].thread = x.thread
    BY DEF Counted, Genuine
  <2>3. s # t
    <3>1. CASE t = NoTs
      BY <2>1, <2>2, <3>1, WorldFacts
    <3>2. CASE t = r.thread
      <4>1. x.thread # NoTs /\ x.thread # x.ts
        BY <2>1, <2>2, AnswersHang
      <4> QED BY <2>1, <2>2, <3>2, <4>1
    <3> QED BY <3>1, <3>2 DEF AllRead
  <2>4. PICK y \in N \cup P : y.ts = s
    BY <1>4, <2>1, <2>3 DEF Exactly, Times0
  <2>5. y = x
    BY <1>2, <1>3, <2>1, <2>2, <2>4
  <2> QED BY <1>1, <2>1, <2>2, <2>4, <2>5
<1>6. ASSUME NEW s \in R PROVE s \in I
  <2>1. PICK x \in N \cup P : x.ts = s /\ x.thread = r.thread
    BY <1>1
  <2>2. PICK i \in DOMAIN q : q[i].ts = s
    BY <1>4, <2>1 DEF Exactly, Times0
  <2>3. PICK y \in Others \cup Posts : q[i].ts = y.ts /\ q[i].thread = y.thread
    BY DEF Counted, Genuine
  <2>4. y = x
    BY <1>2, <1>3, <2>1, <2>2, <2>3
  <2> QED BY <1>1, <2>1, <2>2, <2>3, <2>4
<1>7. I = R
  BY ONLY <1>5, <1>6
<1>8. IsFiniteSet(T)
  <2>1. IsFiniteSet(Others \cup Posts)
    BY WorldFacts, FS_Union
  <2> QED BY <1>2, <2>1, FS_Subset
<1>9. Cardinality(R) = Cardinality(T)
  <2>1. \A x, y \in T : x.ts = y.ts => x = y
    BY <1>2, <1>3
  <2> QED BY <1>1, <1>8, <2>1, TimesCounted
<1> QED BY ONLY <1>1, <1>7, <1>9

\* A read whose pages hold what they should adds up.
LEMMA AddsUp == ReadInv => ReadsAddUp
<1> SUFFICES ASSUME ReadInv PROVE ReadsAddUp
  OBVIOUS
<1>1. World /\ Bounds
  BY DEF ReadInv
<1>2. CASE read = Idle
  <2>1. AllShown = <<>>
    BY <1>2, FlattenSeqs DEF AllShown, Idle
  <2>2. ToSet(AllShown) = {}
    BY <2>1 DEF ToSet
  <2>3. ~Ended
    BY <1>2 DEF Ended
  <2> QED BY ONLY <2>2, <2>3 DEF ReadsAddUp, PagesHoldEverythingOnce, ThreadCountsAgree
<1>3. CASE read.partial
  BY ONLY <1>3 DEF ReadsAddUp, PagesHoldEverythingOnce, ThreadCountsAgree
<1>4. CASE read # Idle /\ ~read.partial
  <2>1. Shape(read.r) /\ Progress
    BY <1>4 DEF ReadInv
  <2>2. PICK q, r, final : q = AllShown /\ r = read.r /\ final = Last(read.pages)
    OBVIOUS
  <2>3. Shape(r) /\ \A i \in DOMAIN q : Counted(q[i])
    BY <2>1, <2>2 DEF Progress
  <2>4. \A m \in ToSet(AllShown) :
            m.count >= Cardinality({x \in RealFirst : x.thread = m.ts})
                       + Cardinality({p \in PostsFirst : p.thread = m.ts /\ p.channel = "here"})
    <3> SUFFICES ASSUME NEW i \in DOMAIN q
                 PROVE  q[i].count >= Cardinality({x \in RealFirst : x.thread = q[i].ts})
                          + Cardinality({p \in PostsFirst : p.thread = q[i].ts /\ p.channel = "here"})
      BY <2>2 DEF ToSet
    <3>1. Counted(q[i])
      BY <2>3
    <3> QED BY <3>1 DEF Counted, FirstReplies
  <2>5. CASE read.open
    <3>1. ~Ended
      BY <2>5 DEF Ended
    <3> QED BY ONLY <2>4, <3>1 DEF ReadsAddUp, PagesHoldEverythingOnce, ThreadCountsAgree
  <2>6. CASE ~read.open
    <3>1. PICK N, P, t : AllRead(q, final, r, N, P, t)
      BY <2>1, <2>2, <2>6 DEF Progress
    <3>2. PICK S : S = Times0(N \cup P)
      OBVIOUS
    <3>3. Exactly(q, S, t)
      BY <3>1, <3>2 DEF AllRead
    <3>4. \A m : Wanted(m) <=> Fits(m, r)
      BY <2>2, <2>3 DEF Wanted, Fits, Shape
    <3>5. \A s : s # t => (s \in S => Times(s) = 1) /\ (s \notin S => Times(s) = 0)
      <4> SUFFICES ASSUME NEW s, s # t
                   PROVE  (s \in S => Times(s) = 1) /\ (s \notin S => Times(s) = 0)
        OBVIOUS
      <4>1. PICK I : I = {i \in DOMAIN q : q[i].ts = s}
        OBVIOUS
      <4>2. (s \in S => Cardinality(I) = 1) /\ (s \notin S => Cardinality(I) = 0)
        BY <3>3, <4>1, OnePlace
      <4>3. Times(s) = Cardinality(I)
        BY <2>2, <4>1 DEF Times
      <4> QED BY ONLY <4>2, <4>3
    <3>6. \A x \in N \cup P : x.ts \in S
      BY <3>2 DEF Times0
    <3>7. t \notin S
      BY <3>3 DEF Exactly
    <3>8. \A x \in N \cup P : Times(x.ts) = 1
      BY ONLY <3>5, <3>6, <3>7
    <3>9. \A p \in Posts : p.ts # t
      BY <1>1, <3>1, WorldFacts DEF AllRead
    <3>10. ASSUME NEW p \in Posts, Times(p.ts) > 0 PROVE p \in P
      <4>1. p.ts \in S
        BY ONLY <3>5, <3>9, <3>10, p \in Posts
      <4>2. PICK x \in N \cup P : x.ts = p.ts
        BY <3>2, <4>1 DEF Times0
      <4>3. N \subseteq Others /\ P \subseteq Posts
        BY <3>1 DEF AllRead
      <4> QED BY <1>1, <4>2, <4>3, WorldFacts
    <3>11. /\ \A x \in RealFirst : Fits(x, r) => x \in N
           /\ \A p \in PostsFirst : p.channel = "here" /\ Fits(p, r) => p \in P
           /\ \A p \in P : p.channel = "here" /\ (Fits(p, r) \/ p.ts = r.thread)
      BY <3>1 DEF AllRead
    <3>12. PagesHoldEverythingOnce
      BY ONLY <2>2, <3>4, <3>8, <3>10, <3>11 DEF PagesHoldEverythingOnce
    <3>13. ASSUME r.op = "replies", r.oldest = NoTs, r.latest = NoTs,
                  NEW m \in ToSet(final), m.ts = r.thread
           PROVE  m.count = Cardinality(RepliesSeen)
      <4>1. PICK T, I : /\ T = {x \in N \cup P : x.thread = r.thread}
                        /\ I = {q[i].ts : i \in {k \in DOMAIN q : q[k].thread = r.thread}}
        OBVIOUS
      <4>2. m.count = Cardinality(T)
        BY <3>1, <3>13, <4>1 DEF AllRead, ToSet
      <4>3. r.thread # NoTs
        BY <1>1, <2>3, <3>13, WorldFacts DEF Shape
      <4>4. Cardinality(I) = Cardinality(T)
        BY <1>1, <2>3, <3>1, <4>1, <4>3, SeenAll
      <4>5. RepliesSeen = I
        BY <2>2, <4>1 DEF RepliesSeen, ToSet
      <4> QED BY ONLY <4>2, <4>4, <4>5
    <3>14. ThreadCountsAgree
      <4>1. read.r.op = "replies" /\ read.r.oldest = NoTs /\ read.r.latest = NoTs =>
               \A m \in ToSet(Last(read.pages)) :
                   m.ts = read.r.thread => m.count = Cardinality(RepliesSeen)
        BY ONLY <2>2, <3>13
      <4> QED BY ONLY <2>4, <4>1 DEF ThreadCountsAgree
    <3> QED BY ONLY <3>12, <3>14 DEF ReadsAddUp
  <2> QED BY ONLY <2>5, <2>6
<1> QED BY ONLY <1>2, <1>3, <1>4

-----------------------------------------------------------------------------
(* What is written while an agent reads takes nothing from what it has read. *)

\* What there was when the read began is what there was.
FirstStay == RealFirst' = RealFirst /\ PostsFirst' = PostsFirst

\* There is more, and what is new from others comes after all of theirs.
Grows ==
    /\ Others \subseteq Others' /\ Posts \subseteq Posts'
    /\ \A x \in Others' : x.ts \in Nat /\ (x \notin Others => \A y \in Others : y.ts < x.ts)

\* A message that counts its replies does so still when more is written.
LEMMA CountedKeeps ==
    ASSUME FirstStay, Others \subseteq Others', Posts \subseteq Posts', NEW m, Counted(m)
    PROVE  Counted(m)'
<1>1. PICK F, P : F = RealFirst /\ P = PostsFirst
  OBVIOUS
<1>2. F = RealFirst' /\ P = PostsFirst'
  BY <1>1 DEF FirstStay
<1>3. PICK c, d : /\ c = Cardinality({x \in F : x.thread = m.ts})
                  /\ d = Cardinality({p \in P : p.thread = m.ts /\ p.channel = "here"})
  OBVIOUS
<1>4. /\ m \in Message /\ \E x \in Others \cup Posts : m.ts = x.ts /\ m.thread = x.thread
      /\ m.count >= c /\ m.count >= c + d
  BY <1>1, <1>3 DEF Counted, Genuine, FirstReplies
<1>5. \E x \in Others' \cup Posts' : m.ts = x.ts /\ m.thread = x.thread
  BY <1>4
<1> QED BY ONLY <1>2, <1>3, <1>4, <1>5 DEF Counted, Genuine, FirstReplies

\* A read stays one that may be asked for.
LEMMA ShapeKeeps ==
    ASSUME Others \subseteq Others', Posts \subseteq Posts', NEW r, Shape(r)
    PROVE  Shape(r)'
BY DEF Shape

\* What is new comes after what has been read of a thread, and is not owed by history.
LEMMA SoFarKeeps ==
    ASSUME World, Bounds, FirstStay, Grows,
           NEW r, Shape(r), NEW q, NEW N, NEW P, SoFar(q, r, N, P)
    PROVE  SoFar(q, r, N, P)'
<1>1. Real(r)' /\ \E y \in Others' : y.ts = r.cursor
  BY DEF SoFar, Real, Grows
<1>2. N \subseteq Others' /\ P \subseteq Posts' /\ (r.op = "replies" => P = {})
  BY DEF SoFar, Grows
<1>3. /\ \A x \in N : Fits(x, r) /\ Behind(x.ts, r.op, r.cursor)
      /\ \A p \in P : p.channel = "here" /\ Fits(p, r)
      /\ r.op = "history" => \A p \in PostsFirst' : p.channel = "here" /\ Fits(p, r) => p \in P
      /\ Exactly(q, Times0(N \cup P), r.thread)
  BY DEF SoFar, FirstStay
<1>4. ASSUME NEW x \in Others', Fits(x, r), Behind(x.ts, r.op, r.cursor),
             r.op = "replies" \/ x \in RealFirst'
      PROVE  x \in N
  <2>1. CASE x \in Others
    BY <1>4, <2>1 DEF SoFar, FirstStay
  <2>2. CASE x \notin Others
    <3>1. x \notin RealFirst'
      BY <2>2, FirstFacts DEF FirstStay
    <3>2. r.op = "replies"
      BY <1>4, <3>1
    <3>3. PICK y \in Others : y.ts = r.cursor
      BY DEF SoFar
    <3>4. y.ts < x.ts /\ x.ts \in Nat /\ y.ts \in Nat
      BY <2>2, WorldFacts DEF Grows
    <3>5. x.ts <= y.ts
      BY <1>4, <3>2, <3>3 DEF Behind
    <3> QED BY ONLY <3>4, <3>5
  <2> QED BY <2>1, <2>2
<1> QED BY ONLY <1>1, <1>2, <1>3, <1>4 DEF SoFar

\* What is written keeps what the pages hold.
LEMMA WritingKeeps ==
    ASSUME ReadInv, World', read' = read, read = Idle \/ read.open, Bounds', FirstStay, Grows
    PROVE  ReadInv'
<1>1. World /\ ReadTyped /\ Bounds
  BY DEF ReadInv
<1>2. ReadTyped'
  BY <1>1 DEF ReadTyped
<1>3. ASSUME read # Idle, ~read.partial PROVE Progress'
  <2>1. Progress /\ read.open /\ Shape(read.r)
    BY <1>3 DEF ReadInv
  <2>2. PICK q, r : q = AllShown /\ r = read.r
    OBVIOUS
  <2>3. q = AllShown' /\ r = read'.r
    BY <2>2 DEF AllShown
  <2>4. read'.pages \in Seq(Seq(Message)) /\ read'.open
    BY <2>1 DEF Progress
  <2>5. \A i \in DOMAIN q : Counted(q[i])'
    <3>1. \A i \in DOMAIN q : Counted(q[i])
      BY <2>1, <2>2 DEF Progress
    <3> QED BY <3>1, CountedKeeps DEF Grows
  <2>6. CASE read.pages = <<>> /\ read.r.cursor = NoTs
    <3>1. read'.pages = <<>> /\ read'.r.cursor = NoTs
      BY <2>6
    <3> QED BY ONLY <2>3, <2>4, <2>5, <3>1 DEF Progress
  <2>7. CASE \E N, P : SoFar(AllShown, read.r, N, P)
    <3>1. PICK N, P : SoFar(q, r, N, P)
      BY <2>2, <2>7
    <3>2. SoFar(q, r, N, P)'
      BY <1>1, <2>1, <2>2, <3>1, SoFarKeeps
    <3> QED BY ONLY <2>3, <2>4, <2>5, <3>2 DEF Progress
  <2> QED BY <2>1, <2>6, <2>7 DEF Progress
<1>4. read # Idle => Shape(read.r)'
  <2> SUFFICES ASSUME read # Idle PROVE Shape(read.r)'
    OBVIOUS
  <2>1. PICK r : r = read.r
    OBVIOUS
  <2>2. Shape(r)
    BY <2>1 DEF ReadInv
  <2>3. Shape(r)'
    BY <2>2, ShapeKeeps DEF Grows
  <2>4. r = read'.r
    BY <2>1
  <2> QED BY ONLY <2>3, <2>4 DEF Shape
<1> QED BY <1>2, <1>3, <1>4 DEF ReadInv, Idle

\* Somebody writes.
LEMMA RealMessageReads ==
    ASSUME ReadInv, read = Idle \/ read.open,
           NEW ts \in RealTimes, NEW thread \in {NoTs} \cup Tops, RealMessage(ts, thread)
    PROVE  ReadInv'
<1>1. World /\ Bounds
  BY DEF ReadInv
<1>2. PICK m : m = [ts |-> ts, thread |-> thread]
  OBVIOUS
<1>3. /\ ThreadsHang' /\ real' = Append(real, m) /\ m \in Written
      /\ posts' = posts /\ read' = read
      /\ \A x \in Others : x.ts < m.ts
  BY <1>1, <1>2, RealGrows
<1>4. World'
  <2>1. ChannelInv'
    BY <1>1, RealMessageKeeps DEF World
  <2> QED BY <1>3, <2>1 DEF World
<1>5. PICK q, v, n, h : q = real /\ v = real' /\ n = Len(real) /\ h = read.hadReal
  OBVIOUS
<1>6. q \in Seq(Written) /\ v = Append(q, m) /\ h \in 0..Len(q) /\ n = Len(q)
  BY <1>1, <1>3, <1>5, PostsApart DEF Bounds
<1>7. SubSeq(v, 1, h) = SubSeq(q, 1, h)
  BY ONLY <1>3, <1>6, OneMoreFirst
<1>8. ToSet(v) = ToSet(q) \cup {m}
  BY ONLY <1>3, <1>6, OneMoreIn DEF ToSet
<1>9. n \in Nat /\ Len(v) = n + 1
  BY ONLY <1>3, <1>6, OneMore
<1>10. Others' = Others \cup {m} /\ Posts' = Posts
  BY ONLY <1>3, <1>5, <1>8 DEF Others, Posts
<1>11. FirstStay
  BY ONLY <1>3, <1>5, <1>7 DEF FirstStay, RealFirst, PostsFirst
<1>12. Bounds'
  <2>1. h \in 0..(n + 1)
    BY ONLY <1>6, <1>9
  <2> QED BY ONLY <1>1, <1>3, <1>5, <1>9, <2>1 DEF Bounds
<1>13. Grows
  <2>1. m.ts \in Nat
    BY <1>3 DEF Written
  <2>2. \A x \in Others : x.ts \in Nat
    BY <1>1, WorldFacts
  <2> QED BY ONLY <1>3, <1>10, <2>1, <2>2 DEF Grows
<1> QED BY <1>3, <1>4, <1>11, <1>12, <1>13, WritingKeeps

\* The agent posts while it reads.
LEMMA PostReads ==
    ASSUME ReadInv, read = Idle \/ read.open,
           NEW channel \in {"here", "there", "name"}, NEW thread \in {NoTs} \cup Tops,
           NEW broadcast \in BOOLEAN, Post(channel, thread, broadcast)
    PROVE  ReadInv'
<1>1. World /\ Bounds
  BY DEF ReadInv
<1>2. PICK p : p = [ts |-> Mint, channel |-> channel, thread |-> thread,
                    broadcast |-> broadcast, whole |-> fixture, after |-> newest]
  OBVIOUS
<1>3. /\ ThreadsHang' /\ posts' = Append(posts, p) /\ p \in Posted
      /\ real' = real /\ read' = read
  BY <1>1, <1>2, PostGrows
<1>4. World'
  <2>1. ChannelInv'
    BY <1>1, PostKeeps DEF World
  <2> QED BY <1>3, <2>1 DEF World
<1>5. PICK q, v, n, h : q = posts /\ v = posts' /\ n = Len(posts) /\ h = read.hadPosts
  OBVIOUS
<1>6. q \in Seq(Posted) /\ v = Append(q, p) /\ h \in 0..Len(q) /\ n = Len(q)
  BY <1>1, <1>3, <1>5, PostsApart DEF Bounds
<1>7. SubSeq(v, 1, h) = SubSeq(q, 1, h)
  BY ONLY <1>3, <1>6, OneMoreFirst
<1>8. ToSet(v) = ToSet(q) \cup {p}
  BY ONLY <1>3, <1>6, OneMoreIn DEF ToSet
<1>9. n \in Nat /\ Len(v) = n + 1
  BY ONLY <1>3, <1>6, OneMore
<1>10. Others' = Others /\ Posts' = Posts \cup {p}
  BY ONLY <1>3, <1>5, <1>8 DEF Others, Posts
<1>11. FirstStay
  BY ONLY <1>3, <1>5, <1>7 DEF FirstStay, RealFirst, PostsFirst
<1>12. Bounds'
  <2>1. h \in 0..(n + 1)
    BY ONLY <1>6, <1>9
  <2> QED BY ONLY <1>1, <1>3, <1>5, <1>9, <2>1 DEF Bounds
<1>13. Grows
  <2>1. \A x \in Others : x.ts \in Nat
    BY <1>1, WorldFacts
  <2> QED BY ONLY <1>10, <2>1 DEF Grows
<1> QED BY <1>3, <1>4, <1>11, <1>12, <1>13, WritingKeeps

\* The reads an agent may ask for.
LEMMA ReadsShape ==
    ASSUME World, NEW r \in Reads
    PROVE  Shape(r) /\ r \in Asked /\ r.cursor = NoTs
<1>1. Tops \subseteq Nat
  BY TopsAreNat DEF World, ChannelInv
<1>2. \A t \in Tops : \E y \in Others \cup Posts : y.ts = t /\ y.thread = NoTs
  BY DEF Tops, Others
<1>3. PICK w \in Whose :
          r \in Bounded(w) \cup {[w EXCEPT !.limited = TRUE], [w EXCEPT !.odd = TRUE]}
  BY DEF Reads
<1>4. /\ w.op \in {"history", "replies"} /\ w.thread \in Nat /\ w.cursor = NoTs
      /\ w.oldest \in Nat /\ w.latest \in Nat /\ w.inclusive \in BOOLEAN
      /\ w.limited \in BOOLEAN /\ w.odd \in BOOLEAN
      /\ w = [op |-> w.op, thread |-> w.thread, oldest |-> w.oldest, latest |-> w.latest,
              inclusive |-> w.inclusive, limited |-> w.limited, odd |-> w.odd, cursor |-> w.cursor]
      /\ w.op = "history" => w.thread = NoTs
      /\ w.op = "replies" => w.thread \in Tops
  <2>1. CASE w = Whole
    BY <2>1 DEF Whole, NoRead, NoTs
  <2>2. CASE w # Whole
    <3>1. PICK t \in Tops : w = [NoRead EXCEPT !.op = "replies", !.thread = t]
      BY <1>3, <2>2 DEF Whose
    <3> QED BY <1>1, <3>1 DEF NoRead, NoTs
  <2> QED BY <2>1, <2>2
<1>5. /\ r.op = w.op /\ r.thread = w.thread /\ r.cursor = NoTs
      /\ r.oldest \in Nat /\ r.latest \in Nat /\ r.inclusive \in BOOLEAN
      /\ r.limited \in BOOLEAN /\ r.odd \in BOOLEAN
      /\ r = [op |-> r.op, thread |-> r.thread, oldest |-> r.oldest, latest |-> r.latest,
              inclusive |-> r.inclusive, limited |-> r.limited, odd |-> r.odd, cursor |-> r.cursor]
  <2>1. CASE r = w
    BY <1>4, <2>1
  <2>2. CASE r = [w EXCEPT !.limited = TRUE] \/ r = [w EXCEPT !.odd = TRUE]
    BY <1>4, <2>2
  <2>3. CASE \E t \in Tops : r = [w EXCEPT !.oldest = t]
    BY <1>1, <1>4, <2>3
  <2>4. CASE \E t \in Tops : r = [w EXCEPT !.latest = t]
    BY <1>1, <1>4, <2>4
  <2>5. CASE \E t \in Tops : r = [w EXCEPT !.latest = t, !.inclusive = TRUE]
    BY <1>1, <1>4, <2>5
  <2> QED BY <1>3, <2>1, <2>2, <2>3, <2>4, <2>5 DEF Bounded
<1>6. Shape(r)
  BY <1>2, <1>4, <1>5 DEF Shape, NoTs
<1>7. r \in Asked
  BY ONLY <1>4, <1>5 DEF Asked, NoTs
<1> QED BY <1>5, <1>6, <1>7

-----------------------------------------------------------------------------
(* A page more. *)

\* What has been read before a page.
Started(q, r, N, P) ==
    \/ q = <<>> /\ r.cursor = NoTs /\ N = {} /\ P = {}
    \/ SoFar(q, r, N, P)

\* What is left has not been read.
LEMMA StillLeft ==
    ASSUME World, NEW r, Shape(r), NEW q, NEW N, NEW P, Started(q, r, N, P)
    PROVE  /\ N \subseteq Others /\ P \subseteq Posts
           /\ \A x \in N : x \notin LeftSet(r)
           /\ \A x \in Others : Fits(x, r) /\ (r.op = "replies" \/ x \in RealFirst) =>
                 x \in N \/ x \in LeftSet(r)
           /\ r.op = "replies" \/ FirstPage(r) => P = {}
           /\ ~FirstPage(r) => SoFar(q, r, N, P)
           /\ Exactly(q, Times0(N \cup P), r.thread)
<1>1. CASE q = <<>> /\ r.cursor = NoTs /\ N = {} /\ P = {}
  <2>1. Exactly(q, Times0(N \cup P), r.thread)
    <3>1. DOMAIN q = {} /\ Times0(N \cup P) = {}
      BY <1>1 DEF Times0
    <3> QED BY ONLY <3>1 DEF Exactly
  <2>2. FirstPage(r)
    BY <1>1 DEF FirstPage
  <2>3. \A x \in Others : Fits(x, r) => x \in LeftSet(r)
    <3>1. \A x \in Others : x.ts > NoTs
      <4>1. \A x \in Others : x.ts \in Nat /\ x.ts # 0
        BY WorldFacts DEF NoTs
      <4> QED BY ONLY <4>1 DEF NoTs
    <3> QED BY <1>1, <3>1 DEF LeftSet
  <2> QED BY ONLY <1>1, <2>1, <2>2, <2>3
<1>2. CASE SoFar(q, r, N, P)
  <2>1. PICK y \in Others : y.ts = r.cursor
    BY <1>2 DEF SoFar
  <2>2. r.cursor \in Nat /\ r.cursor # NoTs
    BY <2>1, WorldFacts
  <2>3. N \subseteq Others /\ P \subseteq Posts /\ ~FirstPage(r) /\ (r.op = "replies" => P = {})
        /\ Exactly(q, Times0(N \cup P), r.thread)
    BY <1>2, <2>2 DEF SoFar, FirstPage
  <2>4. \A x \in Others : x.ts \in Nat
    BY WorldFacts
  <2>5. r.op \in {"history", "replies"}
    BY DEF Shape
  <2>6. \A x \in N : x \notin LeftSet(r)
    <3> SUFFICES ASSUME NEW x \in N PROVE x \notin LeftSet(r)
      OBVIOUS
    <3>1. Behind(x.ts, r.op, r.cursor)
      BY <1>2 DEF SoFar
    <3>2. x.ts \in Nat
      BY <2>3, <2>4
    <3> QED BY ONLY <2>2, <2>5, <3>1, <3>2 DEF Behind, LeftSet
  <2>7. \A x \in Others : Fits(x, r) /\ (r.op = "replies" \/ x \in RealFirst) =>
            x \in N \/ x \in LeftSet(r)
    <3> SUFFICES ASSUME NEW x \in Others, Fits(x, r), r.op = "replies" \/ x \in RealFirst, x \notin N
                 PROVE  x \in LeftSet(r)
      OBVIOUS
    <3>1. ~Behind(x.ts, r.op, r.cursor)
      BY <1>2 DEF SoFar
    <3>2. x.ts \in Nat
      BY <2>4
    <3> QED BY ONLY <2>2, <2>5, <3>1, <3>2, x \in Others, Fits(x, r) DEF Behind, LeftSet
  <2> QED BY ONLY <1>2, <2>3, <2>6, <2>7
<1> QED BY ONLY <1>1, <1>2, Started(q, r, N, P) DEF Started

\* A page goes to the end of what was read before.
LEMMA PageJoins ==
    ASSUME World, Bounds, NEW r, Shape(r), Real(r), NEW a, a = Answered(r),
           NEW q \in Seq(Message), NEW N, NEW P, Started(q, r, N, P),
           NEW v, NEW O, Holds(v, r, a, O), NEW L, L = PageSet(r, a)
    PROVE  /\ q \o v \in Seq(Message)
           /\ Exactly(q \o v, Times0((N \cup L) \cup (P \cup O)), r.thread)
<1>1. /\ N \subseteq Others /\ P \subseteq Posts
      /\ \A x \in N : x \notin LeftSet(r)
      /\ r.op = "replies" \/ FirstPage(r) => P = {}
      /\ Exactly(q, Times0(N \cup P), r.thread)
  BY StillLeft
<1>2. /\ v \in Seq(Message) /\ O \subseteq Posts /\ Exactly(v, Times0(L \cup O), r.thread)
      /\ ~PostsPage(r, a) => O = {}
  BY DEF Holds
<1>3. L \subseteq LeftSet(r) /\ L \subseteq Others
  <2>1. PageSet(r, a) \subseteq LeftSet(r) /\ LeftSet(r) \subseteq Others
    BY AnswerPage
  <2> QED BY ONLY <2>1, L = PageSet(r, a)
<1>4. \A x \in P : x \notin O
  BY <1>1, <1>2 DEF PostsPage, Shape
<1>5. /\ \A x, y \in Others \cup Posts : x.ts = y.ts => x = y
      /\ \A x \in Others, y \in Posts : x.ts # y.ts
  BY WorldFacts
<1>6. PICK S, T : S = Times0(N \cup P) /\ T = Times0(L \cup O)
  OBVIOUS
<1>7. \A x \in N \cup P, y \in L \cup O : x.ts # y.ts
  <2> SUFFICES ASSUME NEW x \in N \cup P, NEW y \in L \cup O, x.ts = y.ts PROVE FALSE
    OBVIOUS
  <2>1. x = y
    BY ONLY <1>1, <1>2, <1>3, <1>5, x \in N \cup P, y \in L \cup O, x.ts = y.ts
  <2>2. \A z \in Others : z \notin Posts
    BY ONLY <1>5
  <2> QED BY ONLY <1>1, <1>2, <1>3, <1>4, <2>1, <2>2, x \in N \cup P, y \in L \cup O
<1>8. \A s \in S : s \notin T
  BY ONLY <1>6, <1>7 DEF Times0
<1>9. q \o v \in Seq(Message) /\ Exactly(q \o v, S \cup T, r.thread)
  <2>1. Exactly(q, S, r.thread) /\ Exactly(v, T, r.thread)
    BY ONLY <1>1, <1>2, <1>6
  <2> QED BY ONLY <1>2, <1>8, <2>1, q \in Seq(Message), ExactlyJoined
<1>10. S \cup T = Times0((N \cup L) \cup (P \cup O))
  BY ONLY <1>6 DEF Times0
<1> QED BY ONLY <1>9, <1>10

\* There are more pages: the cursor is the last message of this one.
LEMMA ReadsOn ==
    ASSUME World, Bounds, NEW r, Shape(r), r \in Asked, Real(r), NEW a, a = Answered(r), a.more,
           NEW q \in Seq(Message), NEW N, NEW P, Started(q, r, N, P),
           NEW v, NEW O, Holds(v, r, a, O), NEW L, L = PageSet(r, a),
           NEW s, s = [r EXCEPT !.cursor = Last(a.messages).ts]
    PROVE  SoFar(q \o v, s, N \cup L, P \cup O)
<1>1. /\ N \subseteq Others /\ P \subseteq Posts
      /\ \A x \in Others : Fits(x, r) /\ (r.op = "replies" \/ x \in RealFirst) =>
            x \in N \/ x \in LeftSet(r)
      /\ r.op = "replies" \/ FirstPage(r) => P = {}
      /\ ~FirstPage(r) => SoFar(q, r, N, P)
  BY StillLeft
<1>2. /\ O \subseteq Posts /\ \A p \in O : p.channel = "here" /\ Fits(p, r)
      /\ IF PostsPage(r, a) THEN \A p \in Posts : p.channel = "here" /\ Fits(p, r) => p \in O
         ELSE O = {}
  BY DEF Holds
<1>3. PICK y \in LeftSet(r) : Last(a.messages).ts = y.ts
  BY AnswerPage
<1>4. LeftSet(r) \subseteq Others /\ \A x \in LeftSet(r) : Fits(x, r)
  BY DEF LeftSet
<1>5. /\ s.op = r.op /\ s.thread = r.thread /\ s.oldest = r.oldest /\ s.latest = r.latest
      /\ s.inclusive = r.inclusive /\ s.cursor = y.ts
  BY <1>3 DEF Asked
<1>6. \A x : Fits(x, s) <=> Fits(x, r)
  BY ONLY <1>5 DEF Fits, Inside
<1>7. r.op \in {"history", "replies"}
  BY DEF Shape
<1>8. L = {x \in LeftSet(r) : Behind(x.ts, r.op, y.ts)}
  BY <1>3 DEF PageSet
<1>9. Real(s) /\ \E x \in Others : x.ts = s.cursor
  BY <1>3, <1>4, <1>5 DEF Real
<1>10. N \cup L \subseteq Others /\ P \cup O \subseteq Posts /\ (s.op = "replies" => P \cup O = {})
  <2>1. r.op = "replies" => O = {}
    BY <1>2, <1>7 DEF PostsPage
  <2> QED BY ONLY <1>1, <1>2, <1>4, <1>5, <1>8, <2>1
<1>11. \A x \in N \cup L : Fits(x, s) /\ Behind(x.ts, s.op, s.cursor)
  <2>1. ASSUME NEW x \in N PROVE Fits(x, r) /\ Behind(x.ts, r.op, y.ts)
    <3>1. ~FirstPage(r)
      <4>1. FirstPage(r) => N = {}
        <5>1. CASE SoFar(q, r, N, P)
          <6>1. PICK z \in Others : z.ts = r.cursor
            BY <5>1 DEF SoFar
          <6> QED BY <6>1, WorldFacts DEF FirstPage
        <5> QED BY <5>1 DEF Started
      <4> QED BY ONLY <4>1, x \in N
    <3>2. Fits(x, r) /\ Behind(x.ts, r.op, r.cursor)
      BY <1>1, <3>1 DEF SoFar
    <3>3. x.ts \in Nat /\ y.ts \in Nat /\ r.cursor \in Nat
      BY <1>1, <1>4, WorldFacts DEF Shape
    <3>4. IF r.op = "history" THEN y.ts < r.cursor ELSE y.ts > r.cursor
      BY <3>1 DEF LeftSet, FirstPage
    <3>5. Behind(x.ts, r.op, y.ts)
      BY ONLY <1>7, <3>2, <3>3, <3>4 DEF Behind
    <3> QED BY ONLY <3>2, <3>5
  <2>2. ASSUME NEW x \in L PROVE Fits(x, r) /\ Behind(x.ts, r.op, y.ts)
    BY ONLY <1>4, <1>8, x \in L
  <2> QED BY ONLY <1>5, <1>6, <2>1, <2>2
<1>12. \A p \in P \cup O : p.channel = "here" /\ Fits(p, s)
  <2>1. \A p \in P : p.channel = "here" /\ Fits(p, r)
    BY <1>1 DEF SoFar
  <2> QED BY ONLY <1>2, <1>6, <2>1
<1>13. \A x \in Others :
          Fits(x, s) /\ Behind(x.ts, s.op, s.cursor) /\ (s.op = "replies" \/ x \in RealFirst) =>
              x \in N \cup L
  BY ONLY <1>1, <1>5, <1>6, <1>8
<1>14. s.op = "history" => \A p \in PostsFirst : p.channel = "here" /\ Fits(p, s) => p \in P \cup O
  <2> SUFFICES ASSUME r.op = "history", NEW p \in PostsFirst, p.channel = "here", Fits(p, r)
               PROVE  p \in P \cup O
    BY <1>5, <1>6
  <2>1. p \in Posts
    BY FirstFacts
  <2>2. CASE FirstPage(r)
    BY <1>2, <2>1, <2>2 DEF PostsPage
  <2>3. CASE ~FirstPage(r)
    BY <1>1, <2>3 DEF SoFar
  <2> QED BY <2>2, <2>3
<1>15. Exactly(q \o v, Times0((N \cup L) \cup (P \cup O)), s.thread)
  <2>1. Exactly(q \o v, Times0((N \cup L) \cup (P \cup O)), r.thread)
    BY PageJoins
  <2> QED BY ONLY <1>5, <2>1
<1> QED BY ONLY <1>9, <1>10, <1>11, <1>12, <1>13, <1>14, <1>15 DEF SoFar

\* This page is the last.
LEMMA ReadsToEnd ==
    ASSUME World, Bounds, NEW r, Shape(r), Real(r), NEW a, a = Answered(r), ~a.more,
           NEW q \in Seq(Message), NEW N, NEW P, Started(q, r, N, P),
           NEW v, NEW O, Holds(v, r, a, O)
    PROVE  AllRead(q \o v, v, r, N \cup LeftSet(r), P \cup O, r.thread)
<1>0. PICK L, M, Q : L = LeftSet(r) /\ M = N \cup L /\ Q = P \cup O
  OBVIOUS
<1>1. /\ N \subseteq Others /\ P \subseteq Posts
      /\ \A x \in Others : Fits(x, r) /\ (r.op = "replies" \/ x \in RealFirst) => x \in M
      /\ r.op = "replies" \/ FirstPage(r) => P = {}
      /\ ~FirstPage(r) => SoFar(q, r, N, P)
  <2>1. /\ N \subseteq Others /\ P \subseteq Posts
        /\ \A x \in Others : Fits(x, r) /\ (r.op = "replies" \/ x \in RealFirst) =>
              x \in N \/ x \in LeftSet(r)
        /\ r.op = "replies" \/ FirstPage(r) => P = {}
        /\ ~FirstPage(r) => SoFar(q, r, N, P)
    BY StillLeft
  <2> QED BY ONLY <1>0, <2>1
<1>2. /\ O \subseteq Posts /\ \A p \in O : p.channel = "here" /\ Fits(p, r)
      /\ IF PostsPage(r, a) THEN \A p \in Posts : p.channel = "here" /\ Fits(p, r) => p \in O
         ELSE O = {}
  BY DEF Holds
<1>3. L \subseteq Others /\ \A x \in L : Fits(x, r)
  BY <1>0 DEF LeftSet
<1>4. M \subseteq Others /\ Q \subseteq Posts
  BY ONLY <1>0, <1>1, <1>2, <1>3
<1>5. r.thread = NoTs \/ (r.thread = r.thread /\ \E y \in Others : y.ts = r.thread)
  BY DEF Shape, Real
<1>6. \A x \in M : Fits(x, r)
  <2>1. \A x \in N : Fits(x, r)
    BY DEF Started, SoFar
  <2> QED BY ONLY <1>0, <1>3, <2>1
<1>7. \A p \in Q : p.channel = "here" /\ Fits(p, r)
  <2>1. \A p \in P : p.channel = "here" /\ Fits(p, r)
    BY <1>1 DEF SoFar
  <2> QED BY ONLY <1>0, <1>2, <2>1
<1>8. \A x \in RealFirst : Fits(x, r) => x \in M
  <2>1. RealFirst \subseteq Others
    BY FirstFacts
  <2> QED BY ONLY <1>1, <2>1
<1>9. \A p \in PostsFirst : p.channel = "here" /\ Fits(p, r) => p \in Q
  <2> SUFFICES ASSUME NEW p \in PostsFirst, p.channel = "here", Fits(p, r) PROVE p \in P \cup O
    BY <1>0
  <2>1. p \in Posts
    BY FirstFacts
  <2>2. CASE PostsPage(r, a)
    BY <1>2, <2>1, <2>2
  <2>3. CASE ~PostsPage(r, a)
    <3>1. r.op = "history" /\ ~FirstPage(r)
      BY <2>3 DEF PostsPage, Shape
    <3> QED BY <1>1, <3>1 DEF SoFar
  <2> QED BY <2>2, <2>3
<1>10. Exactly(q \o v, Times0(M \cup Q), r.thread)
  <2>1. L = PageSet(r, a)
    BY <1>0 DEF PageSet
  <2>2. Exactly(q \o v, Times0((N \cup L) \cup (P \cup O)), r.thread)
    BY <2>1, PageJoins
  <2> QED BY ONLY <1>0, <2>2
<1>11. ASSUME r.op = "replies", r.oldest = NoTs, r.latest = NoTs,
              NEW i \in DOMAIN v, v[i].ts = r.thread
       PROVE  v[i].count = Cardinality({x \in M \cup Q : x.thread = r.thread})
  <2>1. PICK X, Y : X = {x \in Others : x.thread = r.thread} /\ Y = PostReplies(r.thread)
    OBVIOUS
  <2>2. v[i].count = Cardinality(X) + Cardinality(Y) /\ O = Y
    BY <1>11, <2>1 DEF Holds
  <2>3. Q = Y
    BY ONLY <1>0, <1>1, <1>11, <2>2
  <2>4. \A x \in Others : Inside(x.ts, r)
    BY <1>11, WorldFacts DEF Inside, NoTs
  <2>5. M = X
    BY ONLY <1>1, <1>4, <1>6, <1>11, <2>1, <2>4 DEF Fits
  <2>6. IsFiniteSet(X) /\ IsFiniteSet(Y)
    BY <1>4, <2>3, <2>5, WorldFacts, FS_Subset
  <2>7. X \cap Y = {}
    BY <1>4, <2>3, <2>5, WorldFacts
  <2>8. Cardinality(X \cup Y) = Cardinality(X) + Cardinality(Y)
    <3>1. Cardinality(X \cup Y) = Cardinality(X) + Cardinality(Y) - Cardinality(X \cap Y)
      BY <2>6, FS_Union
    <3>2. Cardinality(X \cap Y) = 0
      BY <2>7, FS_EmptySet
    <3>3. Cardinality(X) \in Nat /\ Cardinality(Y) \in Nat
      BY <2>6, FS_CardinalityType
    <3> QED BY ONLY <3>1, <3>2, <3>3
  <2>9. {x \in M \cup Q : x.thread = r.thread} = X \cup Y
    BY ONLY <1>6, <1>7, <2>3, <2>5 DEF Fits
  <2>10. PICK Z : Z = {x \in M \cup Q : x.thread = r.thread}
    OBVIOUS
  <2>11. Z = X \cup Y
    BY ONLY <2>9, <2>10
  <2>12. v[i].count = Cardinality(Z)
    BY ONLY <2>2, <2>8, <2>11
  <2> QED BY ONLY <2>10, <2>12
<1>12. \A p \in Q : p.channel = "here" /\ (Fits(p, r) \/ p.ts = r.thread)
  BY ONLY <1>7
<1>13. AllRead(q \o v, v, r, M, Q, r.thread)
  BY ONLY <1>4, <1>5, <1>6, <1>8, <1>9, <1>10, <1>11, <1>12 DEF AllRead
<1> QED BY ONLY <1>0, <1>13

\* The read goes on from the last message of a page, where there is another.
LEMMA NextRead ==
    ASSUME World, Bounds, NEW r, Shape(r), r \in Asked, NEW a, a = Answered(r),
           NEW s, s = [r EXCEPT !.cursor = IF a.more THEN Last(a.messages).ts ELSE @]
    PROVE  /\ Shape(s) /\ s \in Asked
           /\ a.more => Real(r) /\ s = [r EXCEPT !.cursor = Last(a.messages).ts]
           /\ ~a.more => s = r
<1>1. CASE a.more
  <2>1. Real(r)
    <3>1. CASE r.op = "history"
      BY <3>1 DEF Real
    <3>2. CASE r.op = "replies"
      BY <1>1, <3>2, NoThread
    <3> QED BY <3>1, <3>2 DEF Shape
  <2>2. PICK y \in LeftSet(r) : Last(a.messages).ts = y.ts
    BY <1>1, <2>1, AnswerPage
  <2>3. y.ts \in Nat
    BY <2>2, WorldFacts DEF LeftSet
  <2>4. s = [r EXCEPT !.cursor = y.ts]
    BY <1>1, <2>2
  <2>5. s \in Asked /\ s.cursor = y.ts /\ s.op = r.op /\ s.thread = r.thread
        /\ s.oldest = r.oldest /\ s.latest = r.latest
    BY ONLY <2>3, <2>4, r \in Asked DEF Asked
  <2>6. Shape(s)
    BY ONLY <2>3, <2>5, Shape(r) DEF Shape
  <2> QED BY <1>1, <2>1, <2>5, <2>6
<1>2. CASE ~a.more
  <2>1. s = r
    BY ONLY <1>2, r \in Asked, s = [r EXCEPT !.cursor = IF a.more THEN Last(a.messages).ts ELSE @]
            DEF Asked
  <2> QED BY <1>2, <2>1
<1> QED BY <1>1, <1>2

\* A page that is not partial adds to what was read, or ends it.
LEMMA PageAdds ==
    ASSUME World, Bounds, NEW r, Shape(r), r \in Asked, NEW a, a = Answered(r),
           NEW b, b = ApplyRead(r, a), ~b.partial, NEW v, v = b.messages,
           NEW q \in Seq(Message), NEW N, NEW P, Started(q, r, N, P),
           NEW s, s = [r EXCEPT !.cursor = IF a.more THEN Last(a.messages).ts ELSE @]
    PROVE  /\ v \in Seq(Message) /\ \A i \in DOMAIN v : Counted(v[i])
           /\ a.more => \E M, Q : SoFar(q \o v, s, M, Q)
           /\ ~a.more => \E M, Q, t : AllRead(q \o v, v, s, M, Q, t)
<1>0. /\ a.more => Real(r) /\ s = [r EXCEPT !.cursor = Last(a.messages).ts]
      /\ ~a.more => s = r
  BY NextRead
<1>1. CASE Real(r)
  <2>1. a.ok
    BY <1>1, AnswerFacts
  <2>2. PICK O : Holds(v, r, a, O)
    <3>1. CASE r.op = "history"
      <4>1. b = History(r, a)
        BY <2>1, <3>1 DEF ApplyRead
      <4>2. \E O : Holds(b.messages, r, a, O)
        BY <3>1, <4>1, HistoryPage
      <4> QED BY ONLY <4>2, v = b.messages
    <3>2. CASE r.op = "replies"
      <4>1. b = Replies(r, a)
        BY <2>1, <3>2 DEF ApplyRead
      <4>2. \E O : Holds(b.messages, r, a, O)
        BY <1>1, <3>2, <4>1, RepliesPage
      <4> QED BY ONLY <4>2, v = b.messages
    <3> QED BY <3>1, <3>2 DEF Shape
  <2>3. v \in Seq(Message) /\ \A i \in DOMAIN v : Counted(v[i])
    BY <2>2 DEF Holds
  <2>4. CASE a.more
    <3>1. SoFar(q \o v, s, N \cup PageSet(r, a), P \cup O)
      BY <1>0, <1>1, <2>2, <2>4, ReadsOn
    <3> QED BY ONLY <2>3, <2>4, <3>1
  <2>5. CASE ~a.more
    <3>1. AllRead(q \o v, v, r, N \cup LeftSet(r), P \cup O, r.thread)
      BY <1>1, <2>2, <2>5, ReadsToEnd
    <3> QED BY ONLY <1>0, <2>3, <2>5, <3>1
  <2> QED BY ONLY <2>4, <2>5
<1>2. CASE ~Real(r)
  <2>1. r.op = "replies"
    BY <1>2 DEF Real
  <2>2. q = <<>>
    BY <1>2 DEF Started, SoFar
  <2>3. ~a.more /\ \A x \in Others : ~Fits(x, r)
    BY <1>2, <2>1, NoThread
  <2>4. PICK O : FakedThread(v, r, O)
    <3>1. \E O : FakedThread(b.messages, r, O)
      BY <1>2, <2>1, FakedPage
    <3> QED BY ONLY <3>1, v = b.messages
  <2>5. v \in Seq(Message) /\ \A i \in DOMAIN v : Counted(v[i])
    BY ONLY <2>4 DEF FakedThread
  <2>6. q \o v = v
    BY ONLY <2>2, <2>5
  <2>7. RealFirst \subseteq Others /\ PostsFirst \subseteq Posts
    BY FirstFacts
  <2>8. {} \cup O = O
    OBVIOUS
  <2>9. AllRead(v, v, r, {}, O, NoTs)
    BY ONLY <2>3, <2>4, <2>7, <2>8 DEF AllRead, FakedThread
  <2> QED BY ONLY <1>0, <2>3, <2>5, <2>6, <2>9
<1> QED BY ONLY <1>1, <1>2

-----------------------------------------------------------------------------
(* The steps of a read. *)

\* Where nothing is written, the channel is as it was.
LEMMA WorldStays ==
    ASSUME World, ChannelInv', real' = real, posts' = posts
    PROVE  World' /\ Others' = Others /\ Posts' = Posts /\ \A r : Shape(r) => Shape(r)'
<1>1. Others' = Others /\ Posts' = Posts
  BY DEF Others, Posts
<1>2. ThreadsHang
  BY DEF World
<1>3. ThreadsHang'
  BY ONLY <1>1, <1>2, real' = real DEF ThreadsHang
<1>4. \A r : Shape(r) => Shape(r)'
  BY ONLY <1>1 DEF Shape
<1> QED BY ONLY <1>1, <1>3, <1>4, ChannelInv' DEF World

\* What was read stays read, where nothing is written.
LEMMA SoFarStays ==
    ASSUME Others' = Others, Posts' = Posts, FirstStay, NEW q, NEW r, NEW N, NEW P
    PROVE  /\ SoFar(q, r, N, P) => SoFar(q, r, N, P)'
           /\ \A v, t : AllRead(q, v, r, N, P, t) => AllRead(q, v, r, N, P, t)'
<1>1. RealFirst' = RealFirst /\ PostsFirst' = PostsFirst
  BY DEF FirstStay
<1>2. SoFar(q, r, N, P) => SoFar(q, r, N, P)'
  BY ONLY <1>1, Others' = Others, Posts' = Posts DEF SoFar, Real
<1>3. ASSUME NEW v, NEW t, AllRead(q, v, r, N, P, t) PROVE AllRead(q, v, r, N, P, t)'
  BY ONLY <1>1, <1>3, Others' = Others, Posts' = Posts DEF AllRead
<1> QED BY ONLY <1>2, <1>3

\* One page more of a read.
LEMMA PageReads ==
    ASSUME ReadInv, Page
    PROVE  ReadInv'
<1>1. World /\ ReadTyped /\ Bounds
  BY DEF ReadInv
<1>2. PICK d, r, a, b, s : /\ d = read /\ r = read.r /\ a = Answered(r) /\ b = ApplyRead(r, a)
                           /\ s = [r EXCEPT !.cursor = IF a.more THEN Last(a.messages).ts ELSE @]
  OBVIOUS
<1>3. /\ read.open /\ real' = real /\ posts' = posts
      /\ read' = [read EXCEPT !.pages = Append(@, b.messages), !.partial = @ \/ b.partial,
                              !.open = a.more,
                              !.r.cursor = IF a.more THEN Last(a.messages).ts ELSE @]
  BY <1>2 DEF Page
<1>4. read # Idle /\ Shape(r) /\ r \in Asked
  <2>1. read # Idle
    BY <1>3 DEF Idle
  <2> QED BY <1>1, <1>2, <2>1 DEF ReadInv, ReadTyped
<1>5. Shape(s) /\ s \in Asked /\ (a.more => Real(r)) /\ (~a.more => s = r) /\ a.more \in BOOLEAN
  <2>1. a.more \in BOOLEAN
    BY <1>2 DEF Answered
  <2> QED BY <1>1, <1>2, <1>4, <2>1, NextRead
<1>6. /\ read'.r = s /\ read'.open = a.more
      /\ read'.pages = Append(read.pages, b.messages)
      /\ read'.hadReal = read.hadReal /\ read'.hadPosts = read.hadPosts
      /\ DOMAIN read' = DOMAIN read
  BY ONLY <1>1, <1>2, <1>3 DEF ReadTyped
<1>7. read'.partial = (read.partial \/ b.partial)
  BY ONLY <1>1, <1>3 DEF ReadTyped
<1>8. read'.partial \in BOOLEAN /\ (~read'.partial => ~read.partial /\ ~b.partial)
  BY <1>7
<1>9. ReadTyped'
  BY ONLY <1>1, <1>5, <1>6, <1>8 DEF ReadTyped
<1>10. Bounds'
  BY ONLY <1>1, <1>3, <1>6 DEF Bounds
<1>11. World' /\ Others' = Others /\ Posts' = Posts /\ Shape(s)'
  <2>1. ChannelInv'
    BY <1>1, PageAhead DEF World
  <2> QED BY <1>1, <1>3, <1>5, <2>1, WorldStays
<1>12. FirstStay
  BY ONLY <1>3, <1>6 DEF FirstStay, RealFirst, PostsFirst
<1>13. ASSUME ~read'.partial PROVE Progress'
  <2>1. Progress /\ ~b.partial
    BY <1>4, <1>8, <1>13 DEF ReadInv
  <2>2. PICK pages, q, v : pages = read.pages /\ q = AllShown /\ v = b.messages
    OBVIOUS
  <2>3. pages \in Seq(Seq(Message)) /\ \A i \in DOMAIN q : Counted(q[i])
    BY ONLY <2>1, <2>2 DEF Progress
  <2>4. q \in Seq(Message) /\ (pages = <<>> => q = <<>>)
    BY ONLY <2>2, <2>3, FlattenSeqs DEF AllShown
  <2>5. PICK N, P : Started(q, r, N, P)
    <3>1. CASE pages = <<>> /\ r.cursor = NoTs
      BY <2>4, <3>1 DEF Started
    <3>2. CASE \E N, P : SoFar(q, r, N, P)
      BY <3>2 DEF Started
    <3> QED BY ONLY <1>2, <1>3, <2>1, <2>2, <3>1, <3>2 DEF Progress
  <2>6. /\ v \in Seq(Message) /\ \A i \in DOMAIN v : Counted(v[i])
        /\ a.more => \E M, Q : SoFar(q \o v, s, M, Q)
        /\ ~a.more => \E M, Q, t : AllRead(q \o v, v, s, M, Q, t)
    BY <1>1, <1>2, <1>4, <2>1, <2>2, <2>4, <2>5, PageAdds
  <2>7. read'.pages \in Seq(Seq(Message)) /\ Last(read'.pages) = v
    <3>1. Append(pages, v) \in Seq(Seq(Message)) /\ Last(Append(pages, v)) = v
      BY ONLY <2>3, <2>6 DEF Last
    <3> QED BY ONLY <1>6, <2>2, <3>1
  <2>8. AllShown' = q \o v
    <3>1. FlattenSeq(Append(pages, v)) = FlattenSeq(pages) \o v
      BY ONLY <2>3, <2>6, FlattenAppend
    <3> QED BY ONLY <1>6, <2>2, <3>1 DEF AllShown
  <2>9. \A i \in DOMAIN (q \o v) : Counted((q \o v)[i])'
    <3>1. \A i \in DOMAIN (q \o v) : Counted((q \o v)[i])
      <4>1. PICK w, n, m : w = q \o v /\ n = Len(q) /\ m = Len(v)
        OBVIOUS
      <4>2. /\ DOMAIN q = 1..n /\ DOMAIN v = 1..m
            /\ \A i \in 1..n : w[i] = q[i]
            /\ \A i \in 1..m : w[n + i] = v[i]
            /\ \A i \in DOMAIN w : i \in 1..n \/ \E j \in 1..m : i = n + j
        BY ONLY <2>4, <2>6, <4>1, Concat
      <4>3. \A i \in DOMAIN w : Counted(w[i])
        BY ONLY <2>3, <2>6, <4>2
      <4> QED BY ONLY <4>1, <4>3
    <3>2. Others \subseteq Others' /\ Posts \subseteq Posts'
      BY ONLY <1>11
    <3> QED BY <1>12, <3>1, <3>2, CountedKeeps
  <2>10. CASE a.more
    <3>1. PICK M, Q : SoFar(q \o v, s, M, Q)
      BY ONLY <2>6, <2>10
    <3>2. SoFar(q \o v, s, M, Q)'
      BY ONLY <1>11, <1>12, <3>1, SoFarStays
    <3> QED BY ONLY <1>6, <2>7, <2>8, <2>9, <2>10, <3>2 DEF Progress
  <2>11. CASE ~a.more
    <3>1. PICK M, Q, t : AllRead(q \o v, v, s, M, Q, t)
      BY ONLY <2>6, <2>11
    <3>2. AllRead(q \o v, v, s, M, Q, t)'
      BY ONLY <1>11, <1>12, <3>1, SoFarStays
    <3> QED BY ONLY <1>6, <2>7, <2>8, <2>9, <2>11, <3>2 DEF Progress
  <2> QED BY ONLY <2>10, <2>11
<1>14. Shape(read.r)'
  BY ONLY <1>6, <1>11 DEF Shape
<1> QED BY ONLY <1>9, <1>10, <1>11, <1>13, <1>14 DEF ReadInv

\* An agent begins a read, of which no page has come.
LEMMA BeginReads ==
    ASSUME ReadInv, NEW r \in Reads, BeginRead(r)
    PROVE  ReadInv'
<1>1. World /\ ReadTyped /\ Bounds
  BY DEF ReadInv
<1>2. Shape(r) /\ r \in Asked /\ r.cursor = NoTs
  BY <1>1, ReadsShape
<1>3. /\ read' = [r |-> r, open |-> TRUE, pages |-> <<>>, partial |-> FALSE,
                  hadReal |-> Len(real), hadPosts |-> Len(posts)]
      /\ UNCHANGED <<now, last, fixture, real, posts, newest>>
  BY DEF BeginRead
<1>4. /\ DOMAIN read' = {"r", "open", "pages", "partial", "hadReal", "hadPosts"}
      /\ read'.r = r /\ read'.open = TRUE /\ read'.pages = <<>> /\ read'.partial = FALSE
      /\ read'.hadReal = Len(real) /\ read'.hadPosts = Len(posts)
  BY ONLY <1>3
<1>5. World' /\ Shape(r)'
  <2>1. ChannelInv
    BY <1>1 DEF World
  <2>2. ChannelInv'
    BY ONLY <1>3, <2>1 DEF ChannelInv, ChannelTyped, ClockAhead, PostsSortAfterWhatWasRead
  <2> QED BY <1>1, <1>2, <1>3, <2>2, WorldStays
<1>6. ReadTyped'
  BY ONLY <1>2, <1>4 DEF ReadTyped
<1>7. Bounds'
  <2>1. real \in Seq(Written) /\ posts \in Seq(Posted)
    BY <1>1, PostsApart
  <2>2. Len(real) \in 0..Len(real) /\ Len(posts) \in 0..Len(posts)
    BY ONLY <2>1
  <2> QED BY ONLY <1>3, <1>4, <2>2 DEF Bounds
<1>8. Progress'
  <2>1. PICK q : q = AllShown'
    OBVIOUS
  <2>2. q = <<>>
    BY ONLY <1>4, <2>1, FlattenSeqs DEF AllShown
  <2>3. read'.pages \in Seq(Seq(Message))
    <3>1. <<>> \in Seq(Seq(Message))
      OBVIOUS
    <3> QED BY ONLY <1>4, <3>1
  <2>4. DOMAIN q = {}
    BY ONLY <2>2
  <2> QED BY ONLY <1>2, <1>4, <2>1, <2>3, <2>4 DEF Progress
<1>9. Shape(read.r)'
  BY ONLY <1>4, <1>5 DEF Shape
<1> QED BY ONLY <1>5, <1>6, <1>7, <1>8, <1>9 DEF ReadInv

\* Where no read is open, there is nothing to hold.
LEMMA NoReads ==
    ASSUME World', read' = Idle
    PROVE  ReadInv'
<1>1. /\ DOMAIN read' = {"r", "open", "pages", "partial", "hadReal", "hadPosts"}
      /\ read'.r = NoRead /\ read'.open = FALSE /\ read'.partial = FALSE
      /\ read'.hadReal = 0 /\ read'.hadPosts = 0
  BY ONLY read' = Idle DEF Idle
<1>2. ReadTyped'
  <2>1. NoRead \in Asked
    BY DEF Asked, NoRead, NoTs
  <2> QED BY ONLY <1>1, <2>1 DEF ReadTyped, Asked
<1>3. Bounds'
  <2>1. real' \in Seq(Written) /\ posts' \in Seq(Posted)
    BY ONLY World' DEF World, ChannelInv, ChannelTyped
  <2>2. 0 \in 0..Len(real') /\ 0 \in 0..Len(posts')
    BY ONLY <2>1
  <2> QED BY ONLY <1>1, <2>2 DEF Bounds
<1>4. Idle' = Idle
  BY ONLY DEF Idle, NoRead, NoTs
<1> QED BY ONLY World', read' = Idle, <1>2, <1>3, <1>4 DEF ReadInv

\* A channel begins empty.
LEMMA ReadsStart == SlackInit => ReadInv
<1> SUFFICES ASSUME SlackInit PROVE ReadInv
  OBVIOUS
<1>1. ChannelInv
  BY ChannelStarts
<1>2. real = <<>> /\ posts = <<>> /\ read = Idle
  BY DEF SlackInit
<1>3. DOMAIN real = {} /\ Others = {} /\ Posts = {}
  BY <1>2 DEF Others, Posts, ToSet
<1>4. ThreadsHang
  BY ONLY <1>3 DEF ThreadsHang
<1>5. ReadTyped
  BY <1>2 DEF ReadTyped, Idle, Asked, NoRead, NoTs
<1>6. Bounds
  <2>1. Len(real) = 0 /\ Len(posts) = 0 /\ read.hadReal = 0 /\ read.hadPosts = 0
    BY <1>2 DEF Idle
  <2> QED BY ONLY <2>1 DEF Bounds
<1> QED BY ONLY <1>1, <1>2, <1>4, <1>5, <1>6 DEF ReadInv, World

\* Where nothing happens, the pages hold what they held.
LEMMA NothingReads ==
    ASSUME ReadInv, ChannelInv', real' = real, posts' = posts, read' = read
    PROVE  ReadInv'
<1>1. World /\ ReadTyped /\ Bounds
  BY DEF ReadInv
<1>2. World' /\ Others' = Others /\ Posts' = Posts /\ \A r : Shape(r) => Shape(r)'
  BY <1>1, WorldStays
<1>3. FirstStay
  BY DEF FirstStay, RealFirst, PostsFirst
<1>4. ReadTyped' /\ Bounds'
  BY ONLY <1>1, real' = real, posts' = posts, read' = read DEF ReadTyped, Bounds
<1>5. PICK d, r, q : d = read /\ r = read.r /\ q = AllShown
  OBVIOUS
<1>6. d = read' /\ r = read'.r /\ q = AllShown'
  BY ONLY <1>5, read' = read DEF AllShown
<1>7. ASSUME Progress PROVE Progress'
  <2>1. \A i \in DOMAIN q : Counted(q[i])'
    <3>1. \A i \in DOMAIN q : Counted(q[i])
      BY ONLY <1>5, <1>7 DEF Progress
    <3> QED BY <1>2, <1>3, <3>1, CountedKeeps
  <2>2. /\ d.pages \in Seq(Seq(Message))
        /\ d.open => \/ d.pages = <<>> /\ r.cursor = NoTs
                     \/ \E N, P : SoFar(q, r, N, P)
        /\ ~d.open => \E N, P, t : AllRead(q, Last(d.pages), r, N, P, t)
    BY ONLY <1>5, <1>7 DEF Progress
  <2>3. (\E N, P : SoFar(q, r, N, P)) => \E N, P : SoFar(q, r, N, P)'
    BY ONLY <1>2, <1>3, SoFarStays
  <2>4. (\E N, P, t : AllRead(q, Last(d.pages), r, N, P, t))
        => \E N, P, t : AllRead(q, Last(d.pages), r, N, P, t)'
    BY ONLY <1>2, <1>3, SoFarStays
  <2> QED BY ONLY <1>6, <2>1, <2>2, <2>3, <2>4 DEF Progress
<1>8. Idle' = Idle
  BY ONLY DEF Idle, NoRead, NoTs
<1>9. d # Idle => Shape(read.r)'
  <2> SUFFICES ASSUME d # Idle PROVE Shape(read.r)'
    OBVIOUS
  <2>1. Shape(r)'
    BY ONLY <1>2, <1>5, d # Idle, ReadInv DEF ReadInv
  <2> QED BY ONLY <1>6, <2>1 DEF Shape
<1>10. d # Idle => (~d.partial => Progress')
  BY ONLY <1>5, <1>7, ReadInv DEF ReadInv
<1> QED BY ONLY <1>2, <1>4, <1>6, <1>8, <1>9, <1>10 DEF ReadInv

\* Every step of the channel keeps what the pages hold.
LEMMA ReadsStep == ReadInv /\ (SlackNext \/ UNCHANGED slackVars) => ReadInv'
<1> SUFFICES ASSUME ReadInv, SlackNext \/ UNCHANGED slackVars PROVE ReadInv'
  OBVIOUS
<1>1. World /\ ReadTyped /\ Bounds /\ ChannelInv
  BY DEF ReadInv, World
<1>2. ChannelInv'
  BY <1>1, ChannelStep
<1>3. CASE UNCHANGED slackVars
  <2>1. real' = real /\ posts' = posts /\ read' = read
    BY <1>3 DEF slackVars
  <2> QED BY <1>2, <2>1, NothingReads
<1>4. CASE read = Idle /\ Tick
  <2>1. real' = real /\ posts' = posts /\ read' = Idle
    BY <1>4 DEF Tick
  <2> QED BY <1>1, <1>2, <2>1, WorldStays, NoReads
<1>5. CASE ~Ended /\ \E ts \in RealTimes, thread \in {NoTs} \cup Tops : RealMessage(ts, thread)
  <2>1. read = Idle \/ read.open
    BY <1>5 DEF Ended
  <2> QED BY <1>5, <2>1, RealMessageReads
<1>6. CASE ~Ended /\ \E channel \in {"here", "there", "name"}, thread \in {NoTs} \cup Tops,
                        broadcast \in BOOLEAN : Post(channel, thread, broadcast)
  <2>1. read = Idle \/ read.open
    BY <1>6 DEF Ended
  <2> QED BY <1>6, <2>1, PostReads
<1>7. CASE \E r \in Reads : BeginRead(r)
  BY <1>7, BeginReads
<1>8. CASE Page
  BY <1>8, PageReads
<1>9. CASE EndRead
  <2>1. real' = real /\ posts' = posts /\ read' = Idle
    BY <1>9 DEF EndRead
  <2> QED BY <1>1, <1>2, <2>1, WorldStays, NoReads
<1> QED BY ONLY <1>3, <1>4, <1>5, <1>6, <1>7, <1>8, <1>9, SlackNext \/ UNCHANGED slackVars
        DEF SlackNext

\* In every state of an agent and what it reads.
LEMMA ReadsHold == Spec => []ReadInv
<1>1. Init => ReadInv
  BY ReadsStart DEF Init
<1>2. ReadInv /\ [Next]_vars => ReadInv'
  <2> SUFFICES ASSUME ReadInv, [Next]_vars PROVE ReadInv'
    OBVIOUS
  <2>1. SlackNext \/ UNCHANGED slackVars
    BY DEF Next, vars
  <2> QED BY <2>1, ReadsStep
<1> QED BY <1>1, <1>2, PTL DEF Spec

\* What an agent reads of a channel, page by page, holds every message once and counts
\* every reply, or says that it is partial, whatever is written between the pages.
THEOREM ReadsAlwaysAddUp == Spec => []ReadsAddUp
<1>1. ReadInv => ReadsAddUp
  BY AddsUp
<1> QED BY <1>1, ReadsHold, PTL

=============================================================================
