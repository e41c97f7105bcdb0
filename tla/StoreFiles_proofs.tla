------------------------- MODULE StoreFiles_proofs --------------------------
(***************************************************************************)
(* Proofs about what a trace store's processes do to its files: EventsFile *)
(* for every number of processes, of pieces in a line and of lines, over   *)
(* refused writes, crashes and restarts; and StoreLocks for any processes, *)
(* runs and bodies, where two locks keep a run in use from being deleted,  *)
(* every line its body and two serves apart.                               *)
(***************************************************************************)
EXTENDS EventsFile, StoreLocks, FiniteSetTheorems, SequenceTheorems, WellFoundedInduction, TLAPS

-----------------------------------------------------------------------------
(* One events.jsonl. *)

(* The inductive invariant, part by part. *)

\* One process at a time has the file open.
Alone == \A p, q \in Procs : pc[p] # "off" /\ pc[q] # "off" => p = q

\* A piece follows its line's others, and they the end of another line: the piece
\* at i is the last of f[i].part.
Laid(f) ==
    \A i \in 1..Len(f) :
        /\ f[i].part \in 1..i
        /\ f[i].part = i \/ f[i - f[i].part].part = Parts
        /\ \A j \in 1..f[i].part : f[i - f[i].part + j] = Piece(f[i].line, j)

\* After whole lines, f has the first d pieces of l and nothing else.
Pending(f, l, d) ==
    /\ d <= Len(f)
    /\ d = Len(f) \/ f[Len(f) - d].part = Parts
    /\ \A j \in 1..d : f[Len(f) - d + j] = Piece(l, j)

\* The lines that end in f, and those up to one of them.
Count(f) == Cardinality(Newlines(f))
UpTo(f, i) == {j \in Newlines(f) : j <= i}
Numbered(f) == \A i \in Newlines(f) : f[i].line.seq = Cardinality(UpTo(f, i))

\* What the file's one user knows of it at each place.
Knows(p) ==
    /\ pc[p] \in {"sized", "read"} => size[p] = Len(file)
    /\ pc[p] = "read" => whole[p] = Complete(file)
    /\ pc[p] \in {"read", "idle"} => nextSeq[p] = Count(file) + 1
    /\ pc[p] = "idle" => Pending(file, NoLine, 0)
    /\ pc[p] \in {"writing", "cutting"} =>
          /\ Pending(file, line[p], done[p])
          /\ done[p] > 0 => start[p] = Len(file) - done[p] /\ end[p] = Len(file)
          /\ line[p].seq = nextSeq[p]
          /\ nextSeq[p] = IF done[p] = Parts THEN Count(file) ELSE Count(file) + 1
    /\ pc[p] = "cutting" => done[p] > 0 /\ done[p] < Parts
KnowInv == \A p \in Procs : Knows(p)

\* Each line whose append returned ends in f.
KeptInv == \A l \in kept : \E i \in Newlines(file) : file[i].line = l

FileInv ==
    /\ TypeOK /\ Alone /\ Laid(file) /\ Numbered(file) /\ KnowInv /\ KeptInv

-----------------------------------------------------------------------------
(* Lemmas about the pieces of a file. *)

PieceSet == [line : Lines, part : 0..Parts]

\* A hole and the pieces of a line are pieces.
LEMMA PieceFacts ==
    /\ Parts \in Nat /\ Parts > 0 /\ Hole \in PieceSet /\ NoLine \in Lines
    /\ \A l \in Lines : \A i \in 0..Parts : Piece(l, i) \in PieceSet
    /\ \A l, i : Piece(l, i).line = l /\ Piece(l, i).part = i
<1>1. Parts \in Nat /\ Parts > 0 /\ MaxLines \in Nat
  BY FileAssumption
<1>2. NoLine \in Lines
  BY <1>1 DEF NoLine, Lines
<1> QED BY <1>1, <1>2 DEF Hole, Piece, PieceSet

\* The lines that end in a file can be counted.
LEMMA NewlineFacts ==
    ASSUME NEW f \in Seq(PieceSet)
    PROVE  /\ Len(f) \in Nat /\ DOMAIN f = 1..Len(f)
           /\ \A i \in 1..Len(f) : f[i] \in PieceSet
           /\ Newlines(f) \subseteq 1..Len(f) /\ Newlines(f) \subseteq Nat
           /\ \A i \in 1..Len(f) : i \in Newlines(f) <=> f[i].part = Parts
           /\ IsFiniteSet(Newlines(f)) /\ Count(f) \in Nat
           /\ \A i : IsFiniteSet(UpTo(f, i)) /\ Cardinality(UpTo(f, i)) \in Nat
<1>1. Len(f) \in Nat /\ DOMAIN f = 1..Len(f)
  BY LenProperties
<1>2. \A i \in 1..Len(f) : f[i] \in PieceSet
  BY ElementOfSeq
<1>3. Newlines(f) \subseteq 1..Len(f) /\ Newlines(f) \subseteq Nat
  BY <1>1 DEF Newlines
<1>4. IsFiniteSet(Newlines(f))
  <2>1. IsFiniteSet(1..Len(f))
    BY <1>1, FS_Interval
  <2> QED BY <1>3, <2>1, FS_Subset
<1>5. ASSUME NEW i PROVE IsFiniteSet(UpTo(f, i)) /\ Cardinality(UpTo(f, i)) \in Nat
  <2>1. UpTo(f, i) \in SUBSET Newlines(f)
    BY DEF UpTo
  <2> QED BY <1>4, <2>1, FS_Subset, FS_CardinalityType
<1> QED BY <1>1, <1>2, <1>3, <1>4, <1>5, FS_CardinalityType DEF Newlines, Count

\* A file that is cut off keeps what is before.
LEMMA TruncatedFacts ==
    ASSUME NEW f \in Seq(PieceSet), NEW n \in Nat
    PROVE  /\ Truncated(f, n) \in Seq(PieceSet) /\ Len(Truncated(f, n)) = n
           /\ \A i \in 1..n : i <= Len(f) => Truncated(f, n)[i] = f[i]
<1>1. \A i \in 1..n : (IF i <= Len(f) THEN f[i] ELSE Hole) \in PieceSet
  BY NewlineFacts, PieceFacts
<1>2. Truncated(f, n) \in [1..n -> PieceSet]
  BY <1>1 DEF Truncated
<1>3. Truncated(f, n) \in Seq(PieceSet)
  BY <1>2, SeqDef
<1>4. DOMAIN Truncated(f, n) = 1..n /\ DOMAIN Truncated(f, n) = 1..Len(Truncated(f, n))
      /\ Len(Truncated(f, n)) \in Nat
  BY <1>2, <1>3, LenProperties
<1>5. Len(Truncated(f, n)) = n
  BY <1>4
<1> QED BY <1>3, <1>5 DEF Truncated

\* The lines of the first n pieces.
LEMMA PrefixFacts ==
    ASSUME NEW f \in Seq(PieceSet), NEW g \in Seq(PieceSet), Len(g) <= Len(f),
           \A i \in 1..Len(g) : g[i] = f[i]
    PROVE  /\ Newlines(g) = {i \in Newlines(f) : i <= Len(g)}
           /\ \A i \in Newlines(g) : UpTo(g, i) = UpTo(f, i)
           /\ Laid(f) => Laid(g)
           /\ Numbered(f) => Numbered(g)
<1>1. /\ Len(f) \in Nat /\ Len(g) \in Nat
      /\ \A i \in 1..Len(g) : i \in 1..Len(f)
  BY NewlineFacts
<1>2. Newlines(g) = {i \in Newlines(f) : i <= Len(g)}
  BY <1>1, NewlineFacts
<1>3. \A i \in Newlines(g) : UpTo(g, i) = UpTo(f, i)
  <2> SUFFICES ASSUME NEW i \in Newlines(g), NEW j PROVE j \in UpTo(g, i) <=> j \in UpTo(f, i)
    OBVIOUS
  <2>1. i \in Nat /\ i <= Len(g)
    BY <1>1, NewlineFacts
  <2>2. j \in Newlines(f) => j \in Nat
    BY NewlineFacts
  <2> QED BY <1>1, <1>2, <2>1, <2>2 DEF UpTo
<1>4. ASSUME Laid(f) PROVE Laid(g)
  <2> SUFFICES ASSUME NEW i \in 1..Len(g)
               PROVE  /\ g[i].part \in 1..i
                      /\ g[i].part = i \/ g[i - g[i].part].part = Parts
                      /\ \A j \in 1..g[i].part : g[i - g[i].part + j] = Piece(g[i].line, j)
    BY DEF Laid
  <2>1. i \in 1..Len(f) /\ g[i] = f[i]
    BY <1>1
  <2>2. /\ f[i].part \in 1..i
        /\ f[i].part = i \/ f[i - f[i].part].part = Parts
        /\ \A j \in 1..f[i].part : f[i - f[i].part + j] = Piece(f[i].line, j)
    BY <1>4, <2>1 DEF Laid
  <2>3. f[i].part # i => g[i - f[i].part] = f[i - f[i].part]
    <3>1. f[i].part # i => i - f[i].part \in 1..Len(g)
      BY <1>1, <2>2
    <3> QED BY <3>1
  <2>4. \A j \in 1..f[i].part : g[i - f[i].part + j] = f[i - f[i].part + j]
    <3>1. \A k \in 1..i : \A j \in 1..k : i - k + j \in 1..Len(g)
      BY <1>1
    <3> QED BY <2>2, <3>1
  <2> QED BY <2>1, <2>2, <2>3, <2>4
<1>5. ASSUME Numbered(f) PROVE Numbered(g)
  <2>1. \A i \in Newlines(g) : i \in Newlines(f) /\ i \in 1..Len(g)
    BY <1>2, NewlineFacts
  <2> QED BY <1>3, <1>5, <2>1 DEF Numbered
<1> QED BY <1>2, <1>3, <1>4, <1>5

\* What an os.write appends.
LEMMA PiecesFacts ==
    ASSUME NEW l \in Lines, NEW d \in Nat, NEW n \in 1..(Parts - d)
    PROVE  /\ Pieces(l, d + 1, d + n) \in Seq(PieceSet) /\ Len(Pieces(l, d + 1, d + n)) = n
           /\ \A j \in 1..n : Pieces(l, d + 1, d + n)[j] = Piece(l, d + j)
<1> DEFINE s == Pieces(l, d + 1, d + n)
<1>1. n \in Nat /\ (d + n) - (d + 1) + 1 = n /\ \A j \in 1..n : (d + 1) + j - 1 = d + j
  BY PieceFacts
<1>2. s = [j \in 1..n |-> Piece(l, d + j)]
  BY <1>1 DEF Pieces
<1>3. \A j \in 1..n : Piece(l, d + j) \in PieceSet
  BY PieceFacts
<1>4. s \in [1..n -> PieceSet]
  BY <1>2, <1>3
<1>5. s \in Seq(PieceSet)
  BY <1>1, <1>4, SeqDef
<1>6. DOMAIN s = 1..n /\ DOMAIN s = 1..Len(s) /\ Len(s) \in Nat
  BY <1>4, <1>5, LenProperties
<1>7. Len(s) = n
  BY <1>1, <1>6
<1> QED BY <1>2, <1>5, <1>7

\* g is f, which ends in the first d pieces of l, and the next n.
Extends(f, g, l, b, d, n) ==
    /\ f \in Seq(PieceSet) /\ g \in Seq(PieceSet) /\ l \in Lines
    /\ b \in Nat /\ d \in Nat /\ n \in Nat /\ n > 0 /\ d + n <= Parts
    /\ Len(f) = b + d /\ Len(g) = b + d + n
    /\ \A i \in 1..(b + d) : g[i] = f[i]
    /\ \A j \in 1..n : g[b + d + j] = Piece(l, d + j)
    /\ Laid(f) /\ Pending(f, l, d)

\* A write of a line's next pieces leaves the file laid as it was, and ends one
\* more line if they are its last.
LEMMA ExtendFacts ==
    ASSUME NEW f, NEW g, NEW l, NEW b, NEW d, NEW n, Extends(f, g, l, b, d, n)
    PROVE  /\ Laid(g) /\ Pending(g, l, d + n)
           /\ Newlines(g) = IF d + n = Parts THEN Newlines(f) \cup {b + d + n} ELSE Newlines(f)
           /\ d + n = Parts => g[b + d + n] = Piece(l, Parts)
<1>0. /\ f \in Seq(PieceSet) /\ g \in Seq(PieceSet) /\ l \in Lines
      /\ b \in Nat /\ d \in Nat /\ n \in Nat /\ n > 0 /\ d + n <= Parts
      /\ Len(f) = b + d /\ Len(g) = b + d + n
      /\ \A i \in 1..(b + d) : g[i] = f[i]
      /\ \A j \in 1..n : g[b + d + j] = Piece(l, d + j)
      /\ Laid(f) /\ Pending(f, l, d)
  BY DEF Extends
<1> USE <1>0
<1>1. Parts \in Nat /\ Len(f) - d = b /\ Len(g) - (d + n) = b
  BY PieceFacts
<1>2. b = 0 \/ (b \in 1..(b + d) /\ g[b].part = Parts)
  <2>1. b = 0 \/ f[b].part = Parts
    BY <1>1 DEF Pending
  <2>2. b = 0 \/ b \in 1..(b + d)
    OBVIOUS
  <2> QED BY <2>1, <2>2
<1>3. ASSUME NEW j \in 1..(d + n) PROVE g[b + j] = Piece(l, j)
  <2>1. CASE j <= d
    <3>1. j \in 1..d /\ b + j \in 1..(b + d)
      BY <2>1
    <3>2. f[b + j] = Piece(l, j)
      BY <1>1, <3>1 DEF Pending
    <3> QED BY <3>1, <3>2
  <2>2. CASE j > d
    <3>1. j - d \in 1..n /\ b + j = b + d + (j - d) /\ d + (j - d) = j
      BY <2>2
    <3>2. g[b + d + (j - d)] = Piece(l, d + (j - d))
      BY <3>1
    <3> QED BY <3>1, <3>2
  <2> QED BY <2>1, <2>2
<1>4. Pending(g, l, d + n)
  <2>1. d + n <= Len(g) /\ (b = 0 => d + n = Len(g))
    OBVIOUS
  <2>2. d + n = Len(g) \/ g[Len(g) - (d + n)].part = Parts
    BY <1>1, <1>2, <2>1
  <2>3. \A j \in 1..(d + n) : g[Len(g) - (d + n) + j] = Piece(l, j)
    BY <1>1, <1>3
  <2> QED BY <2>1, <2>2, <2>3 DEF Pending
<1>5. ASSUME NEW i \in 1..(b + d)
      PROVE  /\ g[i].part \in 1..i
             /\ g[i].part = i \/ g[i - g[i].part].part = Parts
             /\ \A j \in 1..g[i].part : g[i - g[i].part + j] = Piece(g[i].line, j)
  <2>1. /\ f[i].part \in 1..i
        /\ f[i].part = i \/ f[i - f[i].part].part = Parts
        /\ \A j \in 1..f[i].part : f[i - f[i].part + j] = Piece(f[i].line, j)
    BY DEF Laid
  <2>2. /\ \A k \in 1..i : k # i => i - k \in 1..(b + d)
        /\ \A k \in 1..i : \A j \in 1..k : i - k + j \in 1..(b + d)
    OBVIOUS
  <2>3. f[i].part # i => g[i - f[i].part] = f[i - f[i].part]
    BY <2>1, <2>2
  <2>4. \A j \in 1..f[i].part : g[i - f[i].part + j] = f[i - f[i].part + j]
    BY <2>1, <2>2
  <2>5. g[i] = f[i]
    OBVIOUS
  <2> QED BY <2>1, <2>3, <2>4, <2>5
<1>6. ASSUME NEW i \in 1..(b + d + n), i > b + d
      PROVE  /\ g[i].part \in 1..i
             /\ g[i].part = i \/ g[i - g[i].part].part = Parts
             /\ \A j \in 1..g[i].part : g[i - g[i].part + j] = Piece(g[i].line, j)
  <2>1. /\ i - b \in 1..(d + n) /\ b + (i - b) = i /\ i - (i - b) = b
        /\ i - b \in 1..i /\ (b = 0 => i - b = i)
    BY <1>6
  <2>2. g[i] = Piece(l, i - b)
    BY <1>3, <2>1
  <2>3. g[i].part = i - b /\ g[i].line = l
    BY <2>2, PieceFacts
  <2>4. i - b = i \/ g[b].part = Parts
    BY <1>2, <2>1
  <2>5. \A j \in 1..(i - b) : j \in 1..(d + n)
    BY <2>1
  <2>6. \A j \in 1..(i - b) : g[b + j] = Piece(l, j)
    BY <1>3, <2>5
  <2> QED BY <2>1, <2>3, <2>4, <2>6
<1>7. Laid(g)
  <2>1. \A i \in 1..Len(g) : i \in 1..(b + d) \/ (i \in 1..(b + d + n) /\ i > b + d)
    OBVIOUS
  <2> QED BY <1>5, <1>6, <2>1 DEF Laid
<1>8. \A i \in 1..(b + d + n) :
         g[i].part = Parts <=> (i \in 1..(b + d) /\ f[i].part = Parts) \/ (d + n = Parts /\ i = b + d + n)
  <2> TAKE i \in 1..(b + d + n)
  <2>1. CASE i \in 1..(b + d)
    <3>1. g[i] = f[i] /\ i # b + d + n
      BY <2>1
    <3> QED BY <2>1, <3>1
  <2>2. CASE i \notin 1..(b + d)
    <3>1. i - b \in 1..(d + n) /\ b + (i - b) = i
      BY <2>2
    <3>2. g[i].part = i - b
      BY <1>3, <3>1, PieceFacts
    <3>3. i - b = Parts <=> (d + n = Parts /\ i = b + d + n)
      <4>1. /\ b \in Nat /\ d \in Nat /\ n \in Nat /\ Parts \in Nat /\ d + n <= Parts
            /\ i \in Nat /\ i <= b + d + n
        BY <1>1
      <4> QED BY ONLY <4>1
    <3> QED BY <2>2, <3>2, <3>3
  <2> QED BY <2>1, <2>2
<1>9. /\ Newlines(f) = {i \in 1..(b + d) : f[i].part = Parts}
      /\ Newlines(g) = {i \in 1..(b + d + n) : g[i].part = Parts}
  BY NewlineFacts DEF Newlines
<1>10. Newlines(g) = IF d + n = Parts THEN Newlines(f) \cup {b + d + n} ELSE Newlines(f)
  <2>1. b + d + n \in 1..(b + d + n) /\ \A i \in 1..(b + d) : i \in 1..(b + d + n)
    <3>1. b \in Nat /\ d \in Nat /\ n \in Nat /\ n # 0
      BY <1>1
    <3> QED BY ONLY <3>1
  <2> QED BY <1>8, <1>9, <2>1
<1>11. d + n = Parts => g[b + d + n] = Piece(l, Parts)
  <2>1. n \in 1..n
    OBVIOUS
  <2> QED BY <2>1
<1> QED BY <1>4, <1>7, <1>10, <1>11

\* What os.write does to the file.
LEMMA WriteFacts ==
    ASSUME NEW f \in Seq(PieceSet), NEW l \in Lines, NEW d \in Nat, NEW n \in 1..(Parts - d)
    PROVE  /\ f \o Pieces(l, d + 1, d + n) \in Seq(PieceSet)
           /\ Len(f \o Pieces(l, d + 1, d + n)) = Len(f) + n
           /\ \A i \in 1..Len(f) : (f \o Pieces(l, d + 1, d + n))[i] = f[i]
           /\ \A j \in 1..n : (f \o Pieces(l, d + 1, d + n))[Len(f) + j] = Piece(l, d + j)
<1>1. PICK s : s = Pieces(l, d + 1, d + n)
  OBVIOUS
<1>2. s \in Seq(PieceSet) /\ Len(s) = n /\ \A j \in 1..n : s[j] = Piece(l, d + j)
  BY <1>1, PiecesFacts
<1>3. PICK g : g = f \o s
  OBVIOUS
<1>4. /\ g \in Seq(PieceSet) /\ Len(g) = Len(f) + Len(s)
      /\ \A i \in 1..(Len(f) + Len(s)) : g[i] = IF i <= Len(f) THEN f[i] ELSE s[i - Len(f)]
  BY ONLY <1>2, <1>3, ConcatProperties, f \in Seq(PieceSet)
<1>5. PICK m \in Nat : m = Len(f)
  BY NewlineFacts
<1>6. n \in Nat
  BY PieceFacts
<1>7. \A i \in 1..m : i \in 1..(m + n) /\ i <= m
  BY <1>6
<1>8. \A j \in 1..n : m + j \in 1..(m + n) /\ ~(m + j <= m) /\ m + j - m = j
  BY <1>6
<1>9. \A i \in 1..m : g[i] = f[i]
  BY <1>2, <1>4, <1>5, <1>7
<1>10. \A j \in 1..n : g[m + j] = Piece(l, d + j)
  <2> TAKE j \in 1..n
  <2>1. m + j \in 1..(m + n) /\ ~(m + j <= m) /\ m + j - m = j
    BY ONLY <1>8, j \in 1..n
  <2>2. \A i \in 1..(m + n) : g[i] = IF i <= m THEN f[i] ELSE s[i - m]
    BY ONLY <1>2, <1>4, <1>5
  <2>3. g[m + j] = s[j]
    BY ONLY <2>1, <2>2
  <2>4. s[j] = Piece(l, d + j)
    BY ONLY <1>2, j \in 1..n
  <2> QED BY ONLY <2>3, <2>4
<1> QED BY <1>1, <1>2, <1>3, <1>4, <1>5, <1>9, <1>10

\* One line more is numbered next.
LEMMA CountFacts ==
    ASSUME NEW f \in Seq(PieceSet), NEW g \in Seq(PieceSet), Len(f) < Len(g),
           \A i \in 1..Len(f) : g[i] = f[i],
           Newlines(g) = Newlines(f) \cup {Len(g)}, Numbered(f)
    PROVE  /\ Count(g) = Count(f) + 1
           /\ g[Len(g)].line.seq = Count(f) + 1 => Numbered(g)
<1>1. /\ Len(f) \in Nat /\ Len(g) \in Nat
      /\ \A i \in Newlines(f) : i \in Nat /\ i <= Len(f) /\ i \in 1..Len(f) /\ i < Len(g)
  BY NewlineFacts
<1>2. Len(g) \notin Newlines(f)
  BY <1>1
<1>3. Count(g) = Count(f) + 1
  BY <1>2, NewlineFacts, FS_AddElement DEF Count
<1>4. \A i \in Newlines(f) : UpTo(g, i) = UpTo(f, i)
  <2> SUFFICES ASSUME NEW i \in Newlines(f) PROVE \A j \in Newlines(g) : j <= i => j \in Newlines(f)
    BY DEF UpTo
  <2>1. ~(Len(g) <= i)
    BY <1>1
  <2> QED BY <2>1
<1>5. UpTo(g, Len(g)) = Newlines(g)
  <2>1. \A j \in Newlines(g) : j <= Len(g)
    BY <1>1
  <2> QED BY <2>1 DEF UpTo
<1>6. ASSUME g[Len(g)].line.seq = Count(f) + 1, NEW i \in Newlines(g)
      PROVE  g[i].line.seq = Cardinality(UpTo(g, i))
  <2>1. CASE i \in Newlines(f)
    BY <1>1, <1>4, <2>1 DEF Numbered
  <2>2. CASE i = Len(g)
    BY <1>3, <1>5, <1>6, <2>2 DEF Count
  <2> QED BY <2>1, <2>2
<1> QED BY <1>3, <1>6 DEF Numbered

\* In a file that is laid as a run's own, every newline ends a line that parses.
LEMMA AllParse ==
    ASSUME NEW f \in Seq(PieceSet), Laid(f)
    PROVE  Parsed(f) = Newlines(f)
<1> SUFFICES ASSUME NEW i \in Newlines(f) PROVE Parses(f, i)
  BY DEF Parsed
<1>0. Parts \in Nat /\ Parts > 0 /\ Len(f) \in Nat
  BY PieceFacts, NewlineFacts
<1>1. i \in 1..Len(f) /\ f[i].part = Parts /\ f[i].line \in Lines
  <2>1. i \in 1..Len(f) /\ f[i].part = Parts /\ f[i] \in PieceSet
    BY NewlineFacts
  <2> QED BY <2>1 DEF PieceSet
<1>2. /\ Parts \in 1..i /\ (Parts = i \/ f[i - Parts].part = Parts)
      /\ \A j \in 1..Parts : f[i - Parts + j] = Piece(f[i].line, j)
  BY <1>1 DEF Laid
<1>3. PICK b \in Nat : b = i - Parts
  BY <1>0, <1>1, <1>2
<1>4. i = b + Parts /\ i - Parts + 1 = b + 1
  BY <1>0, <1>1, <1>3
<1>5. PICK s : s = SubSeq(f, b + 1, i)
  OBVIOUS
<1>6. \A k \in (b + 1)..i : f[k] \in PieceSet
  <2>1. \A k \in (b + 1)..i : k \in 1..Len(f)
    BY <1>0, <1>1
  <2> QED BY <2>1, NewlineFacts
<1>7. /\ s \in Seq(PieceSet) /\ Len(s) = Parts
      /\ \A j \in 1..Parts : s[j] = f[b + 1 + j - 1]
  <2>1. b + 1 \in Int /\ i \in Int /\ b + 1 <= i /\ i - (b + 1) + 1 = Parts
    BY <1>0, <1>1, <1>4
  <2> QED BY <1>5, <1>6, <2>1, SubSeqProperties
<1>8. PICK t : t = Pieces(f[i].line, 0 + 1, 0 + Parts)
  OBVIOUS
<1>9. t \in Seq(PieceSet) /\ Len(t) = Parts /\ \A j \in 1..Parts : t[j] = Piece(f[i].line, 0 + j)
  <2>1. Parts \in 1..(Parts - 0) /\ 0 \in Nat
    BY <1>0
  <2> QED BY <1>1, <1>8, <2>1, PiecesFacts
<1>10. \A j \in 1..Parts : s[j] = t[j]
  <2> TAKE j \in 1..Parts
  <2>1. b + 1 + j - 1 = i - Parts + j /\ 0 + j = j
    BY <1>0, <1>1, <1>3
  <2> QED BY <1>2, <1>7, <1>9, <2>1
<1>11. s = t
  BY ONLY <1>7, <1>9, <1>10, SeqEqual
<1>12. SubSeq(f, i - Parts + 1, i) = Pieces(f[i].line, 1, Parts)
  BY <1>0, <1>4, <1>5, <1>8, <1>11
<1>13. i >= Parts /\ (i = Parts \/ f[i - Parts].part = Parts)
  BY <1>0, <1>1, <1>2
<1> QED BY <1>12, <1>13 DEF Parses

\* A bounded set of numbers that is not empty has a greatest one.
LEMMA GreatestExists ==
    ASSUME NEW S, S \subseteq Nat, S # {}, NEW n \in Nat, \A i \in S : i <= n
    PROVE  \E e \in S : \A j \in S : j <= e
<1> DEFINE Bounds == {k \in Nat : \A j \in S : j <= k}
<1>1. Bounds \subseteq Nat /\ Bounds # {}
  OBVIOUS
<1>2. PICK e \in Bounds : \A k \in Bounds : ~ (<<k, e>> \in OpToRel(<, Nat))
  BY <1>1, NatLessThanWellFounded, WFMin
<1>3. ASSUME NEW k \in Bounds, k < e PROVE FALSE
  <2>1. <<k, e>> \in OpToRel(<, Nat)
    BY <1>3 DEF OpToRel
  <2> QED BY <1>2, <2>1
<1>4. e \in S
  <2> SUFFICES ASSUME e \notin S PROVE FALSE
    OBVIOUS
  <2>1. e \in Nat /\ \A j \in S : j \in Nat /\ j <= e /\ j # e
    OBVIOUS
  <2>2. PICK j \in S : j \in Nat /\ j <= e /\ j # e
    BY <2>1
  <2>3. e - 1 \in Nat /\ e - 1 < e
    BY <2>1, <2>2
  <2>4. \A m \in Nat : m <= e /\ m # e => m <= e - 1
    BY <2>1
  <2>5. \A m \in S : m <= e - 1
    BY <2>1, <2>4
  <2> QED BY <1>3, <2>3, <2>5
<1> QED BY <1>4

\* The last newline ends the whole lines; whatever follows it is a torn line.
LEMMA CompleteFacts ==
    ASSUME NEW f \in Seq(PieceSet)
    PROVE  /\ Complete(f) \in Nat /\ Complete(f) <= Len(f)
           /\ \A j \in Newlines(f) : j <= Complete(f)
           /\ IF Newlines(f) = {} THEN Complete(f) = 0 ELSE Complete(f) \in Newlines(f)
<1>1. Len(f) \in Nat /\ \A i \in Newlines(f) : i \in Nat /\ i <= Len(f)
  BY NewlineFacts
<1>2. CASE Newlines(f) = {}
  BY <1>1, <1>2 DEF Complete
<1>3. CASE Newlines(f) # {}
  <2>1. \E e \in Newlines(f) : \A j \in Newlines(f) : j <= e
    BY <1>1, <1>3, NewlineFacts, GreatestExists
  <2>2. Complete(f) \in Newlines(f) /\ \A j \in Newlines(f) : j <= Complete(f)
    BY <1>3, <2>1 DEF Complete
  <2> QED BY <1>1, <1>3, <2>2
<1> QED BY <1>2, <1>3

\* A seq that is read is one.
LEMMA LastSeqType ==
    ASSUME NEW f \in Seq(PieceSet)
    PROVE  LastSeq(f) \in Nat
<1>1. Len(f) \in Nat /\ Parsed(f) \subseteq Nat /\ \A i \in Parsed(f) : i \in 1..Len(f)
  BY NewlineFacts DEF Parsed
<1>2. CASE Parsed(f) = {}
  BY <1>2 DEF LastSeq
<1>3. CASE Parsed(f) # {}
  <2>1. \A i \in Parsed(f) : i <= Len(f)
    BY <1>1
  <2>2. \E e \in Parsed(f) : \A j \in Parsed(f) : j <= e
    BY <1>1, <1>3, <2>1, GreatestExists
  <2>3. PICK e \in Parsed(f) : LastSeq(f) = f[e].line.seq
    BY <1>3, <2>2 DEF LastSeq
  <2>4. f[e] \in PieceSet
    BY <1>1, <2>3, NewlineFacts
  <2> QED BY <2>3, <2>4 DEF PieceSet, Lines
<1> QED BY <1>2, <1>3

\* The last seq is the number of lines.
LEMMA LastSeqFacts ==
    ASSUME NEW f \in Seq(PieceSet), Laid(f), Numbered(f)
    PROVE  LastSeq(f) = Count(f)
<1>1. Parsed(f) = Newlines(f)
  BY AllParse
<1>2. CASE Newlines(f) = {}
  BY <1>1, <1>2, FS_EmptySet DEF LastSeq, Count
<1>3. CASE Newlines(f) # {}
  <2>1. LastSeq(f) = f[Complete(f)].line.seq
    BY <1>1, <1>3 DEF LastSeq, Complete
  <2>2. Complete(f) \in Newlines(f) /\ \A j \in Newlines(f) : j <= Complete(f)
    BY <1>3, CompleteFacts
  <2>3. UpTo(f, Complete(f)) = Newlines(f)
    BY <2>2 DEF UpTo
  <2> QED BY <2>1, <2>2, <2>3 DEF Numbered, Count
<1> QED BY <1>2, <1>3


\* A file that is cut after its whole lines, or after some of a torn one, keeps them.
LEMMA CutFacts ==
    ASSUME NEW f \in Seq(PieceSet), NEW n \in Nat, n <= Len(f), Laid(f), Numbered(f),
           \A j \in Newlines(f) : j <= n, n = 0 \/ n \in Newlines(f)
    PROVE  /\ Truncated(f, n) \in Seq(PieceSet)
           /\ Laid(Truncated(f, n)) /\ Numbered(Truncated(f, n))
           /\ Newlines(Truncated(f, n)) = Newlines(f)
           /\ \A i \in Newlines(f) : Truncated(f, n)[i] = f[i]
           /\ \A l : Pending(Truncated(f, n), l, 0)
<1>1. PICK g : g = Truncated(f, n)
  OBVIOUS
<1>2. g \in Seq(PieceSet) /\ Len(g) = n /\ \A i \in 1..n : i <= Len(f) => g[i] = f[i]
  BY <1>1, TruncatedFacts
<1>3. /\ Len(f) \in Nat /\ \A i \in 1..n : i <= Len(f)
      /\ \A i \in Newlines(f) : i \in 1..n
  BY NewlineFacts
<1>4. /\ Newlines(g) = {i \in Newlines(f) : i <= n} /\ Laid(g) /\ Numbered(g)
  BY <1>2, <1>3, PrefixFacts
<1>5. Newlines(g) = Newlines(f) /\ \A i \in Newlines(f) : g[i] = f[i]
  BY <1>2, <1>3, <1>4
<1>6. ASSUME NEW l PROVE Pending(g, l, 0)
  <2>1. n = 0 \/ g[n].part = Parts
    BY <1>2, <1>5, NewlineFacts
  <2>2. 0 <= n /\ n - 0 = n /\ 1..0 = {}
    OBVIOUS
  <2> QED BY <1>2, <2>1, <2>2 DEF Pending
<1> QED BY <1>1, <1>2, <1>4, <1>5, <1>6

\* What is before a torn line is whole lines.
LEMMA TornFacts ==
    ASSUME NEW f \in Seq(PieceSet), NEW l, NEW d \in Nat, d < Parts, Pending(f, l, d)
    PROVE  /\ Len(f) - d \in Nat /\ Len(f) - d <= Len(f)
           /\ \A j \in Newlines(f) : j <= Len(f) - d
           /\ Len(f) - d = 0 \/ Len(f) - d \in Newlines(f)
<1>1. Len(f) \in Nat /\ d <= Len(f) /\ Parts \in Nat
  BY NewlineFacts, PieceFacts DEF Pending
<1>2. PICK b \in Nat : b = Len(f) - d
  <2>1. Len(f) - d \in Nat
    BY <1>1
  <2> QED BY <2>1
<1>3. ASSUME NEW j \in Newlines(f), ~(j <= b) PROVE FALSE
  <2>1. j \in 1..Len(f) /\ f[j].part = Parts
    BY NewlineFacts
  <2>2. j - b \in 1..d /\ b + (j - b) = j
    BY <1>1, <1>2, <1>3, <2>1
  <2>3. f[j] = Piece(l, j - b)
    BY <1>2, <2>2 DEF Pending
  <2>4. j - b # Parts
    BY <1>1, <2>2
  <2> QED BY <2>1, <2>3, <2>4, PieceFacts
<1>4. b = 0 \/ b \in Newlines(f)
  <2>1. d = Len(f) => b = 0
    BY <1>1, <1>2
  <2>2. b = 0 \/ b \in 1..Len(f)
    BY <1>1, <1>2
  <2>3. b = 0 \/ f[b].part = Parts
    BY <1>2, <2>1 DEF Pending
  <2> QED BY <2>2, <2>3, NewlineFacts
<1> QED BY <1>1, <1>2, <1>3, <1>4

-----------------------------------------------------------------------------
(* The types, for shared files too. *)

\* What a process writes for a line's place in the file.
LEMMA PlaceType ==
    ASSUME NEW p \in Procs, NEW place \in Places, pc \in [Procs -> Places], Go(p, place)
    PROVE  pc' \in [Procs -> Places] /\ pc'[p] = place
BY DEF Go

\* The two calls that read.
LEMMA ReadTypes ==
    ASSUME TypeOK, NEW p \in Procs, Open(p) \/ ReadTail(p)
    PROVE  TypeOK'
<1> USE DEF resumeVars, appendVars
<1>1. file \in Seq(PieceSet) /\ Len(file) \in Nat
  BY NewlineFacts DEF TypeOK, PieceSet
<1>2. CASE Open(p)
  <2>1. pc' \in [Procs -> Places]
    BY <1>2, PlaceType DEF Open, TypeOK, Places
  <2>2. size' \in [Procs -> Nat] /\ opens' \in 0..MaxOpens
    BY <1>1, <1>2, FileAssumption DEF Open, TypeOK
  <2> QED BY <1>2, <2>1, <2>2 DEF Open, TypeOK
<1>3. CASE ReadTail(p)
  <2>1. pc' \in [Procs -> Places]
    BY <1>3, PlaceType DEF ReadTail, TypeOK, Places
  <2>2. LastSeq(file) + 1 \in Nat \ {0} /\ Complete(file) \in Nat
    BY <1>1, LastSeqType, CompleteFacts
  <2>3. nextSeq' \in [Procs -> Nat \ {0}] /\ whole' \in [Procs -> Nat]
    BY <1>3, <2>2 DEF ReadTail, TypeOK
  <2> QED BY <1>3, <2>1, <2>3 DEF ReadTail, TypeOK
<1> QED BY <1>2, <1>3

\* The calls that change the file.
LEMMA FileTypes ==
    ASSUME TypeOK, NEW p \in Procs, CutTorn(p) \/ Write(p) \/ Cut(p)
    PROVE  TypeOK'
<1> USE DEF resumeVars, appendVars
<1>1. file \in Seq(PieceSet) /\ Len(file) \in Nat
  BY NewlineFacts DEF TypeOK, PieceSet
<1>2. CASE CutTorn(p)
  <2>1. pc' \in [Procs -> Places]
    BY <1>2, PlaceType DEF CutTorn, TypeOK, Places
  <2>2. whole[p] \in Nat
    BY DEF TypeOK
  <2>3. file' \in Seq(PieceSet)
    BY <1>1, <1>2, <2>2, TruncatedFacts DEF CutTorn
  <2> QED BY <1>2, <2>1, <2>3 DEF CutTorn, TypeOK, PieceSet
<1>3. CASE Write(p)
  <2>1. line[p] \in Lines /\ done[p] \in 0..Parts /\ done[p] \in Nat
    BY FileAssumption DEF TypeOK
  <2>2. PICK n \in 1..(Parts - done[p]) :
           /\ file' = file \o Pieces(line[p], done[p] + 1, done[p] + n)
           /\ end' = [end EXCEPT ![p] = Len(file) + n]
           /\ start' = IF done[p] = 0 THEN [start EXCEPT ![p] = Len(file)] ELSE start
           /\ done' = [done EXCEPT ![p] = @ + n]
    BY <1>3 DEF Write
  <2>3. file' \in Seq(PieceSet)
    BY <1>1, <2>1, <2>2, WriteFacts
  <2>4. done[p] + n \in 0..Parts /\ Len(file) + n \in Nat
    BY <1>1, <2>1, FileAssumption
  <2>5. done' \in [Procs -> 0..Parts]
    BY <2>2, <2>4 DEF TypeOK
  <2>6. start' \in [Procs -> Nat] /\ end' \in [Procs -> Nat]
    BY <1>1, <2>2, <2>4 DEF TypeOK
  <2> QED BY <1>3, <2>3, <2>5, <2>6 DEF Write, TypeOK, PieceSet
<1>4. CASE Cut(p)
  <2>1. pc' \in [Procs -> Places]
    BY <1>4, PlaceType DEF Cut, TypeOK, Places
  <2>2. start[p] \in Nat
    BY DEF TypeOK
  <2>3. file' \in Seq(PieceSet)
    BY <1>1, <1>4, <2>2, TruncatedFacts DEF Cut
  <2> QED BY <1>4, <2>1, <2>3 DEF Cut, TypeOK, PieceSet
<1> QED BY <1>2, <1>3, <1>4

\* The steps between the calls.
LEMMA PlainTypes ==
    ASSUME TypeOK, NEW p \in Procs, StartLine(p) \/ Written(p) \/ Refused(p) \/ Stop(p)
    PROVE  TypeOK'
<1> USE DEF resumeVars, appendVars
<1>1. CASE StartLine(p)
  <2>1. pc' \in [Procs -> Places]
    BY <1>1, PlaceType DEF StartLine, TypeOK, Places
  <2>2. tried + 1 \in 0..MaxLines /\ nextSeq[p] \in Nat
    BY <1>1, FileAssumption DEF StartLine, TypeOK
  <2>3. [n |-> tried + 1, seq |-> nextSeq[p]] \in Lines
    BY <2>2 DEF Lines
  <2>4. line' \in [Procs -> Lines]
    BY <1>1, <2>3 DEF StartLine, TypeOK
  <2>5. done' \in [Procs -> 0..Parts]
    BY <1>1, FileAssumption DEF StartLine, TypeOK
  <2> QED BY <1>1, <2>1, <2>2, <2>4, <2>5 DEF StartLine, TypeOK
<1>2. CASE Written(p)
  <2>1. pc' \in [Procs -> Places]
    BY <1>2, PlaceType DEF Written, TypeOK, Places
  <2>2. nextSeq' \in [Procs -> Nat \ {0}]
    BY <1>2 DEF Written, TypeOK
  <2>3. kept' \subseteq Lines
    BY <1>2 DEF Written, TypeOK
  <2> QED BY <1>2, <2>1, <2>2, <2>3 DEF Written, TypeOK
<1>3. CASE Refused(p)
  <2>1. pc' \in [Procs -> Places]
    BY <1>3 DEF Refused, Go, TypeOK, Places
  <2> QED BY <1>3, <2>1 DEF Refused, TypeOK
<1>4. CASE Stop(p)
  <2>1. pc' \in [Procs -> Places]
    BY <1>4 DEF Stop, Go, TypeOK, Places
  <2> QED BY <1>4, <2>1 DEF Stop, TypeOK
<1> QED BY <1>1, <1>2, <1>3, <1>4

\* Every step keeps the types.
LEMMA TypeStep ==
    ASSUME TypeOK, [Next]_vars
    PROVE  TypeOK'
<1>1. CASE UNCHANGED vars
  BY <1>1 DEF vars, TypeOK
<1>2. CASE Next
  <2>1. PICK p \in Procs : Step(p)
    BY <1>2 DEF Next
  <2> QED BY <2>1, ReadTypes, FileTypes, PlainTypes DEF Step
<1> QED BY <1>1, <1>2

\* The initial types.
LEMMA TypeInit ==
    ASSUME Init
    PROVE  TypeOK
<1>1. NoLine \in Lines /\ 0 \in 0..Parts /\ 0 \in 0..MaxLines /\ 0 \in 0..MaxOpens
  BY PieceFacts, FileAssumption
<1>2. file \in Seq([line : Lines, part : 0..Parts])
  BY DEF Init
<1> QED BY <1>1, <1>2 DEF Init, TypeOK, Places

\* Whoever writes the file, a run's or the shared one, and whatever refuses or
\* stops it, the file and what its writers know of it have the right types.
THEOREM TypeCorrect == Spec => []TypeOK
BY TypeInit, TypeStep, PTL DEF Spec


-----------------------------------------------------------------------------
(* A run's own file: what it holds is kept by each of its one user's steps. *)

\* While one process takes a step, every other is away.
LEMMA AloneStep ==
    ASSUME TypeOK, Alone, ~Shared, NEW p \in Procs, Step(p)
    PROVE  Alone' /\ \A q \in Procs : q # p => pc'[q] = "off"
<1>1. \A q \in Procs : q # p => pc[q] = "off"
  <2>1. CASE pc[p] = "off"
    BY <2>1 DEF Step, Open, ReadTail, CutTorn, StartLine, Write, Written, Refused, Cut, Stop
  <2>2. CASE pc[p] # "off"
    BY <2>2 DEF Alone
  <2> QED BY <2>1, <2>2
<1>2. \A q \in Procs : q # p => pc'[q] = pc[q]
  BY DEF TypeOK, Step, Open, ReadTail, CutTorn, StartLine, Write, Written, Refused, Cut, Stop, Go
<1>3. \A q \in Procs : q # p => pc'[q] = "off"
  BY <1>1, <1>2
<1>4. ASSUME NEW q \in Procs, NEW r \in Procs, pc'[q] # "off", pc'[r] # "off" PROVE q = r
  BY <1>3, <1>4
<1> QED BY <1>3, <1>4 DEF Alone

\* A process that is away knows nothing of the file.
LEMMA KnowElsewhere ==
    ASSUME NEW p \in Procs, \A q \in Procs : q # p => pc'[q] = "off", Knows(p)'
    PROVE  KnowInv'
<1>1. ASSUME NEW q \in Procs PROVE Knows(q)'
  <2>1. CASE q = p
    BY <2>1
  <2>2. CASE q # p
    <3>1. pc'[q] = "off"
      BY <2>2
    <3> QED BY <3>1 DEF Knows
  <2> QED BY <2>1, <2>2
<1> QED BY <1>1 DEF KnowInv

\* What the file holds, whoever has it open.
FileKept == Laid(file) /\ Numbered(file) /\ KeptInv

\* A line that a reader has seen stays as it is, where it is.
LinesStay == \A i \in Newlines(file) : i \in Newlines(file') /\ file'[i] = file[i]

\* A cut leaves the lines that end in the file where they are.
LEMMA KeptThroughCut ==
    ASSUME TypeOK, FileKept, NEW n \in Nat, n <= Len(file), file' = Truncated(file, n), kept' = kept,
           \A j \in Newlines(file) : j <= n, n = 0 \/ n \in Newlines(file)
    PROVE  FileKept' /\ LinesStay /\ Count(file)' = Count(file) /\ \A l : Pending(file, l, 0)'
<1>1. file \in Seq(PieceSet)
  BY DEF TypeOK, PieceSet
<1>2. PICK g : g = Truncated(file, n)
  OBVIOUS
<1>3. /\ Laid(g) /\ Numbered(g) /\ Newlines(g) = Newlines(file)
      /\ \A i \in Newlines(file) : g[i] = file[i]
      /\ \A l : Pending(g, l, 0)
  BY <1>1, <1>2, CutFacts DEF FileKept
<1>4. file' = g
  BY <1>2
<1>5. KeptInv'
  <2>1. \A l \in kept : \E i \in Newlines(g) : g[i].line = l
    BY <1>3 DEF FileKept, KeptInv
  <2> QED BY <1>4, <2>1 DEF KeptInv
<1>6. Laid(file)' /\ Numbered(file)' /\ Count(file)' = Count(file)
  BY <1>3, <1>4 DEF Count
<1>7. LinesStay /\ \A l : Pending(file, l, 0)'
  BY <1>3, <1>4 DEF LinesStay
<1> QED BY <1>5, <1>6, <1>7 DEF FileKept

\* The file is opened, and read for the last line that ends in it.
LEMMA ReadStep ==
    ASSUME TypeOK, FileKept, NEW p \in Procs, Knows(p), Open(p) \/ ReadTail(p)
    PROVE  FileKept' /\ Knows(p)' /\ LinesStay
<1> USE DEF resumeVars, appendVars
<1>1. file \in Seq(PieceSet)
  BY DEF TypeOK, PieceSet
<1>2. file' = file /\ kept' = kept /\ LinesStay
  BY DEF Open, ReadTail, LinesStay
<1>3. FileKept'
  BY <1>2 DEF FileKept, KeptInv
<1>4. CASE Open(p)
  <2>1. pc'[p] = "sized" /\ size'[p] = Len(file)
    BY <1>4 DEF Open, Go, TypeOK
  <2> QED BY <1>2, <1>3, <2>1 DEF Knows
<1>5. CASE ReadTail(p)
  <2>1. /\ pc'[p] = "read" /\ size'[p] = size[p] /\ size[p] = Len(file)
        /\ whole'[p] = Complete(file) /\ nextSeq'[p] = LastSeq(file) + 1
    BY <1>5 DEF ReadTail, Go, TypeOK, Knows
  <2>2. LastSeq(file) = Count(file)
    BY <1>1, LastSeqFacts DEF FileKept
  <2> QED BY <1>2, <1>3, <2>1, <2>2 DEF Knows
<1> QED BY <1>4, <1>5

\* A line that a crash cut off is cut away.
LEMMA CutTornStep ==
    ASSUME TypeOK, FileKept, NEW p \in Procs, Knows(p), CutTorn(p)
    PROVE  FileKept' /\ Knows(p)' /\ LinesStay
<1> USE DEF resumeVars, appendVars
<1>1. file \in Seq(PieceSet) /\ Len(file) \in Nat
  BY NewlineFacts DEF TypeOK, PieceSet
<1>2. /\ pc'[p] = "idle" /\ kept' = kept /\ nextSeq'[p] = nextSeq[p]
      /\ size[p] = Len(file) /\ whole[p] = Complete(file) /\ nextSeq[p] = Count(file) + 1
      /\ file' = IF whole[p] < size[p] THEN Truncated(file, whole[p]) ELSE file
  BY DEF CutTorn, Go, TypeOK, Knows
<1>3. /\ Complete(file) \in Nat /\ Complete(file) <= Len(file)
      /\ \A j \in Newlines(file) : j <= Complete(file)
      /\ Complete(file) = 0 \/ Complete(file) \in Newlines(file)
  BY <1>1, CompleteFacts
<1>4. FileKept' /\ LinesStay /\ Count(file)' = Count(file) /\ Pending(file, NoLine, 0)'
  <2>1. CASE Complete(file) < Len(file)
    <3>1. file' = Truncated(file, Complete(file))
      BY <1>2, <2>1
    <3> QED BY <1>2, <1>3, <3>1, KeptThroughCut
  <2>2. CASE ~(Complete(file) < Len(file))
    <3>1. file' = file
      BY <1>2, <2>2
    <3>2. Complete(file) = Len(file)
      BY <1>1, <1>3, <2>2
    <3>3. Len(file) = 0 \/ file[Len(file)].part = Parts
      BY <1>1, <1>3, <3>2, NewlineFacts
    <3>4. Pending(file, NoLine, 0)
      BY <1>1, <3>3 DEF Pending
    <3>5. FileKept' /\ LinesStay
      BY <1>2, <3>1 DEF FileKept, KeptInv, LinesStay
    <3> QED BY <3>1, <3>4, <3>5
  <2> QED BY <2>1, <2>2
<1> QED BY <1>2, <1>4 DEF Knows


\* A line is begun after whole lines, with the next seq.
LEMMA StartLineStep ==
    ASSUME TypeOK, FileKept, NEW p \in Procs, Knows(p), StartLine(p)
    PROVE  FileKept' /\ Knows(p)' /\ LinesStay
<1> USE DEF resumeVars, appendVars
<1>1. /\ file' = file /\ kept' = kept /\ nextSeq' = nextSeq
      /\ pc[p] = "idle" /\ pc'[p] = "writing" /\ done'[p] = 0 /\ line'[p].seq = nextSeq[p]
  BY DEF StartLine, Go, TypeOK
<1>2. FileKept' /\ LinesStay
  BY <1>1 DEF FileKept, KeptInv, LinesStay
<1>3. Pending(file, NoLine, 0) /\ nextSeq[p] = Count(file) + 1
  BY <1>1 DEF Knows
<1>4. Pending(file, line'[p], 0)
  BY <1>3 DEF Pending
<1>5. Pending(file', line'[p], done'[p])
  BY <1>1, <1>4
<1>6. nextSeq'[p] = IF done'[p] = Parts THEN Count(file') ELSE Count(file') + 1
  BY <1>1, <1>3, PieceFacts
<1> QED BY <1>1, <1>2, <1>5, <1>6 DEF Knows

\* The next pieces follow the line's others; its last end one line more.
LEMMA WriteStep ==
    ASSUME TypeOK, FileKept, NEW p \in Procs, Knows(p), Write(p)
    PROVE  FileKept' /\ Knows(p)' /\ LinesStay
<1> USE DEF resumeVars, appendVars
<1>1. /\ pc[p] = "writing" /\ pc'[p] = "writing" /\ nextSeq' = nextSeq /\ line' = line /\ kept' = kept
      /\ done[p] < Parts
  BY DEF Write
<1>2. PICK n \in 1..(Parts - done[p]) :
         /\ file' = file \o Pieces(line[p], done[p] + 1, done[p] + n)
         /\ end' = [end EXCEPT ![p] = Len(file) + n]
         /\ start' = IF done[p] = 0 THEN [start EXCEPT ![p] = Len(file)] ELSE start
         /\ done' = [done EXCEPT ![p] = @ + n]
  BY DEF Write
<1>3. PICK l \in Lines, d \in Nat : l = line[p] /\ d = done[p]
  BY FileAssumption DEF TypeOK
<1>4. /\ done'[p] = d + n /\ end'[p] = Len(file) + n
      /\ start'[p] = IF d = 0 THEN Len(file) ELSE start[p]
  BY <1>2, <1>3 DEF TypeOK
<1>5. /\ file \in Seq(PieceSet) /\ Pending(file, l, d)
      /\ d > 0 => start[p] = Len(file) - d
      /\ l.seq = nextSeq[p] /\ nextSeq[p] = Count(file) + 1
      /\ Laid(file) /\ Numbered(file) /\ KeptInv
  BY <1>1, <1>3 DEF TypeOK, PieceSet, Knows, FileKept
<1>6. PICK g : g = file \o Pieces(l, d + 1, d + n)
  OBVIOUS
<1>7. /\ g \in Seq(PieceSet) /\ Len(g) = Len(file) + n
      /\ \A i \in 1..Len(file) : g[i] = file[i]
      /\ \A j \in 1..n : g[Len(file) + j] = Piece(l, d + j)
  <2>1. l \in Lines /\ d \in Nat /\ n \in 1..(Parts - d) /\ file \in Seq(PieceSet)
    BY <1>3, <1>5
  <2>2. /\ file \o Pieces(l, d + 1, d + n) \in Seq(PieceSet)
        /\ Len(file \o Pieces(l, d + 1, d + n)) = Len(file) + n
        /\ \A i \in 1..Len(file) : (file \o Pieces(l, d + 1, d + n))[i] = file[i]
        /\ \A j \in 1..n : (file \o Pieces(l, d + 1, d + n))[Len(file) + j] = Piece(l, d + j)
    BY ONLY <2>1, WriteFacts
  <2> QED BY ONLY <1>6, <2>2
<1>8. PICK b \in Nat : Len(file) = b + d
  <2>1. Len(file) \in Nat /\ d <= Len(file)
    BY <1>5, NewlineFacts DEF Pending
  <2>2. Len(file) - d \in Nat /\ Len(file) = (Len(file) - d) + d
    BY <2>1
  <2> QED BY <2>2
<1>9. n \in Nat /\ n > 0 /\ d + n <= Parts /\ Parts \in Nat /\ Len(g) = b + d + n
  <2>1. n \in 1..(Parts - d) /\ d \in Nat /\ Parts \in Nat
    BY <1>3, PieceFacts
  <2>2. n \in Nat /\ n > 0 /\ d + n <= Parts
    BY ONLY <2>1
  <2>3. Len(g) = b + d + n
    BY ONLY <1>7, <1>8
  <2> QED BY <2>1, <2>2, <2>3
<1>10. /\ Laid(g) /\ Pending(g, l, d + n)
       /\ Newlines(g) = IF d + n = Parts THEN Newlines(file) \cup {b + d + n} ELSE Newlines(file)
       /\ d + n = Parts => g[b + d + n] = Piece(l, Parts)
  <2>1. \A i \in 1..(b + d) : g[i] = file[i]
    BY <1>7, <1>8
  <2>2. \A j \in 1..n : g[b + d + j] = Piece(l, d + j)
    BY <1>7, <1>8
  <2>3. /\ file \in Seq(PieceSet) /\ g \in Seq(PieceSet) /\ l \in Lines /\ b \in Nat /\ d \in Nat
        /\ n \in Nat /\ n > 0 /\ d + n <= Parts /\ Len(file) = b + d /\ Len(g) = b + d + n
        /\ Laid(file) /\ Pending(file, l, d)
    BY <1>5, <1>7, <1>8, <1>9
  <2>4. Extends(file, g, l, b, d, n)
    BY ONLY <2>1, <2>2, <2>3 DEF Extends
  <2> QED BY ONLY <2>4, ExtendFacts
<1>11. \A i \in Newlines(file) : i \in Newlines(g) /\ g[i] = file[i]
  <2>1. \A i \in Newlines(file) : i \in 1..Len(file)
    BY <1>5, NewlineFacts
  <2> QED BY <1>7, <1>10, <2>1
<1>12. Numbered(g) /\ Count(file) + 1 = IF d + n = Parts THEN Count(g) ELSE Count(g) + 1
  <2>1. CASE d + n = Parts
    <3>1. Newlines(g) = Newlines(file) \cup {Len(g)} /\ Len(file) < Len(g)
      BY <1>8, <1>9, <1>10, <2>1
    <3>2. g[Len(g)].line.seq = Count(file) + 1
      BY <1>5, <1>9, <1>10, <2>1, PieceFacts
    <3> QED BY <1>5, <1>7, <2>1, <3>1, <3>2, CountFacts
  <2>2. CASE d + n # Parts
    <3>1. Newlines(g) = Newlines(file)
      BY <1>10, <2>2
    <3>2. Count(g) = Count(file) /\ \A i \in Newlines(g) : UpTo(g, i) = UpTo(file, i)
      BY <3>1 DEF Count, UpTo
    <3>3. Numbered(g)
      BY <1>5, <1>11, <3>1, <3>2 DEF Numbered
    <3> QED BY <2>2, <3>2, <3>3
  <2> QED BY <2>1, <2>2
<1>13. file' = g
  BY <1>2, <1>3, <1>6
<1>14. KeptInv'
  BY <1>1, <1>5, <1>11, <1>13 DEF KeptInv
<1>15. FileKept' /\ LinesStay
  BY <1>11, <1>10, <1>12, <1>13, <1>14 DEF FileKept, LinesStay
<1>16. start'[p] = Len(g) - (d + n) /\ end'[p] = Len(g)
  <2>1. start'[p] = b
    BY <1>4, <1>5, <1>8
  <2> QED BY <1>4, <1>7, <1>8, <1>9, <2>1
<1>17. Knows(p)'
  <2>1. Pending(file', line'[p], done'[p])
    BY <1>1, <1>3, <1>4, <1>10, <1>13
  <2>2. start'[p] = Len(file') - done'[p] /\ end'[p] = Len(file')
    BY <1>4, <1>13, <1>16
  <2>3. line'[p].seq = nextSeq'[p]
    BY <1>1, <1>3, <1>5
  <2>4. nextSeq'[p] = IF done'[p] = Parts THEN Count(file') ELSE Count(file') + 1
    BY <1>1, <1>4, <1>5, <1>12, <1>13
  <2> QED BY <1>1, <2>1, <2>2, <2>3, <2>4 DEF Knows
<1> QED BY <1>15, <1>17


\* The append of a whole line returns: the line ends the file.
LEMMA WrittenStep ==
    ASSUME TypeOK, FileKept, NEW p \in Procs, Knows(p), Written(p)
    PROVE  FileKept' /\ Knows(p)' /\ LinesStay
<1> USE DEF resumeVars, appendVars
<1>1. /\ file' = file /\ pc[p] = "writing" /\ pc'[p] = "idle" /\ done[p] = Parts
      /\ nextSeq'[p] = nextSeq[p] + 1 /\ kept' = kept \cup {line[p]}
  BY DEF Written, Go, TypeOK
<1>2. /\ file \in Seq(PieceSet) /\ Len(file) \in Nat /\ Parts \in Nat /\ Parts > 0
      /\ Pending(file, line[p], Parts) /\ nextSeq[p] = Count(file)
  BY <1>1, NewlineFacts, PieceFacts DEF TypeOK, PieceSet, Knows
<1>3. Len(file) \in Newlines(file) /\ file[Len(file)].line = line[p]
  <2>1. Parts \in 1..Parts /\ Len(file) - Parts + Parts = Len(file)
        /\ Parts <= Len(file) /\ Len(file) \in 1..Len(file)
    BY <1>2 DEF Pending
  <2>2. file[Len(file) - Parts + Parts] = Piece(line[p], Parts)
    BY <1>2, <2>1 DEF Pending
  <2>3. file[Len(file)].part = Parts /\ file[Len(file)].line = line[p]
    BY <2>1, <2>2, PieceFacts
  <2> QED BY <1>2, <2>1, <2>3, NewlineFacts
<1>4. KeptInv'
  BY <1>1, <1>3 DEF FileKept, KeptInv
<1>5. Pending(file, NoLine, 0)
  <2>1. file[Len(file)].part = Parts
    BY <1>2, <1>3, NewlineFacts
  <2>2. 0 <= Len(file) /\ Len(file) - 0 = Len(file) /\ 1..0 = {}
    BY <1>2
  <2> QED BY <2>1, <2>2 DEF Pending
<1>6. FileKept' /\ LinesStay
  BY <1>1, <1>4 DEF FileKept, LinesStay
<1>7. Pending(file', NoLine, 0) /\ nextSeq'[p] = Count(file') + 1
  BY <1>1, <1>2, <1>5
<1> QED BY <1>1, <1>6, <1>7 DEF Knows

\* A refused line that the disk took nothing of leaves whole lines; one it took
\* some of is cut.
LEMMA RefusedStep ==
    ASSUME TypeOK, FileKept, NEW p \in Procs, Knows(p), Refused(p)
    PROVE  FileKept' /\ Knows(p)' /\ LinesStay
<1> USE DEF resumeVars, appendVars
<1>1. /\ file' = file /\ nextSeq' = nextSeq /\ line' = line /\ done' = done /\ start' = start
      /\ end' = end /\ kept' = kept /\ pc[p] = "writing" /\ done[p] < Parts
      /\ pc'[p] = IF done[p] > 0 /\ end[p] - start[p] = done[p] /\ Len(file) = end[p]
                  THEN "cutting" ELSE "idle"
  BY DEF Refused, Go, TypeOK
<1>2. FileKept' /\ LinesStay
  BY <1>1 DEF FileKept, KeptInv, LinesStay
<1>3. /\ Pending(file, line[p], done[p])
      /\ done[p] > 0 => start[p] = Len(file) - done[p] /\ end[p] = Len(file)
      /\ line[p].seq = nextSeq[p] /\ nextSeq[p] = Count(file) + 1
      /\ done[p] \in Nat /\ Len(file) \in Nat
  BY <1>1, FileAssumption, NewlineFacts DEF TypeOK, PieceSet, Knows
<1>4. CASE done[p] > 0
  <2>1. pc'[p] = "cutting"
    <3>1. end[p] - start[p] = done[p] /\ Len(file) = end[p]
      BY <1>3, <1>4
    <3> QED BY <1>1, <1>4, <3>1
  <2>2. nextSeq'[p] = IF done'[p] = Parts THEN Count(file') ELSE Count(file') + 1
    BY <1>1, <1>3, PieceFacts
  <2> QED BY <1>1, <1>2, <1>3, <1>4, <2>1, <2>2 DEF Knows
<1>5. CASE done[p] = 0
  <2>1. pc'[p] = "idle"
    BY <1>1, <1>5
  <2>2. Pending(file, line[p], 0)
    BY <1>3, <1>5
  <2>3. Pending(file, NoLine, 0)
    BY <2>2 DEF Pending
  <2>4. Pending(file', NoLine, 0) /\ nextSeq'[p] = Count(file') + 1
    BY <1>1, <1>3, <2>3
  <2> QED BY <1>2, <2>1, <2>4 DEF Knows
<1> QED BY <1>3, <1>4, <1>5

\* What the disk took of a refused line is cut off, and no more.
LEMMA CutStep ==
    ASSUME TypeOK, FileKept, NEW p \in Procs, Knows(p), Cut(p)
    PROVE  FileKept' /\ Knows(p)' /\ LinesStay
<1> USE DEF resumeVars, appendVars
<1>1. /\ file' = Truncated(file, start[p]) /\ nextSeq' = nextSeq /\ kept' = kept
      /\ pc[p] = "cutting" /\ pc'[p] = "idle"
  BY DEF Cut, Go, TypeOK
<1>2. /\ file \in Seq(PieceSet) /\ Pending(file, line[p], done[p])
      /\ done[p] \in Nat /\ done[p] < Parts /\ done[p] # Parts
      /\ start[p] = Len(file) - done[p]
      /\ nextSeq[p] = Count(file) + 1
  BY <1>1, FileAssumption DEF TypeOK, PieceSet, Knows
<1>3. /\ start[p] \in Nat /\ start[p] <= Len(file)
      /\ \A j \in Newlines(file) : j <= start[p]
      /\ start[p] = 0 \/ start[p] \in Newlines(file)
  BY <1>2, TornFacts
<1>4. FileKept' /\ LinesStay /\ Count(file)' = Count(file) /\ Pending(file, NoLine, 0)'
  BY <1>1, <1>3, KeptThroughCut
<1>5. nextSeq'[p] = Count(file)' + 1
  BY <1>1, <1>2, <1>4
<1> QED BY <1>1, <1>4, <1>5 DEF Knows

\* A process that stops, or dies, leaves the file as it is.
LEMMA StopStep ==
    ASSUME TypeOK, FileKept, NEW p \in Procs, Stop(p)
    PROVE  FileKept' /\ Knows(p)' /\ LinesStay
<1>1. file' = file /\ kept' = kept /\ pc'[p] = "off"
  BY DEF Stop, Go, TypeOK
<1>2. FileKept' /\ LinesStay
  BY <1>1 DEF FileKept, KeptInv, LinesStay
<1> QED BY <1>1, <1>2 DEF Knows

\* Every step of a run's one user keeps the invariant.
LEMMA FileStep ==
    ASSUME ~Shared, FileInv, [Next]_vars
    PROVE  FileInv' /\ LinesStay
<1>1. TypeOK /\ Alone /\ FileKept /\ KnowInv
  BY DEF FileInv, FileKept
<1>2. TypeOK'
  BY <1>1, TypeStep
<1>3. CASE UNCHANGED vars
  <2>1. Alone'
    BY <1>1, <1>3 DEF vars, Alone
  <2>2. FileKept' /\ LinesStay
    BY <1>1, <1>3 DEF vars, FileKept, KeptInv, LinesStay
  <2>3. KnowInv'
    BY <1>1, <1>3 DEF vars, KnowInv, Knows
  <2> QED BY <1>2, <2>1, <2>2, <2>3 DEF FileInv, FileKept
<1>4. CASE Next
  <2>1. PICK p \in Procs : Step(p)
    BY <1>4 DEF Next
  <2>2. Alone' /\ \A q \in Procs : q # p => pc'[q] = "off"
    BY <1>1, <2>1, AloneStep
  <2>3. Knows(p)
    BY <1>1 DEF KnowInv
  <2>4. FileKept' /\ Knows(p)' /\ LinesStay
    BY <1>1, <2>1, <2>3, ReadStep, CutTornStep, StartLineStep, WriteStep, WrittenStep,
       RefusedStep, CutStep, StopStep DEF Step
  <2>5. KnowInv'
    BY <2>2, <2>4, KnowElsewhere
  <2> QED BY <1>2, <2>2, <2>4, <2>5 DEF FileInv, FileKept
<1> QED BY <1>3, <1>4

\* The empty file.
LEMMA FileInit ==
    ASSUME Init
    PROVE  FileInv
<1>1. TypeOK /\ file \in Seq(PieceSet) /\ Len(file) = 0
  BY TypeInit, EmptySeq DEF Init, TypeOK, PieceSet
<1>2. Newlines(file) = {}
  <2>1. Newlines(file) \subseteq 1..Len(file)
    BY <1>1, NewlineFacts
  <2>2. 1..Len(file) = {}
    BY ONLY <1>1
  <2> QED BY <2>1, <2>2
<1>3. Laid(file) /\ Numbered(file)
  BY <1>1, <1>2 DEF Laid, Numbered
<1>4. KeptInv /\ Alone /\ KnowInv
  BY DEF Init, KeptInv, Alone, KnowInv, Knows
<1> QED BY <1>1, <1>3, <1>4 DEF FileInv

\* A run's own file is whole lines and at most one line's first pieces, whose
\* writer knows how many, numbered by place, and has every line whose append
\* returned: over every short write, refusal, crash and resume.
THEOREM FileInvariant ==
    ASSUME ~Shared
    PROVE  Spec => []FileInv
BY FileInit, FileStep, PTL DEF Spec

\* Whatever a process does, every line that ends in a run's file stays there, at
\* its place: a reader who comes again finds what it read and more.
THEOREM FileOnlyGrows ==
    ASSUME ~Shared
    PROVE  Spec => [][LinesStay]_vars
<1>1. ASSUME FileInv, [Next]_vars PROVE [LinesStay]_vars
  BY <1>1, FileStep
<1> QED BY <1>1, FileInvariant, PTL DEF Spec

\* No line whose append returned is lost or damaged, and a reader meets no line
\* that does not parse, but a half one at the end.
THEOREM LinesAreKept ==
    ASSUME ~Shared
    PROVE  Spec => []LinesSurvive
<1>1. ASSUME FileInv PROVE LinesSurvive
  <2>1. TypeOK /\ file \in Seq(PieceSet) /\ Laid(file) /\ KeptInv
    BY <1>1 DEF FileInv, TypeOK, PieceSet
  <2>2. Parsed(file) = Newlines(file)
    BY <2>1, AllParse
  <2>3. KeptLinesRead
    BY <2>1, <2>2 DEF KeptInv, KeptLinesRead, Read
  <2> QED BY <2>1, <2>2, <2>3 DEF LinesSurvive, OnlyLastTorn
<1> QED BY <1>1, FileInvariant, PTL

\* The lines of a run's file are numbered 1, 2, ... in file order.
THEOREM SeqsAreDense ==
    ASSUME ~Shared
    PROVE  Spec => []SeqsDense
<1>1. ASSUME FileInv PROVE SeqsDense
  <2>1. file \in Seq(PieceSet) /\ Laid(file) /\ Numbered(file)
    BY <1>1 DEF FileInv, TypeOK, PieceSet
  <2>2. Parsed(file) = Newlines(file)
    BY <2>1, AllParse
  <2> QED BY <2>1, <2>2 DEF Numbered, UpTo, SeqsDense
<1> QED BY <1>1, FileInvariant, PTL

-----------------------------------------------------------------------------
(* The locks of a root. *)

\* Where a store is open or may still be written by its thread.
Using == {"open", "joined", "late", "closed", "leaving"}
Removing == {"planning", "removing", "removed"}

\* The writer lock: a deletion's alone, or shared by every store in use.
WriterLockHeld ==
    /\ exclusive # NoProc => shared = {}
    /\ \A p \in Sharers : stage[p] \in Removing <=> exclusive = p
    /\ \A p \in Sharers : stage[p] \in {"opening", "open", "joined", "late"} => p \in shared
    /\ \A p \in Sharers : opened[p] # {} => p \in shared /\ stage[p] \in Using
    /\ \A p \in Sharers :
          wpc[p] # "idle" => stage[p] \in Using \ {"joined"} /\ item[p].blob \in Blobs /\ item[p].run \in opened[p]

\* serve.lock: a serve holds it while its store is open.
ServeLockHeld ==
    \A p \in Sharers :
        /\ stage[p] = "opening" => role[p] = "serve"
        /\ stage[p] = "open" /\ role[p] = "serve" => serveLock = p

\* The files: a run in use has its directory, only directories have lines, and
\* no line left behind names a body that a deletion is going to remove.
FilesKept ==
    /\ \A p \in Sharers : opened[p] \subseteq dirs
    /\ \A r \in Runs \ dirs : refs[r] = {}
    /\ \A p \in Sharers : wpc[p] = "line" => item[p].blob \in blobs
    /\ \A p \in Sharers : stage[p] = "removing" => \A r \in dirs \ pick[p] : refs[r] \cap gone[p] = {}
    /\ LinesHaveBodies

LocksInv == LocksTypeOK /\ WriterLockHeld /\ ServeLockHeld /\ FilesKept

-----------------------------------------------------------------------------
(* The types.                                                               *)

\* Every action keeps the types.
LEMMA LocksTypeStep == LocksTypeOK /\ WriterLockHeld /\ [LocksNext]_lockVars => LocksTypeOK'
<1> SUFFICES ASSUME LocksTypeOK, WriterLockHeld, [LocksNext]_lockVars PROVE LocksTypeOK'
  OBVIOUS
<1> USE LocksAssumption DEF LocksTypeOK, LockPlaces, locks, writer, disk, removal, bounds, Enter, NoItem
<1>1. ASSUME NEW p \in Sharers, Start(p) PROVE LocksTypeOK'
  <2>1. PICK as \in {"serve", "shadow"} : role' = [role EXCEPT ![p] = as]
    BY <1>1 DEF Start
  <2>2. stage' = [stage EXCEPT ![p] = "waiting"] /\ starts' = starts + 1
    BY <1>1 DEF Start
  <2>3. UNCHANGED <<serveLock, shared, exclusive, wpc, item, opened, dirs, refs, blobs, pick, gone, items>>
    BY <1>1 DEF Start
  <2>4. role' \in [Sharers -> {"none", "serve", "shadow", "rm"}]
    BY <2>1
  <2>5. stage' \in [Sharers -> LockPlaces] /\ starts' \in Nat
    BY <2>2
  <2> QED BY <2>3, <2>4, <2>5
<1>2. ASSUME NEW p \in Sharers, Share(p) PROVE LocksTypeOK'
  BY <1>2 DEF Share
<1>3. ASSUME NEW p \in Sharers, HoldServe(p) PROVE LocksTypeOK'
  BY <1>3 DEF HoldServe
<1>4. ASSUME NEW p \in Sharers, NEW r \in Runs, NEW b \in Blobs, OpenRun(p, r, b) PROVE LocksTypeOK'
  BY <1>4 DEF OpenRun
<1>5. ASSUME NEW p \in Sharers, PutBody(p) PROVE LocksTypeOK'
  <2>1. item[p].blob \in Blobs
    BY <1>5 DEF PutBody, WriterLockHeld
  <2> QED BY <1>5, <2>1 DEF PutBody
<1>6. ASSUME NEW p \in Sharers, AppendLine(p) PROVE LocksTypeOK'
  <2>1. item[p].blob \in Blobs /\ item[p].run \in Runs
    BY <1>6 DEF AppendLine, WriterLockHeld
  <2>2. refs' \in [Runs -> SUBSET Blobs]
    BY <1>6, <2>1 DEF AppendLine
  <2>3. item' \in [Sharers -> [run : Runs, blob : Blobs \cup {"none"}]]
    BY <1>6 DEF AppendLine
  <2> QED BY <1>6, <2>2, <2>3 DEF AppendLine
<1>7. ASSUME NEW p \in Sharers, NEW r \in Runs, ForgetRun(p, r) PROVE LocksTypeOK'
  BY <1>7 DEF ForgetRun
<1>8. ASSUME NEW p \in Sharers, Close(p) PROVE LocksTypeOK'
  BY <1>8 DEF Close
<1>9. ASSUME NEW p \in Sharers, ReleaseWriter(p) PROVE LocksTypeOK'
  BY <1>9 DEF ReleaseWriter
<1>10. ASSUME NEW p \in Sharers, ReleaseServe(p) PROVE LocksTypeOK'
  BY <1>10 DEF ReleaseServe
<1>11. ASSUME NEW p \in Sharers, Exit(p) PROVE LocksTypeOK'
  BY <1>11 DEF Exit
<1>12. ASSUME NEW p \in Sharers, NEW some \in SUBSET Runs, Pick(p, some) PROVE LocksTypeOK'
  BY <1>12 DEF Pick
<1>13. ASSUME NEW p \in Sharers, HoldServeToRemove(p) PROVE LocksTypeOK'
  BY <1>13 DEF HoldServeToRemove
<1>14. ASSUME NEW p \in Sharers, Exclude(p) PROVE LocksTypeOK'
  BY <1>14 DEF Exclude
<1>15. ASSUME NEW p \in Sharers, PlanRemoval(p) PROVE LocksTypeOK'
  <2>1. Named(pick[p]) \subseteq Blobs
    BY DEF Named
  <2> QED BY <1>15, <2>1 DEF PlanRemoval
<1>16. ASSUME NEW p \in Sharers, PlanOnly(p) PROVE LocksTypeOK'
  BY <1>16 DEF PlanOnly
<1>17. ASSUME NEW p \in Sharers, NEW r \in Runs, RemoveRun(p, r) PROVE LocksTypeOK'
  <2>1. /\ stage' = stage \/ stage' = [stage EXCEPT ![p] = "removed"]
        /\ dirs' \subseteq dirs
        /\ refs' = refs \/ refs' = [refs EXCEPT ![r] = {}]
        /\ pick' = pick \/ pick' = [pick EXCEPT ![p] = pick[p] \ {r}]
    BY <1>17 DEF RemoveRun
  <2>2. UNCHANGED <<role, serveLock, shared, exclusive, wpc, item, opened, blobs, gone, starts, items>>
    BY <1>17 DEF RemoveRun
  <2>3. stage' \in [Sharers -> LockPlaces]
    BY <2>1
  <2>4. dirs' \subseteq Runs /\ refs' \in [Runs -> SUBSET Blobs]
    BY <2>1
  <2>5. pick' \in [Sharers -> SUBSET Runs]
    BY <2>1
  <2> QED BY <2>2, <2>3, <2>4, <2>5
<1>18. ASSUME NEW p \in Sharers, NEW b \in Blobs, RemoveBlob(p, b) PROVE LocksTypeOK'
  BY <1>18 DEF RemoveBlob
<1>19. ASSUME NEW p \in Sharers, Removed(p) PROVE LocksTypeOK'
  BY <1>19 DEF Removed
<1>20. ASSUME NEW p \in Sharers, EndExclude(p) PROVE LocksTypeOK'
  BY <1>20 DEF EndExclude
<1>21. CASE UNCHANGED lockVars
  BY <1>21 DEF lockVars
<1> QED
  BY <1>1, <1>2, <1>3, <1>4, <1>5, <1>6, <1>7, <1>8, <1>9, <1>10, <1>11, <1>12, <1>13, <1>14,
     <1>15, <1>16, <1>17, <1>18, <1>19, <1>20, <1>21
     DEF LocksNext, Proceed

-----------------------------------------------------------------------------
(* The locks.                                                               *)

\* The writer lock stays with those that use it.
LEMMA WriterLockStep == LocksTypeOK /\ WriterLockHeld /\ [LocksNext]_lockVars => WriterLockHeld'
<1> SUFFICES ASSUME LocksTypeOK, WriterLockHeld, [LocksNext]_lockVars PROVE WriterLockHeld'
  OBVIOUS
<1> USE LocksAssumption DEF LocksTypeOK, LockPlaces, WriterLockHeld, Using, Removing, locks, writer, disk, removal, bounds, Enter, NoItem
<1>1. ASSUME NEW p \in Sharers, Start(p) PROVE WriterLockHeld'
  BY <1>1 DEF Start
<1>2. ASSUME NEW p \in Sharers, Share(p) PROVE WriterLockHeld'
  BY <1>2 DEF Share
<1>3. ASSUME NEW p \in Sharers, HoldServe(p) PROVE WriterLockHeld'
  <2>1. CASE serveLock = NoProc
    <3>1. stage[p] = "opening" /\ stage' = [stage EXCEPT ![p] = "open"]
      BY <1>3, <2>1 DEF HoldServe
    <3>2. UNCHANGED <<shared, exclusive, wpc, item, opened>>
      BY <1>3, <2>1 DEF HoldServe
    <3> QED BY <3>1, <3>2
  <2>2. CASE serveLock # NoProc
    <3>1. opened[p] = {} /\ wpc[p] = "idle"
      BY <1>3 DEF HoldServe
    <3>2. shared' = shared \ {p} /\ stage' = [stage EXCEPT ![p] = "refused"]
      BY <1>3, <2>2 DEF HoldServe
    <3>3. UNCHANGED <<exclusive, wpc, item, opened>>
      BY <1>3 DEF HoldServe
    <3> QED BY <1>3, <3>1, <3>2, <3>3 DEF HoldServe
  <2> QED BY <2>1, <2>2
<1>4. ASSUME NEW p \in Sharers, NEW r \in Runs, NEW b \in Blobs, OpenRun(p, r, b) PROVE WriterLockHeld'
  BY <1>4 DEF OpenRun
<1>5. ASSUME NEW p \in Sharers, PutBody(p) PROVE WriterLockHeld'
  BY <1>5 DEF PutBody
<1>6. ASSUME NEW p \in Sharers, AppendLine(p) PROVE WriterLockHeld'
  BY <1>6 DEF AppendLine
<1>7. ASSUME NEW p \in Sharers, NEW r \in Runs, ForgetRun(p, r) PROVE WriterLockHeld'
  BY <1>7 DEF ForgetRun
<1>8. ASSUME NEW p \in Sharers, Close(p) PROVE WriterLockHeld'
  BY <1>8 DEF Close
<1>9. ASSUME NEW p \in Sharers, ReleaseWriter(p) PROVE WriterLockHeld'
  BY <1>9 DEF ReleaseWriter
<1>10. ASSUME NEW p \in Sharers, ReleaseServe(p) PROVE WriterLockHeld'
  BY <1>10 DEF ReleaseServe
<1>11. ASSUME NEW p \in Sharers, Exit(p) PROVE WriterLockHeld'
  BY <1>11 DEF Exit
<1>12. ASSUME NEW p \in Sharers, NEW some \in SUBSET Runs, Pick(p, some) PROVE WriterLockHeld'
  BY <1>12 DEF Pick
<1>13. ASSUME NEW p \in Sharers, HoldServeToRemove(p) PROVE WriterLockHeld'
  <2>1. stage[p] = "rm" /\ \E place \in {"rm_serve", "refused"} : stage' = [stage EXCEPT ![p] = place]
    BY <1>13 DEF HoldServeToRemove
  <2>2. UNCHANGED <<shared, exclusive, wpc, item, opened>>
    BY <1>13 DEF HoldServeToRemove
  <2> QED BY <2>1, <2>2
<1>14. ASSUME NEW p \in Sharers, Exclude(p) PROVE WriterLockHeld'
  <2>1. stage[p] = "rm_serve" /\ UNCHANGED <<shared, wpc, item, opened>>
    BY <1>14 DEF Exclude
  <2>2. CASE /\ shared = {} /\ exclusive = NoProc /\ exclusive' = p
             /\ stage' = [stage EXCEPT ![p] = "planning"]
    <3>1. \A q \in Sharers : opened[q] = {} /\ wpc[q] = "idle"
      BY <2>2
    <3>2. \A q \in Sharers : stage[q] \notin Removing
      BY <2>2
    <3>3. \A q \in Sharers : stage'[q] = IF q = p THEN "planning" ELSE stage[q]
      BY <2>2
    <3> QED BY <2>1, <2>2, <3>1, <3>2, <3>3
  <2>3. CASE exclusive' = exclusive /\ stage' = [stage EXCEPT ![p] = "closed"]
    <3>1. opened[p] = {} /\ wpc[p] = "idle" /\ exclusive # p
      BY <2>1
    <3>2. \A q \in Sharers : stage'[q] = IF q = p THEN "closed" ELSE stage[q]
      BY <2>3
    <3> QED BY <2>1, <2>3, <3>1, <3>2
  <2> QED BY <1>14, <2>2, <2>3 DEF Exclude
<1>15. ASSUME NEW p \in Sharers, PlanRemoval(p) PROVE WriterLockHeld'
  BY <1>15 DEF PlanRemoval
<1>16. ASSUME NEW p \in Sharers, PlanOnly(p) PROVE WriterLockHeld'
  BY <1>16 DEF PlanOnly
<1>17. ASSUME NEW p \in Sharers, NEW r \in Runs, RemoveRun(p, r) PROVE WriterLockHeld'
  <2>1. stage[p] = "removing" /\ (stage' = stage \/ stage' = [stage EXCEPT ![p] = "removed"])
    BY <1>17 DEF RemoveRun
  <2>2. UNCHANGED <<shared, exclusive, wpc, item, opened>>
    BY <1>17 DEF RemoveRun
  <2> QED BY <2>1, <2>2
<1>18. ASSUME NEW p \in Sharers, NEW b \in Blobs, RemoveBlob(p, b) PROVE WriterLockHeld'
  BY <1>18 DEF RemoveBlob
<1>19. ASSUME NEW p \in Sharers, Removed(p) PROVE WriterLockHeld'
  BY <1>19 DEF Removed
<1>20. ASSUME NEW p \in Sharers, EndExclude(p) PROVE WriterLockHeld'
  BY <1>20 DEF EndExclude
<1>21. CASE UNCHANGED lockVars
  BY <1>21 DEF lockVars
<1> QED
  BY <1>1, <1>2, <1>3, <1>4, <1>5, <1>6, <1>7, <1>8, <1>9, <1>10, <1>11, <1>12, <1>13, <1>14,
     <1>15, <1>16, <1>17, <1>18, <1>19, <1>20, <1>21
     DEF LocksNext, Proceed

\* serve.lock stays with a serve whose store is open.
LEMMA ServeLockStep == LocksTypeOK /\ ServeLockHeld /\ [LocksNext]_lockVars => ServeLockHeld'
<1> SUFFICES ASSUME LocksTypeOK, ServeLockHeld, [LocksNext]_lockVars PROVE ServeLockHeld'
  OBVIOUS
<1> USE LocksAssumption DEF LocksTypeOK, LockPlaces, ServeLockHeld, locks, writer, disk, removal, bounds, Enter, NoItem
<1>1. ASSUME NEW p \in Sharers, Start(p) PROVE ServeLockHeld'
  BY <1>1 DEF Start
<1>2. ASSUME NEW p \in Sharers, Share(p) PROVE ServeLockHeld'
  BY <1>2 DEF Share
<1>3. ASSUME NEW p \in Sharers, HoldServe(p) PROVE ServeLockHeld'
  BY <1>3 DEF HoldServe
<1>4. ASSUME NEW p \in Sharers, NEW r \in Runs, NEW b \in Blobs, OpenRun(p, r, b) PROVE ServeLockHeld'
  BY <1>4 DEF OpenRun
<1>5. ASSUME NEW p \in Sharers, PutBody(p) PROVE ServeLockHeld'
  BY <1>5 DEF PutBody
<1>6. ASSUME NEW p \in Sharers, AppendLine(p) PROVE ServeLockHeld'
  BY <1>6 DEF AppendLine
<1>7. ASSUME NEW p \in Sharers, NEW r \in Runs, ForgetRun(p, r) PROVE ServeLockHeld'
  BY <1>7 DEF ForgetRun
<1>8. ASSUME NEW p \in Sharers, Close(p) PROVE ServeLockHeld'
  BY <1>8 DEF Close
<1>9. ASSUME NEW p \in Sharers, ReleaseWriter(p) PROVE ServeLockHeld'
  BY <1>9 DEF ReleaseWriter
<1>10. ASSUME NEW p \in Sharers, ReleaseServe(p) PROVE ServeLockHeld'
  BY <1>10 DEF ReleaseServe
<1>11. ASSUME NEW p \in Sharers, Exit(p) PROVE ServeLockHeld'
  BY <1>11 DEF Exit
<1>12. ASSUME NEW p \in Sharers, NEW some \in SUBSET Runs, Pick(p, some) PROVE ServeLockHeld'
  BY <1>12 DEF Pick
<1>13. ASSUME NEW p \in Sharers, HoldServeToRemove(p) PROVE ServeLockHeld'
  BY <1>13 DEF HoldServeToRemove
<1>14. ASSUME NEW p \in Sharers, Exclude(p) PROVE ServeLockHeld'
  BY <1>14 DEF Exclude
<1>15. ASSUME NEW p \in Sharers, PlanRemoval(p) PROVE ServeLockHeld'
  BY <1>15 DEF PlanRemoval
<1>16. ASSUME NEW p \in Sharers, PlanOnly(p) PROVE ServeLockHeld'
  BY <1>16 DEF PlanOnly
<1>17. ASSUME NEW p \in Sharers, NEW r \in Runs, RemoveRun(p, r) PROVE ServeLockHeld'
  BY <1>17 DEF RemoveRun
<1>18. ASSUME NEW p \in Sharers, NEW b \in Blobs, RemoveBlob(p, b) PROVE ServeLockHeld'
  BY <1>18 DEF RemoveBlob
<1>19. ASSUME NEW p \in Sharers, Removed(p) PROVE ServeLockHeld'
  BY <1>19 DEF Removed
<1>20. ASSUME NEW p \in Sharers, EndExclude(p) PROVE ServeLockHeld'
  BY <1>20 DEF EndExclude
<1>21. CASE UNCHANGED lockVars
  BY <1>21 DEF lockVars
<1> QED
  BY <1>1, <1>2, <1>3, <1>4, <1>5, <1>6, <1>7, <1>8, <1>9, <1>10, <1>11, <1>12, <1>13, <1>14,
     <1>15, <1>16, <1>17, <1>18, <1>19, <1>20, <1>21
     DEF LocksNext, Proceed

-----------------------------------------------------------------------------
(* The files.                                                               *)

\* What a run's lines need is kept.
LEMMA FilesStep == LocksTypeOK /\ WriterLockHeld /\ FilesKept /\ [LocksNext]_lockVars => FilesKept'
<1> SUFFICES ASSUME LocksTypeOK, WriterLockHeld, FilesKept, [LocksNext]_lockVars PROVE FilesKept'
  OBVIOUS
<1> USE LocksAssumption DEF LocksTypeOK, LockPlaces, WriterLockHeld, Using, Removing, FilesKept, LinesHaveBodies, locks, writer, disk, removal, bounds, Enter, NoItem
<1>1. ASSUME NEW p \in Sharers, Start(p) PROVE FilesKept'
  BY <1>1 DEF Start
<1>2. ASSUME NEW p \in Sharers, Share(p) PROVE FilesKept'
  BY <1>2 DEF Share
<1>3. ASSUME NEW p \in Sharers, HoldServe(p) PROVE FilesKept'
  BY <1>3 DEF HoldServe
<1>4. ASSUME NEW p \in Sharers, NEW r \in Runs, NEW b \in Blobs, OpenRun(p, r, b) PROVE FilesKept'
  BY <1>4 DEF OpenRun
<1>5. ASSUME NEW p \in Sharers, PutBody(p) PROVE FilesKept'
  BY <1>5 DEF PutBody
<1>6. ASSUME NEW p \in Sharers, AppendLine(p) PROVE FilesKept'
  BY <1>6 DEF AppendLine
<1>7. ASSUME NEW p \in Sharers, NEW r \in Runs, ForgetRun(p, r) PROVE FilesKept'
  BY <1>7 DEF ForgetRun
<1>8. ASSUME NEW p \in Sharers, Close(p) PROVE FilesKept'
  BY <1>8 DEF Close
<1>9. ASSUME NEW p \in Sharers, ReleaseWriter(p) PROVE FilesKept'
  <2>1. stage' = [stage EXCEPT ![p] = "closed"]
    BY <1>9 DEF ReleaseWriter
  <2>2. UNCHANGED <<wpc, item, dirs, refs, blobs, pick, gone>>
    BY <1>9 DEF ReleaseWriter
  <2>3. opened' = opened \/ opened' = [opened EXCEPT ![p] = {}]
    BY <1>9 DEF ReleaseWriter
  <2>4. \A q \in Sharers : opened'[q] \subseteq dirs
    BY <2>3
  <2> QED BY <2>1, <2>2, <2>4
<1>10. ASSUME NEW p \in Sharers, ReleaseServe(p) PROVE FilesKept'
  BY <1>10 DEF ReleaseServe
<1>11. ASSUME NEW p \in Sharers, Exit(p) PROVE FilesKept'
  BY <1>11 DEF Exit
<1>12. ASSUME NEW p \in Sharers, NEW some \in SUBSET Runs, Pick(p, some) PROVE FilesKept'
  BY <1>12 DEF Pick
<1>13. ASSUME NEW p \in Sharers, HoldServeToRemove(p) PROVE FilesKept'
  <2>1. \E place \in {"rm_serve", "refused"} : stage' = [stage EXCEPT ![p] = place]
    BY <1>13 DEF HoldServeToRemove
  <2>2. UNCHANGED <<wpc, item, opened, dirs, refs, blobs, pick, gone>>
    BY <1>13 DEF HoldServeToRemove
  <2> QED BY <2>1, <2>2
<1>14. ASSUME NEW p \in Sharers, Exclude(p) PROVE FilesKept'
  <2>1. \E place \in {"planning", "closed"} : stage' = [stage EXCEPT ![p] = place]
    BY <1>14 DEF Exclude
  <2>2. UNCHANGED <<wpc, item, opened, dirs, refs, blobs, pick, gone>>
    BY <1>14 DEF Exclude
  <2> QED BY <2>1, <2>2
<1>15. ASSUME NEW p \in Sharers, PlanRemoval(p) PROVE FilesKept'
  <2>1. UNCHANGED <<wpc, item, opened, dirs, refs, blobs, pick>> /\ stage' = [stage EXCEPT ![p] = "removing"]
    BY <1>15 DEF PlanRemoval
  <2>2. \A r \in dirs \ pick[p] : refs[r] \cap gone'[p] = {}
    BY <1>15 DEF PlanRemoval, Named
  <2>3. \A q \in Sharers \ {p} : gone'[q] = gone[q]
    BY <1>15 DEF PlanRemoval
  <2> QED BY <2>1, <2>2, <2>3
<1>16. ASSUME NEW p \in Sharers, PlanOnly(p) PROVE FilesKept'
  BY <1>16 DEF PlanOnly
<1>17. ASSUME NEW p \in Sharers, NEW r \in Runs, RemoveRun(p, r) PROVE FilesKept'
  <2>1. \A q \in Sharers : opened[q] = {} /\ wpc[q] = "idle"
    BY <1>17 DEF RemoveRun
  <2>2. UNCHANGED <<wpc, item, opened, blobs, gone>>
    BY <1>17 DEF RemoveRun
  <2>3. CASE r \in dirs
    <3>1. dirs' = dirs \ {r} /\ refs' = [refs EXCEPT ![r] = {}] /\ stage' = stage
      BY <1>17, <2>3 DEF RemoveRun
    <3>2. pick' = [pick EXCEPT ![p] = pick[p] \ {r}]
      BY <1>17, <2>3 DEF RemoveRun
    <3>3. \A q \in Sharers : dirs' \ pick'[q] \subseteq dirs \ pick[q]
      BY <3>1, <3>2
    <3> QED BY <2>1, <2>2, <3>1, <3>3
  <2>4. CASE r \notin dirs
    <3>1. UNCHANGED <<dirs, refs, pick>> /\ stage' = [stage EXCEPT ![p] = "removed"]
      BY <1>17, <2>4 DEF RemoveRun
    <3> QED BY <2>2, <3>1
  <2> QED BY <2>3, <2>4
<1>18. ASSUME NEW p \in Sharers, NEW b \in Blobs, RemoveBlob(p, b) PROVE FilesKept'
  <2>1. \A q \in Sharers : opened[q] = {} /\ wpc[q] = "idle"
    BY <1>18 DEF RemoveBlob
  <2>2. UNCHANGED <<stage, wpc, item, opened, dirs, refs, pick>>
    BY <1>18 DEF RemoveBlob
  <2>3. \A r \in dirs : b \notin refs[r]
    BY <1>18 DEF RemoveBlob
  <2>4. blobs' = blobs \ {b} /\ \A q \in Sharers : gone'[q] \subseteq gone[q]
    BY <1>18 DEF RemoveBlob
  <2> QED BY <2>1, <2>2, <2>3, <2>4
<1>19. ASSUME NEW p \in Sharers, Removed(p) PROVE FilesKept'
  BY <1>19 DEF Removed
<1>20. ASSUME NEW p \in Sharers, EndExclude(p) PROVE FilesKept'
  BY <1>20 DEF EndExclude
<1>21. CASE UNCHANGED lockVars
  BY <1>21 DEF lockVars
<1> QED
  BY <1>1, <1>2, <1>3, <1>4, <1>5, <1>6, <1>7, <1>8, <1>9, <1>10, <1>11, <1>12, <1>13, <1>14,
     <1>15, <1>16, <1>17, <1>18, <1>19, <1>20, <1>21
     DEF LocksNext, Proceed

-----------------------------------------------------------------------------
(* The results.                                                             *)

\* The invariant holds at the start.
LEMMA LocksInitially == LocksInit => LocksInv
BY LocksAssumption DEF LocksInit, LocksInv, LocksTypeOK, LockPlaces, WriterLockHeld, ServeLockHeld, FilesKept,
   LinesHaveBodies, Using, Removing, NoItem

\* And every step keeps it.
LEMMA LocksKept == LocksInv /\ [LocksNext]_lockVars => LocksInv'
BY LocksTypeStep, WriterLockStep, ServeLockStep, FilesStep DEF LocksInv

\* The invariant holds of every instance: the writer lock and serve.lock are
\* held by those that use what they protect, and the files agree.
THEOREM LocksInvariant == LocksSpec => []LocksInv
BY LocksInitially, LocksKept, PTL DEF LocksSpec

\* Every variable keeps its type.
THEOREM LocksTyped == LocksSpec => []LocksTypeOK
<1>1. LocksInv => LocksTypeOK
  BY DEF LocksInv
<1> QED BY <1>1, LocksInvariant, PTL

\* Every stored line keeps its body, whatever is deleted and whoever is killed.
THEOREM BodiesKept == LocksSpec => []LinesHaveBodies
<1>1. LocksInv => LinesHaveBodies
  BY DEF LocksInv, FilesKept
<1> QED BY <1>1, LocksInvariant, PTL

\* Two serves never have one store open, and one that is late is not followed
\* by more than its last event.
THEOREM OneServe == LocksSpec => []OneServeWrites
<1>1. LocksInv => OneServeWrites
  BY LocksAssumption DEF LocksInv, LocksTypeOK, WriterLockHeld, ServeLockHeld, OneServeWrites, Using
<1> QED BY <1>1, LocksInvariant, PTL

\* The two together: what the locks protect.
THEOREM Protected == LocksSpec => []LocksProtect
BY OneServe, BodiesKept, PTL DEF LocksProtect

\* A run that a store has open is not deleted.
THEOREM InUseStay == LocksSpec => RunsInUseStay
<1>1. LocksInv /\ [LocksNext]_lockVars => [\A r \in dirs \ dirs' : \A p \in Sharers : r \notin opened[p]]_lockVars
  <2> SUFFICES ASSUME LocksInv, LocksNext PROVE \A r \in dirs \ dirs' : \A p \in Sharers : r \notin opened[p]
    OBVIOUS
  <2>1. ASSUME NEW p \in Sharers, NEW r \in Runs, RemoveRun(p, r)
        PROVE  \A q \in Sharers : opened[q] = {}
    BY <2>1, LocksAssumption DEF RemoveRun, LocksInv, LocksTypeOK, WriterLockHeld, Removing
  <2>2. \/ dirs \subseteq dirs'
        \/ \E p \in Sharers, r \in Runs : RemoveRun(p, r)
    BY DEF LocksNext, Proceed, Start, Share, HoldServe, OpenRun, PutBody, AppendLine, ForgetRun, Close,
       ReleaseWriter, ReleaseServe, Exit, Pick, HoldServeToRemove, Exclude, PlanRemoval, PlanOnly,
       RemoveBlob, Removed, EndExclude, disk
  <2> QED BY <2>1, <2>2
<1> QED BY <1>1, LocksInvariant, PTL DEF LocksSpec, RunsInUseStay

=============================================================================
