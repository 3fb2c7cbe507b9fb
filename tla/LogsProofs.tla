------------------------------ MODULE LogsProofs ------------------------------
(***************************************************************************)
(* Every byte of a run's output is kept, and no page misses an event       *)
(* without being told, whatever the faults; and a page shows each byte in  *)
(* its place where one stream writes and nothing repeats, deletes or       *)
(* lapses: for any number of pages, any size of their buffers, any output. *)
(***************************************************************************)
EXTENDS Logs, EventStreamProofs, WellFoundedInduction

-----------------------------------------------------------------------------
(* Sequences made of sequences *)

\* Induction: the set of those that have a property has no gap.
LEMMA Induct ==
  ASSUME NEW T, T \subseteq Nat, 0 \in T, \A n \in T : n + 1 \in T
  PROVE  T = Nat
<1> DEFINE R == OpToRel(<,Nat)
           Rest == Nat \ T
<1> SUFFICES ASSUME Rest # {} PROVE FALSE
  OBVIOUS
<1>1. IsWellFoundedOn(R, Nat)
  BY NatLessThanWellFounded
<1> HIDE DEF R
<1>2. PICK x \in Rest : \A y \in Rest : ~(<<y, x>> \in R)
  <2>1. Rest \subseteq Nat
    OBVIOUS
  <2> HIDE DEF Rest
  <2> QED BY <1>1, <2>1, WFMin
<1>3. x \in Nat \ {0} /\ x - 1 \in Nat /\ x - 1 < x /\ (x - 1) + 1 = x
  OBVIOUS
<1>4. x - 1 \in T
  BY <1>2, <1>3 DEF R, OpToRel
<1> QED BY <1>3, <1>4

\* What adds the sequences up.
Sums(ss, f) == f = [i \in 1..Len(ss) |-> IF i = 1 THEN ss[i] ELSE f[i - 1] \o ss[i]]

\* There is a function that does.
LEMMA SumsExist ==
  ASSUME NEW S, NEW ss \in Seq(Seq(S))
  PROVE  \E f : Sums(ss, f) /\ f \in [1..Len(ss) -> Seq(S)]
<1> DEFINE Upto(n, f) == /\ f \in [1..n -> Seq(S)]
                         /\ \A i \in 1..n : f[i] = IF i = 1 THEN ss[i] ELSE f[i - 1] \o ss[i]
           T == {n \in Nat : n <= Len(ss) => \E f : Upto(n, f)}
<1>1. 0 \in T
  <2>1. Upto(0, <<>>)
    OBVIOUS
  <2> QED BY <2>1
<1>2. ASSUME NEW n \in T
      PROVE  n + 1 \in T
  <2>0. n \in Nat /\ n + 1 \in Nat /\ (n <= Len(ss) => \E f : Upto(n, f))
    OBVIOUS
  <2> SUFFICES ASSUME n + 1 <= Len(ss)
               PROVE  \E f : Upto(n + 1, f)
    BY <2>0
  <2>1. Len(ss) \in Nat /\ n + 1 <= Len(ss)
    OBVIOUS
  <2>2. n \in Nat /\ n <= Len(ss)
    BY <2>0, <2>1
  <2>3. PICK f : Upto(n, f)
    BY <2>0, <2>2
  <2> DEFINE g == [i \in 1..(n + 1) |-> IF i <= n THEN f[i] ELSE IF i = 1 THEN ss[i] ELSE f[i - 1] \o ss[i]]
  <2>4. ASSUME NEW i \in 1..(n + 1)
        PROVE  ss[i] \in Seq(S) /\ g[i] \in Seq(S) /\ g[i] = IF i = 1 THEN ss[i] ELSE g[i - 1] \o ss[i]
    <3>1. ss[i] \in Seq(S) /\ i \in Nat
      BY <2>1, <2>2
    <3>2. CASE i <= n
      <4>1. i \in 1..n /\ g[i] = f[i] /\ f[i] \in Seq(S)
        BY <2>2, <2>3, <3>1, <3>2
      <4>2. i # 1 => i - 1 \in 1..n /\ g[i - 1] = f[i - 1]
        BY <2>2, <3>1, <3>2
      <4> QED BY <2>3, <3>1, <4>1, <4>2
    <3>3. CASE ~(i <= n) /\ i = 1
      BY <2>2, <2>3, <3>1, <3>3
    <3>4. CASE ~(i <= n) /\ i # 1
      <4>1. i - 1 \in 1..n /\ i - 1 \in 1..(n + 1) /\ i - 1 <= n /\ f[i - 1] \in Seq(S)
        BY <2>2, <2>3, <3>4
      <4>2. f[i - 1] \o ss[i] \in Seq(S)
        BY <3>1, <4>1, ConcatProperties
      <4>3. g[i] = f[i - 1] \o ss[i] /\ g[i - 1] = f[i - 1]
        BY <3>4, <4>1
      <4> QED BY <3>1, <3>4, <4>2, <4>3
    <3> QED BY <3>2, <3>3, <3>4
  <2>5. Upto(n + 1, g)
    BY <2>4
  <2> QED BY <2>5
<1> HIDE DEF Upto
<1>3. T = Nat
  BY <1>1, <1>2, Induct
<1>4. PICK f : Upto(Len(ss), f)
  <2>1. Len(ss) \in Nat /\ Len(ss) <= Len(ss)
    BY LenProperties
  <2> QED BY <1>3, <2>1
<1>5. f = [i \in 1..Len(ss) |-> IF i = 1 THEN ss[i] ELSE f[i - 1] \o ss[i]]
  BY <1>4 DEF Upto
<1> QED BY <1>4, <1>5 DEF Upto, Sums

\* It ends in what FlattenSeq makes.
LEMMA FlattenSums ==
  ASSUME NEW ss, \E f : Sums(ss, f), Len(ss) # 0
  PROVE  \E f : Sums(ss, f) /\ FlattenSeq(ss) = f[Len(ss)]
<1> DEFINE flatten == CHOOSE f : f = [i \in 1..Len(ss) |-> IF i = 1 THEN ss[i] ELSE f[i - 1] \o ss[i]]
<1>1. FlattenSeq(ss) = flatten[Len(ss)]
  BY DEF FlattenSeq
<1>2. flatten = [i \in 1..Len(ss) |-> IF i = 1 THEN ss[i] ELSE flatten[i - 1] \o ss[i]]
  <2>1. \E f : f = [i \in 1..Len(ss) |-> IF i = 1 THEN ss[i] ELSE f[i - 1] \o ss[i]]
    BY DEF Sums
  <2> QED BY <2>1, Zenon
<1> HIDE DEF flatten
<1> QED BY <1>1, <1>2 DEF Sums

\* They have the same first l elements.
Agree(s, t, l) == \A i \in 1..l : s[i] = t[i]

\* Sums are determined from the beginning on.
LEMMA SumsAgree ==
  ASSUME NEW ss, NEW tt, NEW f, NEW g, NEW l \in Nat, Len(ss) \in Nat, Len(tt) \in Nat,
         Sums(ss, f), Sums(tt, g), l <= Len(ss), l <= Len(tt),
         Agree(ss, tt, l)
  PROVE  Agree(f, g, l)
<1> DEFINE T == {n \in Nat : n \in 1..l => f[n] = g[n]}
<1>1. 0 \in T
  OBVIOUS
<1>2. ASSUME NEW n \in T
      PROVE  n + 1 \in T
  <2>1. n \in Nat /\ n + 1 \in Nat /\ (n \in 1..l => f[n] = g[n])
    OBVIOUS
  <2>2. ASSUME n + 1 \in 1..l
        PROVE  f[n + 1] = g[n + 1]
    <3>1. n + 1 \in 1..Len(ss) /\ n + 1 \in 1..Len(tt) /\ ss[n + 1] = tt[n + 1] /\ (n + 1) - 1 = n
      BY <2>1, <2>2 DEF Agree
    <3>2. /\ f[n + 1] = IF n + 1 = 1 THEN ss[n + 1] ELSE f[(n + 1) - 1] \o ss[n + 1]
          /\ g[n + 1] = IF n + 1 = 1 THEN tt[n + 1] ELSE g[(n + 1) - 1] \o tt[n + 1]
      BY <3>1 DEF Sums
    <3>3. n + 1 # 1 => n \in 1..l
      BY <2>1, <2>2
    <3> QED BY <2>1, <3>1, <3>2, <3>3
  <2> QED BY <2>1, <2>2
<1>3. T = Nat
  <2>1. T \subseteq Nat
    OBVIOUS
  <2> HIDE DEF T
  <2> QED BY <1>1, <1>2, <2>1, Induct
<1> SUFFICES ASSUME NEW i \in 1..l PROVE f[i] = g[i]
  BY DEF Agree
<1>4. i \in T
  <2>1. i \in Nat
    OBVIOUS
  <2> QED BY <1>3, <2>1
<1> QED BY <1>4

\* Flattening, one sequence after the other.
LEMMA FlattenAppend ==
  ASSUME NEW S, NEW ss \in Seq(Seq(S)), NEW s \in Seq(S)
  PROVE  /\ FlattenSeq(<<>>) = <<>>
         /\ FlattenSeq(ss) \in Seq(S)
         /\ FlattenSeq(Append(ss, s)) = FlattenSeq(ss) \o s
<1>0. PICK longer : longer = Append(ss, s)
  OBVIOUS
<1>1. /\ longer \in Seq(Seq(S)) /\ Len(longer) = Len(ss) + 1 /\ Len(ss) \in Nat
      /\ \A i \in 1..Len(ss) : longer[i] = ss[i]
      /\ longer[Len(ss) + 1] = s
  BY <1>0, AppendProperties
<1>2. FlattenSeq(<<>>) = <<>>
  BY DEF FlattenSeq
<1>3. PICK f : Sums(ss, f) /\ (Len(ss) # 0 => FlattenSeq(ss) = f[Len(ss)])
  BY SumsExist, FlattenSums
<1>4. PICK g : Sums(longer, g) /\ FlattenSeq(longer) = g[Len(longer)]
  <2>1. \E g : Sums(longer, g)
    BY <1>1, SumsExist
  <2> QED BY <1>1, <2>1, FlattenSums
<1>5. PICK h \in [1..Len(ss) -> Seq(S)] : Sums(ss, h)
  BY SumsExist
<1>6. FlattenSeq(ss) \in Seq(S)
  <2>1. CASE Len(ss) = 0
    <3>1. ss = <<>>
      BY <2>1, EmptySeq
    <3> QED BY <1>2, <3>1, EmptySeq
  <2>2. CASE Len(ss) # 0
    <3>1. Len(ss) \in 1..Len(ss)
      BY <1>1, <2>2
    <3>2. f[Len(ss)] = h[Len(ss)]
      <4>1. Agree(ss, ss, Len(ss))
        BY DEF Agree
      <4>2. Len(ss) \in Nat /\ Len(ss) <= Len(ss) /\ Sums(ss, f) /\ Sums(ss, h)
        BY <1>1, <1>3, <1>5
      <4>3. Agree(f, h, Len(ss))
        BY <4>1, <4>2, SumsAgree
      <4> QED BY <3>1, <4>3 DEF Agree
    <3> QED BY <1>3, <1>5, <2>2, <3>1, <3>2
  <2> QED BY <2>1, <2>2
<1>7. FlattenSeq(longer) = FlattenSeq(ss) \o s
  <2>1. g[Len(longer)] = IF Len(longer) = 1 THEN longer[Len(longer)] ELSE g[Len(longer) - 1] \o longer[Len(longer)]
    <3>1. Len(longer) \in 1..Len(longer)
      BY <1>1
    <3> QED BY <1>4, <3>1 DEF Sums
  <2>2. CASE Len(ss) = 0
    <3>1. ss = <<>> /\ FlattenSeq(ss) = <<>>
      BY <1>2, <2>2, EmptySeq
    <3>2. <<>> \o s = s
      BY ConcatEmptySeq
    <3> QED BY <1>1, <1>4, <2>1, <2>2, <3>1, <3>2
  <2>3. CASE Len(ss) # 0
    <3>1. Len(ss) \in 1..Len(ss) /\ Len(longer) # 1 /\ Len(longer) - 1 = Len(ss) /\ Len(ss) <= Len(longer)
      BY <1>1, <2>3
    <3>2. f[Len(ss)] = g[Len(ss)]
      <4>1. /\ Len(ss) \in Nat /\ Len(longer) \in Nat
            /\ Len(ss) <= Len(ss) /\ Len(ss) <= Len(longer)
            /\ Sums(ss, f) /\ Sums(longer, g)
        BY <1>1, <1>3, <1>4, <3>1
      <4>2. Agree(ss, longer, Len(ss))
        BY <1>1 DEF Agree
      <4>3. Agree(f, g, Len(ss))
        BY <4>1, <4>2, SumsAgree
      <4> QED BY <3>1, <4>3 DEF Agree
    <3> QED BY <1>1, <1>3, <1>4, <2>1, <2>3, <3>1, <3>2
  <2> QED BY <2>2, <2>3
<1> QED BY <1>0, <1>2, <1>6, <1>7

\* Induction over sequences.
LEMMA SeqInduct ==
  ASSUME NEW S, NEW P, P \subseteq Seq(S), <<>> \in P,
         \A s \in P, e \in S : Append(s, e) \in P
  PROVE  P = Seq(S)
<1> DEFINE T == {n \in Nat : \A s \in Seq(S) : Len(s) = n => s \in P}
<1>1. 0 \in T
  BY EmptySeq
<1>2. ASSUME NEW n \in T PROVE n + 1 \in T
  <2>1. ASSUME NEW s \in Seq(S), Len(s) = n + 1 PROVE s \in P
    <3>1. s # <<>>
      BY <2>1, EmptySeq
    <3>2. PICK t \in Seq(S), e \in S : s = Append(t, e)
      BY <3>1, SequenceEmptyOrAppend
    <3>3. Len(s) = Len(t) + 1 /\ Len(t) \in Nat
      BY <3>2, AppendProperties
    <3>4. Len(t) = n
      BY <2>1, <3>3
    <3> QED BY <3>2, <3>4
  <2> QED BY <2>1
<1>3. T = Nat
  <2>1. T \subseteq Nat
    OBVIOUS
  <2> HIDE DEF T
  <2> QED BY <1>1, <1>2, <2>1, Induct
<1>4. ASSUME NEW s \in Seq(S) PROVE s \in P
  <2>1. Len(s) \in T
    BY <1>3, LenProperties
  <2> QED BY <2>1
<1> QED BY <1>4

\* What is in the sequences is in what they make.
LEMMA FlattenRange ==
  ASSUME NEW S, NEW ss \in Seq(Seq(S)), NEW x
  PROVE  x \in Range(FlattenSeq(ss)) <=> \E i \in 1..Len(ss) : x \in Range(ss[i])
<1> DEFINE Holds(tt) == x \in Range(FlattenSeq(tt)) <=> \E i \in 1..Len(tt) : x \in Range(tt[i])
           P == {tt \in Seq(Seq(S)) : Holds(tt)}
<1>1. <<>> \in P
  <2>1. FlattenSeq(<<>>) = <<>> /\ <<>> \in Seq(S)
    BY FlattenAppend, EmptySeq
  <2>2. Range(<<>>) = {}
    BY DEF Range
  <2> QED BY <2>1, <2>2, EmptySeq
<1>2. ASSUME NEW tt \in P, NEW s \in Seq(S) PROVE Append(tt, s) \in P
  <2> DEFINE uu == Append(tt, s)
  <2>1. /\ tt \in Seq(Seq(S)) /\ Holds(tt)
        /\ FlattenSeq(tt) \in Seq(S) /\ FlattenSeq(uu) = FlattenSeq(tt) \o s
    BY FlattenAppend
  <2>2. /\ uu \in Seq(Seq(S)) /\ Len(uu) = Len(tt) + 1 /\ Len(tt) \in Nat
        /\ \A i \in 1..Len(tt) : uu[i] = tt[i]
        /\ uu[Len(tt) + 1] = s
    BY <2>1, AppendProperties
  <2>3. Range(FlattenSeq(uu)) = Range(FlattenSeq(tt)) \union Range(s)
    BY <2>1, RangeConcatenation
  <2> HIDE DEF uu
  <2>4. (\E i \in 1..Len(uu) : x \in Range(uu[i]))
          <=> (\E i \in 1..Len(tt) : x \in Range(tt[i])) \/ x \in Range(s)
    <3>1. 1..Len(uu) = 1..Len(tt) \union {Len(tt) + 1}
      BY <2>2
    <3> QED BY <2>2, <3>1
  <2>5. Holds(uu)
    BY <2>1, <2>3, <2>4
  <2> QED BY <2>2, <2>5 DEF uu
<1>3. P = Seq(Seq(S))
  <2>1. P \subseteq Seq(Seq(S))
    OBVIOUS
  <2> HIDE DEF P
  <2> QED BY <1>1, <1>2, <2>1, SeqInduct
<1> QED BY <1>3

-----------------------------------------------------------------------------
(* The events of the chunks *)

\* A row of the table chunks, and the event of it.
ChunkRow == [mine : BOOLEAN, offset : Nat, data : Seq(Int)]

\* What reaches the table chunks, and so the events, is chunks.
ChunksTyped ==
  /\ chunks \in Seq(ChunkRow)
  /\ writer \in [started : BOOLEAN, offset : Nat, state : {"open", "closed", "failed"}]
  /\ produced \in Nat
  /\ writing \in [Stream -> [pc : {"idle", "read", "put", "ended"},
                             data : Seq(Int), at : Nat]]

\* The events and the subscriptions agree, and the chunks are chunks.
StreamedInv == StreamInv(ChunkRow) /\ ChunksTyped

\* One or two bytes are data.
LEMMA BytesTyped ==
  ASSUME NEW a \in Int, NEW b \in Int
  PROVE  <<a>> \in Seq(Int) /\ <<a, b>> \in Seq(Int)
<1>2. \A i \in 1..2 : <<a, b>>[i] \in Int
  OBVIOUS
<1>3. <<a, b>> \in [1..2 -> Int]
  BY <1>2
<1>4. <<a>> \in Seq(Int)
  OBVIOUS
<1> QED BY <1>3, <1>4, SeqDef

\* A chunk made of an offset and data is a chunk.
LEMMA ChunkTyped ==
  ASSUME NEW offset \in Nat, NEW data \in Seq(Int)
  PROVE  Chunk(offset, data) \in ChunkRow
BY DEF Chunk, ChunkRow

\* A row of the table chunks has an offset and data.
LEMMA RowsTyped ==
  ASSUME NEW cs \in Seq(ChunkRow)
  PROVE  /\ Len(cs) \in Nat /\ DOMAIN cs = 1..Len(cs)
         /\ \A i \in 1..Len(cs) :
              cs[i] \in ChunkRow /\ cs[i].offset \in Nat /\ cs[i].data \in Seq(Int)
<1>1. \A i \in 1..Len(cs) : cs[i] \in ChunkRow
  BY ElementOfSeq
<1> QED BY <1>1, LenProperties DEF ChunkRow

\* The rows after an insertion are the rows before it and the new one.
LEMMA InsertedRows ==
  ASSUME chunks \in Seq(ChunkRow), NEW chunk \in ChunkRow, NEW inOrder \in Insertions(chunk)
  PROVE  /\ inOrder \in Seq(ChunkRow)
         /\ \A k \in 1..Len(inOrder) :
              inOrder[k] = chunk \/ \E i \in 1..Len(chunks) : inOrder[k] = chunks[i]
         /\ \E k \in 1..Len(inOrder) : inOrder[k] = chunk
         /\ \A i \in 1..Len(chunks) : \E k \in 1..Len(inOrder) : inOrder[k] = chunks[i]
<1>1. PICK i \in 1..(Len(chunks) + 1) : inOrder = InsertAt(chunks, i, chunk)
  BY DEF Insertions
<1> DEFINE l == Len(chunks)
           left == SubSeq(chunks, 1, i - 1)
           right == SubSeq(chunks, i, Len(chunks))
           most == left \o <<chunk>>
<1>2. l \in Nat /\ i \in Nat /\ i - 1 \in 0..l /\ i \in 1..(l + 1)
  BY LenProperties
<1>3. /\ left \in Seq(ChunkRow) /\ Len(left) = i - 1
      /\ \A k \in 1..(i - 1) : left[k] = chunks[k]
  <2>1. \A m \in 1..(i - 1) : chunks[m] \in ChunkRow
    BY <1>2, ElementOfSeq
  <2>2. /\ left \in Seq(ChunkRow) /\ Len(left) = IF 1 <= i - 1 THEN i - 1 - 1 + 1 ELSE 0
        /\ \A k \in 1..(i - 1) - 1 + 1 : left[k] = chunks[1 + k - 1]
    BY <1>2, <2>1, SubSeqProperties
  <2> HIDE DEF left
  <2> QED BY <1>2, <2>2
<1>4. /\ right \in Seq(ChunkRow) /\ Len(right) = l - i + 1
      /\ \A k \in 1..(l - i + 1) : right[k] = chunks[i + k - 1]
  <2>1. \A m \in i..l : chunks[m] \in ChunkRow
    BY <1>2, ElementOfSeq
  <2>2. /\ right \in Seq(ChunkRow) /\ Len(right) = IF i <= l THEN l - i + 1 ELSE 0
        /\ \A k \in 1..(l - i + 1) : right[k] = chunks[i + k - 1]
    BY <1>2, <2>1, SubSeqProperties
  <2> HIDE DEF right
  <2> QED BY <1>2, <2>2
<1> HIDE DEF left, right, l
<1>5. /\ most \in Seq(ChunkRow) /\ Len(most) = i
      /\ \A k \in 1..i : most[k] = IF k <= i - 1 THEN chunks[k] ELSE chunk
  <2>1. <<chunk>> \in Seq(ChunkRow) /\ Len(<<chunk>>) = 1 /\ <<chunk>>[1] = chunk
    OBVIOUS
  <2>2. /\ most \in Seq(ChunkRow) /\ Len(most) = Len(left) + 1
        /\ \A k \in 1..(Len(left) + 1) :
             most[k] = IF k <= Len(left) THEN left[k] ELSE <<chunk>>[k - Len(left)]
    BY <1>3, <2>1, ConcatProperties
  <2> HIDE DEF most
  <2>3. (i - 1) + 1 = i /\ i - (i - 1) = 1
    BY <1>2
  <2>4. ASSUME NEW k \in 1..i
        PROVE  most[k] = IF k <= i - 1 THEN chunks[k] ELSE chunk
    <3>1. k <= i - 1 \/ k = i
      BY <1>2
    <3> QED BY <1>2, <1>3, <2>1, <2>2, <2>3, <3>1
  <2> QED BY <1>3, <2>2, <2>3, <2>4
<1> HIDE DEF most
<1>6. /\ inOrder \in Seq(ChunkRow) /\ Len(inOrder) = l + 1
      /\ \A k \in 1..(l + 1) :
           inOrder[k] = IF k <= i THEN most[k] ELSE right[k - i]
  <2>1. inOrder = most \o right
    BY <1>1 DEF InsertAt, most, left, right
  <2>2. i + (l - i + 1) = l + 1
    BY <1>2
  <2>3. /\ most \o right \in Seq(ChunkRow) /\ Len(most \o right) = Len(most) + Len(right)
        /\ \A k \in 1..(Len(most) + Len(right)) :
             (most \o right)[k] = IF k <= Len(most) THEN most[k] ELSE right[k - Len(most)]
    BY <1>4, <1>5, ConcatProperties
  <2>4. Len(most) = i /\ Len(right) = l - i + 1
    BY <1>4, <1>5
  <2> QED BY <2>1, <2>2, <2>3, <2>4
<1>7. ASSUME NEW k \in 1..(l + 1)
      PROVE  inOrder[k] = IF k < i THEN chunks[k] ELSE IF k = i THEN chunk ELSE chunks[k - 1]
  <2>1. CASE k < i
    BY <1>2, <1>5, <1>6, <2>1
  <2>2. CASE k = i
    BY <1>2, <1>5, <1>6, <2>2
  <2>3. CASE k > i
    <3>1. k - i \in 1..(l - i + 1) /\ i + (k - i) - 1 = k - 1
      BY <1>2, <2>3
    <3>2. right[k - i] = chunks[k - 1]
      BY <1>4, <3>1
    <3>3. inOrder[k] = right[k - i]
      BY <1>2, <1>6, <2>3
    <3> QED BY <1>2, <2>3, <3>2, <3>3
  <2> QED BY <1>2, <2>1, <2>2, <2>3
<1>8. ASSUME NEW j \in 1..l PROVE \E k \in 1..(l + 1) : inOrder[k] = chunks[j]
  <2>1. CASE j < i
    <3>1. j \in 1..(l + 1) /\ inOrder[j] = chunks[j]
      BY <1>2, <1>7, <2>1
    <3> QED BY <3>1
  <2>2. CASE j >= i
    <3>1. j + 1 \in 1..(l + 1) /\ (j + 1) - 1 = j /\ ~(j + 1 < i) /\ j + 1 # i
      BY <1>2, <2>2
    <3>2. inOrder[j + 1] = chunks[j]
      BY <1>7, <3>1
    <3> QED BY <3>1, <3>2
  <2> QED BY <1>2, <2>1, <2>2
<1>9. ASSUME NEW k \in 1..(l + 1)
      PROVE  inOrder[k] = chunk \/ \E j \in 1..l : inOrder[k] = chunks[j]
  <2>1. k < i => k \in 1..l
    BY <1>2
  <2>2. k > i => k - 1 \in 1..l
    BY <1>2
  <2> QED BY <1>2, <1>7, <2>1, <2>2
<1>10. i \in 1..(l + 1) /\ inOrder[i] = chunk
  BY <1>2, <1>7
<1> QED BY <1>6, <1>8, <1>9, <1>10 DEF l

\* putChunk commits its chunk, and with the last one the rows it deletes.
LEMMA PutChunkInv ==
  ASSUME StreamedInv, NEW chunk \in ChunkRow, putChunk(chunk)
  PROVE  StreamInv(ChunkRow)' /\ chunks' \in Seq(ChunkRow)
<1>1. PICK inOrder \in Insertions(chunk) :
        \/ chunks' = <<>> /\ build_and_send_event(<<chunk>> \o inOrder)
        \/ chunks' = inOrder /\ build_and_send_event(<<chunk>>)
  BY DEF putChunk
<1>2. inOrder \in Seq(ChunkRow)
  BY InsertedRows DEF StreamedInv, ChunksTyped
<1>3. <<chunk>> \in Seq(ChunkRow) /\ <<>> \in Seq(ChunkRow)
  BY EmptySeq
<1>4. <<chunk>> \o inOrder \in Seq(ChunkRow)
  BY <1>2, <1>3, ConcatProperties
<1>5. UNCHANGED <<listener, enabled, subs, lapsed>> /\ StreamInv(ChunkRow)
  BY DEF putChunk, StreamedInv
<1>6. StreamInv(ChunkRow)'
  BY <1>1, <1>3, <1>4, <1>5, CommitInv
<1> QED BY <1>1, <1>2, <1>3, <1>6

\* The invariant holds before anything is output.
LEMMA LogsInitInv == Init => StreamedInv
<1> SUFFICES ASSUME Init PROVE StreamedInv
  OBVIOUS
<1>1. StreamInv(ChunkRow)
  BY StreamInitInv DEF Init
<1>2. <<>> \in Seq(ChunkRow) /\ <<>> \in Seq(Int)
  BY EmptySeq
<1>3. Quiet \in [pc : {"idle", "read", "put", "ended"}, data : Seq(Int), at : Nat]
  BY <1>2 DEF Quiet
<1>4. ChunksTyped
  BY <1>2, <1>3 DEF Init, ChunksTyped
<1> QED BY <1>1, <1>4 DEF StreamedInv

\* The two halves of a Write, and its failure, touch no table.
LEMMA WriteInv ==
  ASSUME StreamedInv, NEW g \in Stream, WriteReads(g) \/ WriteSets(g) \/ WriteFails(g)
  PROVE  StreamedInv'
<1> USE DEF StreamedInv
<1>1. UNCHANGED streamVars /\ UNCHANGED chunks
  BY DEF WriteReads, WriteSets, WriteFails, store
<1>2. StreamInv(ChunkRow)'
  BY <1>1 DEF streamVars, StreamInv, StreamTypeOK, InFlight, DownIsDisabled, Consecutive
<1> DEFINE Writing == [pc : {"idle", "read", "put", "ended"}, data : Seq(Int), at : Nat]
<1>3. writing[g] \in Writing
  BY DEF ChunksTyped
<1>4. CASE WriteReads(g)
  <2>1. produced' \in Nat /\ produced' \in Int /\ UNCHANGED writer
    BY <1>4 DEF WriteReads, ChunksTyped
  <2>2. PICK data : /\ data \in {<<produced'>>, <<STX, produced'>>}
                    /\ writing' = [writing EXCEPT ![g] =
                         [pc |-> "read", at |-> writer.offset, data |-> data]]
    BY <1>4 DEF WriteReads
  <2>3. data \in Seq(Int)
    <3>1. STX \in Int
      BY DEF STX
    <3> QED BY <2>1, <2>2, <3>1, BytesTyped
  <2>4. [pc |-> "read", at |-> writer.offset, data |-> data] \in Writing
    BY <2>3 DEF ChunksTyped
  <2> QED BY <1>1, <1>2, <2>1, <2>2, <2>4 DEF ChunksTyped
<1>5. CASE WriteSets(g)
  <2>1. /\ writing' = [writing EXCEPT ![g] = [writing[g] EXCEPT !.pc = "put"]]
        /\ UNCHANGED produced
        /\ writer' = [writer EXCEPT !.started = TRUE,
                        !.offset = writing[g].at + Len(writing[g].data)]
    BY <1>5 DEF WriteSets
  <2>2. [writing[g] EXCEPT !.pc = "put"] \in Writing
    BY <1>3
  <2>3. writing[g].at + Len(writing[g].data) \in Nat
    BY <1>3, LenProperties
  <2>4. writer' \in [started : BOOLEAN, offset : Nat, state : {"open", "closed", "failed"}]
    BY <2>1, <2>3 DEF ChunksTyped
  <2> QED BY <1>1, <1>2, <2>1, <2>2, <2>4 DEF ChunksTyped
<1>6. CASE WriteFails(g)
  <2>1. [Quiet EXCEPT !.pc = "ended"] \in Writing
    BY EmptySeq DEF Quiet
  <2> QED BY <1>1, <1>2, <1>6, <2>1 DEF WriteFails, ChunksTyped
<1> QED BY <1>4, <1>5, <1>6

\* A Write that puts its chunk, once or again.
LEMMA WritePutsInv ==
  ASSUME StreamedInv, NEW g \in Stream, WritePuts(g) \/ WriteRetries(g)
  PROVE  StreamedInv'
<1> DEFINE Writing == [pc : {"idle", "read", "put", "ended"}, data : Seq(Int), at : Nat]
<1>1. writing[g] \in Writing
  BY DEF StreamedInv, ChunksTyped
<1>2. Chunk(writing[g].at, writing[g].data) \in ChunkRow
  BY <1>1, ChunkTyped
<1>3. StreamInv(ChunkRow)' /\ chunks' \in Seq(ChunkRow)
  BY <1>2, PutChunkInv DEF WritePuts, WriteRetries
<1>4. /\ UNCHANGED <<writer, produced>>
      /\ writing' = [writing EXCEPT ![g] = Quiet] \/ UNCHANGED writing
  BY DEF WritePuts, WriteRetries, writerVars
<1>5. Quiet \in Writing
  BY EmptySeq DEF Quiet
<1>6. writer' \in [started : BOOLEAN, offset : Nat, state : {"open", "closed", "failed"}]
  BY <1>4 DEF StreamedInv, ChunksTyped
<1>7. produced' \in Nat
  BY <1>4 DEF StreamedInv, ChunksTyped
<1>8. writing' \in [Stream -> Writing]
  BY <1>4, <1>5 DEF StreamedInv, ChunksTyped
<1> QED BY <1>3, <1>6, <1>7, <1>8 DEF StreamedInv, ChunksTyped

\* The end of the logs is a chunk, or is not put.
LEMMA CloseInv ==
  ASSUME StreamedInv, CloseWriter \/ CloseFails
  PROVE  StreamedInv'
<1>1. /\ writer' \in [started : BOOLEAN, offset : Nat,
                       state : {"open", "closed", "failed"}]
      /\ UNCHANGED <<produced, writing>>
  BY DEF CloseWriter, CloseFails, StreamedInv, ChunksTyped
<1>2. CASE CloseWriter
  <2>1. PICK data : /\ data \in {<<ETX>>, <<STX, ETX>>}
                    /\ putChunk(Chunk(writer.offset, data))
    BY <1>2 DEF CloseWriter
  <2>2. data \in Seq(Int)
    <3>1. STX \in Int /\ ETX \in Int
      BY DEF STX, ETX
    <3> QED BY <2>1, <3>1, BytesTyped
  <2>3. Chunk(writer.offset, data) \in ChunkRow
    BY <2>2, ChunkTyped DEF StreamedInv, ChunksTyped
  <2> QED BY <1>1, <2>1, <2>3, PutChunkInv DEF StreamedInv, ChunksTyped
<1>3. CASE CloseFails
  BY <1>1, <1>3
  DEF CloseFails, store, streamVars, StreamedInv, ChunksTyped,
      StreamInv, StreamTypeOK, InFlight, DownIsDisabled, Consecutive
<1> QED BY <1>2, <1>3

\* The chunk of another run, and the chunks that go with the run.
LEMMA OtherChunksInv ==
  ASSUME StreamedInv, PutOther \/ DeleteRun
  PROVE  StreamedInv'
<1>1. <<0>> \in Seq(Int) /\ <<>> \in Seq(ChunkRow)
  BY EmptySeq
<1>2. <<OtherChunk>> \in Seq(ChunkRow)
  BY <1>1 DEF OtherChunk, ChunkRow
<1>3. PICK changes \in Seq(ChunkRow) : build_and_send_event(changes)
  BY <1>2 DEF PutOther, DeleteRun, StreamedInv, ChunksTyped
<1>4. StreamInv(ChunkRow)'
  BY <1>3, CommitInv DEF PutOther, DeleteRun, StreamedInv
<1>5. ChunksTyped'
  BY <1>1 DEF PutOther, DeleteRun, StreamedInv, ChunksTyped, store, writerVars
<1> QED BY <1>4, <1>5 DEF StreamedInv

\* A page subscribes, takes an event, or gives its subscription up.
LEMMA PageInv ==
  ASSUME StreamedInv, NEW p \in Page, getRun(p) \/ PageSteps(p) \/ ConnectionBreaks(p)
  PROVE  StreamedInv'
<1>1. ChunksTyped'
  BY DEF StreamedInv, ChunksTyped, store, writerVars, getRun, PageSteps, TailSubscribes,
         TailReads, TailRelays, TailCloses, ConnectionBreaks
<1>2. CASE UNCHANGED streamVars
  BY <1>1, <1>2 DEF streamVars, StreamedInv, StreamInv, StreamTypeOK, InFlight,
                    DownIsDisabled, Consecutive
<1>3. CASE /\ Subscribe(p) \/ Take(p) \/ Unsubscribe(p)
           /\ UNCHANGED <<feed, rows, listener, notified, enabled, lapsed>>
  BY <1>1, <1>3, SubscribeInv, TakeInv, UnsubscribeInv DEF Page, StreamedInv
<1>4. \/ UNCHANGED streamVars
      \/ /\ Subscribe(p) \/ Take(p) \/ Unsubscribe(p)
         /\ UNCHANGED <<feed, rows, listener, notified, enabled, lapsed>>
  BY DEF getRun, PageSteps, TailSubscribes, TailReads, TailRelays, TailCloses,
         ConnectionBreaks
<1> QED BY <1>2, <1>3, <1>4

\* The listener works, ends, or is started again; events grow old.
LEMMA ListenerInv ==
  ASSUME StreamedInv, ListenerSteps \/ ListenerFaults
  PROVE  StreamedInv'
<1>1. ChunksTyped'
  BY DEF ListenerSteps, ListenerFaults, StreamedInv, ChunksTyped, store, writerVars
<1>2. StreamInv(ChunkRow)'
  BY ForwardNextInv, ListenerEndsInv, StartInv, CleanupInv
  DEF ListenerSteps, ListenerFaults, StreamedInv
<1> QED BY <1>1, <1>2 DEF StreamedInv

\* Every step preserves the invariant.
LEMMA LogsNextInv == StreamedInv /\ [Next]_vars => StreamedInv'
<1> SUFFICES ASSUME StreamedInv, [Next]_vars PROVE StreamedInv'
  OBVIOUS
<1>1. CASE UNCHANGED vars
  BY <1>1 DEF vars, store, writerVars, streamVars, StreamedInv, ChunksTyped, StreamInv,
              StreamTypeOK, InFlight, DownIsDisabled, Consecutive
<1>2. ASSUME NEW g \in Stream, WriterSteps(g) \/ WriteRetries(g) \/ WriteFails(g)
      PROVE  StreamedInv'
  BY <1>2, WriteInv, WritePutsInv DEF WriterSteps
<1> QED BY <1>1, <1>2, CloseInv, OtherChunksInv, PageInv, ListenerInv DEF Next

\* The changes, their events and the subscriptions agree in every state.
THEOREM StreamInvariance == Spec => []StreamedInv
BY LogsInitInv, LogsNextInv, PTL DEF Spec

\* Whatever a page misses, it is told of by the closing of its channel; unless
\* the listener has lapsed on a read that failed.
THEOREM GapsAreTold == Spec => []NoSilentGap
<1>1. StreamedInv => NoSilentGap
  BY ConsecutiveIds DEF StreamedInv
<1> QED BY <1>1, StreamInvariance, PTL

-----------------------------------------------------------------------------
(* The inductive invariant *)

\* Where a page may be.
PageState == {"unopened", "opened", "subscribed", "tailing", "finished", "cut", "complete"}

\* No chunk but the last marks the end.
StoreTyped ==
  /\ \A i \in 1..Len(chunks) :
       chunks[i].mine /\ chunks[i].data # <<>> /\ ETX \notin Range(chunks[i].data)
  /\ logs \in Seq(Int) /\ deleted \in BOOLEAN

\* What a Write has returned for is in the store.  A writer that is closed
\* has nothing under way, and only a closed one has left logs.
KeptInv ==
  /\ produced \in 0..MaxBytes
  /\ acked \subseteq 1..produced
  /\ \A g \in Stream :
       /\ \A b \in Range(writing[g].data) : b = STX \/ b \in 1..produced
       /\ writing[g].pc \in {"read", "put"} => writing[g].data # <<>>
       /\ writer.state # "open" => writing[g].pc \in {"idle", "ended"}
  /\ StoreTyped
  /\ logs # <<>> => writer.state = "closed" /\ chunks = <<>>
  /\ OutputKept

\* The types of the pages.
PagesTyped ==
  /\ faults \subseteq Fault
  /\ page \in [Page -> [state : PageState, offset : Nat, from : Nat, shown : Seq(Int)]]

\* One stream puts its chunks in the order of their offsets.
InOrder ==
  /\ writing["stderr"].pc = "idle"
  /\ writing["stdout"].pc = "read" => writing["stdout"].at = writer.offset
  /\ writing["stdout"].pc = "put" => writing["stdout"].at < writer.offset
  /\ \A i \in 1..Len(chunks) : chunks[i].offset < writer.offset
  /\ \A i \in 1..(Len(logs) - 1) : logs[i] # ETX

\* The first n bytes of output, the chunks they are put in, and what these make.
Count(n) == [i \in 1..n |-> i]
Off(n) == IF n = 0 THEN 0 ELSE n + 1
Row(i) == Chunk(Off(i - 1), IF i = 1 THEN <<STX, 1>> ELSE <<i>>)
Rows(n) == [i \in 1..n |-> Row(i)]
Out(n) == IF n = 0 THEN <<>> ELSE [i \in 1..(n + 1) |-> IF i = 1 THEN STX ELSE i - 1]

\* The last chunk.
EndData == IF writer.started THEN <<ETX>> ELSE <<STX, ETX>>
EndChunk == Chunk(writer.offset, EndData)

\* The writer has had n chunks stored, and may be about to put the next.
WriterAt(n) ==
  LET w == writing["stdout"] IN
  /\ writing["stderr"].pc = "idle"
  /\ writer.started = (writer.offset # 0)
  /\ w.pc = "idle" => produced = n /\ writer.offset = Off(n)
  /\ w.pc = "read" => /\ produced = n + 1 /\ writer.offset = Off(n)
                      /\ Chunk(w.at, w.data) = Row(n + 1)
  /\ w.pc = "put" => /\ produced = n + 1 /\ writer.offset = Off(n + 1)
                     /\ Chunk(w.at, w.data) = Row(n + 1)
  /\ w.pc = "ended" => writer.offset = Off(n + 1)

\* The rows of n bytes are stored, or what they make.
StoreAt(n) ==
  /\ ~deleted
  /\ logs = <<>> => chunks = Rows(n)
  /\ logs # <<>> => logs = Out(n) \o EndData

\* The events are the chunks in order, then the last one and with it all of
\* those again, which the coalescing deletes.
FeedAt(n) ==
  /\ \A id \in 1..Len(feed) : feed[id].mine =>
       \/ \E i \in 1..n : feed[id] = Row(i)
       \/ logs # <<>> /\ feed[id] = EndChunk
  /\ \A i \in 1..n : \E id \in 1..Len(feed) : feed[id] = Row(i)
  /\ \A id \in 1..Len(feed), i \in 2..n :
       feed[id] = Row(i) => \E before \in 1..(id - 1) : feed[before] = Row(i - 1)
  /\ \A id \in 1..Len(feed), again \in 1..Len(feed), i \in 1..n :
       id < again /\ feed[id] = Row(i) /\ feed[again] = Row(i) =>
         \E between \in (id + 1)..(again - 1) : feed[between] = EndChunk

\* A page that tails has shown the chunks before the event that it is due
\* and those before where it began; none of these comes again, unless after
\* the last chunk.
TailAt(p, n) ==
  LET m == Len(page[p].shown)
      from == page[p].from
      due == subs[p].due IN
  /\ from # 1 \/ n = 0
  /\ logs = <<>> => from <= Off(n)
  /\ \A i \in 1..n : Off(i - 1) < from => i <= m
  /\ \A id \in 1..Len(feed), i \in 1..n : id < due /\ feed[id] = Row(i) => i <= m
  /\ \A id \in 1..Len(feed), i \in 1..n :
       due <= id /\ feed[id] = Row(i) /\ i <= m /\ from <= Off(i - 1) =>
         \E end \in 1..(id - 1) : due <= end /\ feed[end] = EndChunk

\* What page p shows is a beginning of n bytes.
PageAt(p, n) ==
  LET m == Len(page[p].shown) IN
  /\ m <= n /\ page[p].shown = Count(m)
  /\ page[p].state \in {"opened", "subscribed", "tailing"} =>
       \/ page[p].offset = Off(m)
       \/ logs # <<>> /\ m = n /\ page[p].offset = Len(logs)
  /\ page[p].state = "tailing" => TailAt(p, n)

\* The output so far, wherever it is.
Sound(n) == WriterAt(n) /\ StoreAt(n) /\ FeedAt(n) /\ \A p \in Page : PageAt(p, n)

-----------------------------------------------------------------------------
(* The chunks in order, and what they make *)

\* A chunk with a greater offset than any other comes last.
LEMMA LastInserted ==
  ASSUME chunks \in Seq(ChunkRow), NEW chunk \in ChunkRow, NEW inOrder \in Insertions(chunk),
         \A i \in 1..Len(chunks) : chunks[i].offset < chunk.offset
  PROVE  inOrder = Append(chunks, chunk)
<1>1. PICK i \in { j \in 1..(Len(chunks) + 1) :
                      /\ \A k \in 1..(j - 1) : chunks[k].offset <= chunk.offset
                      /\ \A k \in j..Len(chunks) : chunk.offset <= chunks[k].offset } :
                inOrder = InsertAt(chunks, i, chunk)
  BY DEF Insertions
<1>2. /\ Len(chunks) \in Nat /\ i \in 1..(Len(chunks) + 1) /\ chunk.offset \in Nat
      /\ \A k \in 1..Len(chunks) : chunks[k].offset \in Nat
  BY RowsTyped DEF ChunkRow
<1>3. i = Len(chunks) + 1
  <2> SUFFICES ASSUME i # Len(chunks) + 1 PROVE FALSE
    OBVIOUS
  <2>1. i \in 1..Len(chunks) /\ i \in i..Len(chunks)
    BY <1>2
  <2>2. chunk.offset <= chunks[i].offset /\ chunks[i].offset < chunk.offset
    BY <1>1, <2>1
  <2> QED BY <1>2, <2>1, <2>2
<1>4. SubSeq(chunks, 1, i - 1) = chunks /\ SubSeq(chunks, i, Len(chunks)) = <<>>
  <2>1. i - 1 = Len(chunks) /\ Len(chunks) < i
    BY <1>2, <1>3
  <2> QED BY <1>2, <2>1, SubSeqFull, SubSeqEmpty
<1>5. chunks \o <<chunk>> = Append(chunks, chunk) /\ Append(chunks, chunk) \in Seq(ChunkRow)
  BY AppendIsConcat, AppendProperties
<1>6. inOrder = (chunks \o <<chunk>>) \o <<>>
  BY <1>1, <1>4 DEF InsertAt
<1> QED BY <1>5, <1>6, ConcatEmptySeq

\* What is in the chunks is in what they coalesce to.
LEMMA CoalescedRange ==
  ASSUME NEW cs \in Seq(ChunkRow)
  PROVE  /\ Coalesced(cs) \in Seq(Int)
         /\ \A b : b \in Range(Coalesced(cs)) <=> \E i \in 1..Len(cs) : b \in Range(cs[i].data)
<1> DEFINE ds == [i \in DOMAIN cs |-> cs[i].data]
<1>1. /\ Len(cs) \in Nat /\ DOMAIN cs = 1..Len(cs)
      /\ \A i \in 1..Len(cs) : cs[i].data \in Seq(Int)
  BY RowsTyped
<1>2. ds \in Seq(Seq(Int)) /\ Len(ds) = Len(cs) /\ \A i \in 1..Len(cs) : ds[i] = cs[i].data
  BY <1>1
<1>3. Coalesced(cs) = FlattenSeq(ds)
  BY DEF Coalesced
<1> HIDE DEF ds
<1>4. FlattenSeq(ds) \in Seq(Int)
  <2>1. <<>> \in Seq(Int)
    BY EmptySeq
  <2> QED BY <1>2, <2>1, FlattenAppend
<1>5. ASSUME NEW b
      PROVE  b \in Range(FlattenSeq(ds)) <=> \E i \in 1..Len(cs) : b \in Range(cs[i].data)
  <2>1. b \in Range(FlattenSeq(ds)) <=> \E i \in 1..Len(ds) : b \in Range(ds[i])
    BY <1>2, FlattenRange
  <2> QED BY <1>2, <2>1
<1> QED BY <1>3, <1>4, <1>5

\* A chunk that comes last is coalesced last.
LEMMA CoalescedAppend ==
  ASSUME NEW cs \in Seq(ChunkRow), NEW c \in ChunkRow
  PROVE  /\ Coalesced(<<>>) = <<>>
         /\ Coalesced(Append(cs, c)) = Coalesced(cs) \o c.data
<1> DEFINE more == Append(cs, c)
           ds == [i \in DOMAIN cs |-> cs[i].data]
           es == [i \in DOMAIN more |-> more[i].data]
<1>1. /\ Len(cs) \in Nat /\ DOMAIN cs = 1..Len(cs)
      /\ \A i \in 1..Len(cs) : cs[i].data \in Seq(Int)
      /\ c.data \in Seq(Int)
  BY RowsTyped DEF ChunkRow
<1>2. /\ more \in Seq(ChunkRow) /\ DOMAIN more = 1..(Len(cs) + 1)
      /\ \A i \in 1..Len(cs) : more[i] = cs[i]
      /\ more[Len(cs) + 1] = c
  BY AppendProperties, LenProperties
<1> HIDE DEF more
<1>3. ds \in Seq(Seq(Int)) /\ Len(ds) = Len(cs)
  BY <1>1
<1>4. Append(ds, c.data) = es
  <2>1. /\ Append(ds, c.data) \in Seq(Seq(Int)) /\ Len(Append(ds, c.data)) = Len(cs) + 1
        /\ \A i \in 1..Len(cs) : Append(ds, c.data)[i] = ds[i]
        /\ Append(ds, c.data)[Len(cs) + 1] = c.data
    BY <1>1, <1>3, AppendProperties
  <2>2. es \in Seq(Seq(Int)) /\ Len(es) = Len(cs) + 1
    <3>1. \A i \in 1..(Len(cs) + 1) : more[i].data \in Seq(Int)
      BY <1>1, <1>2
    <3> QED BY <1>1, <1>2, <3>1
  <2>3. ASSUME NEW i \in 1..(Len(cs) + 1) PROVE Append(ds, c.data)[i] = es[i]
    <3>1. i \in 1..Len(cs) \/ i = Len(cs) + 1
      BY <1>1
    <3> QED BY <1>1, <1>2, <2>1, <3>1
  <2> HIDE DEF es, ds
  <2> QED BY <2>1, <2>2, <2>3, SeqEqual
<1>5. FlattenSeq(Append(ds, c.data)) = FlattenSeq(ds) \o c.data
  BY <1>1, <1>3, FlattenAppend
<1>6. Coalesced(more) = FlattenSeq(es) /\ Coalesced(cs) = FlattenSeq(ds)
  BY DEF Coalesced
<1>7. Coalesced(<<>>) = <<>>
  <2>1. PICK none : none = <<>>
    OBVIOUS
  <2> DEFINE ns == [i \in DOMAIN none |-> none[i].data]
  <2>2. ns = <<>>
    BY <2>1
  <2>3. FlattenSeq(<<>>) = <<>>
    BY <1>1, <1>3, FlattenAppend
  <2>4. Coalesced(none) = FlattenSeq(ns)
    BY DEF Coalesced
  <2> QED BY <2>1, <2>2, <2>3, <2>4
<1> QED BY <1>4, <1>5, <1>6, <1>7 DEF more

-----------------------------------------------------------------------------
(* What a Write has returned for is kept *)

\* The last byte of some data is one of its bytes.
LEMMA EndIsInRange ==
  ASSUME NEW data \in Seq(Int), IsEnd(data)
  PROVE  ETX \in Range(data)
<1>1. Len(data) \in Nat \ {0} /\ DOMAIN data = 1..Len(data)
  BY EmptySeq, LenProperties DEF IsEnd
<1>2. Len(data) \in DOMAIN data /\ data[Len(data)] = ETX
  BY <1>1 DEF IsEnd, Last
<1> QED BY <1>2 DEF Range

\* The rows of a chunk that has been put keep what there was, and have it.
LEMMA PutKeeps ==
  ASSUME StreamedInv, KeptInv, logs = <<>>, NEW chunk \in ChunkRow, putChunk(chunk),
         chunk.mine, chunk.data # <<>>,
         IsEnd(chunk.data) \/ ETX \notin Range(chunk.data)
  PROVE  /\ ~deleted /\ deleted' = deleted /\ StoreTyped'
         /\ IsEnd(chunk.data) => chunks' = <<>>
         /\ ~IsEnd(chunk.data) => logs' = <<>>
         /\ \A b : b \in Range(Stored) \/ b \in Range(chunk.data) => b \in Range(Stored')
<1>1. PICK inOrder \in Insertions(chunk) :
        IF IsEnd(chunk.data)
        THEN logs' = Coalesced(inOrder) /\ chunks' = <<>>
        ELSE chunks' = inOrder /\ logs' = logs
  BY DEF putChunk
<1>2. ~deleted /\ deleted' = deleted
  BY DEF putChunk
<1>3. chunks \in Seq(ChunkRow)
  BY DEF StreamedInv, ChunksTyped
<1>4. /\ inOrder \in Seq(ChunkRow)
      /\ \A k \in 1..Len(inOrder) :
           inOrder[k] = chunk \/ \E i \in 1..Len(chunks) : inOrder[k] = chunks[i]
      /\ \E k \in 1..Len(inOrder) : inOrder[k] = chunk
      /\ \A i \in 1..Len(chunks) : \E k \in 1..Len(inOrder) : inOrder[k] = chunks[i]
  BY <1>3, InsertedRows
<1>5. ASSUME NEW b, b \in Range(Stored) \/ b \in Range(chunk.data)
      PROVE  b \in Range(Coalesced(inOrder))
  <2>1. b \in Range(Coalesced(chunks)) => \E i \in 1..Len(chunks) : b \in Range(chunks[i].data)
    BY <1>3, CoalescedRange
  <2>2. \E k \in 1..Len(inOrder) : b \in Range(inOrder[k].data)
    <3>1. CASE b \in Range(chunk.data)
      BY <1>4, <3>1
    <3>2. CASE b \in Range(Stored)
      <4>1. PICK i \in 1..Len(chunks) : b \in Range(chunks[i].data)
        BY <2>1, <3>2 DEF Stored
      <4>2. PICK k \in 1..Len(inOrder) : inOrder[k] = chunks[i]
        BY <1>4
      <4> QED BY <4>1, <4>2
    <3> QED BY <1>5, <3>1, <3>2
  <2> QED BY <1>4, <2>2, CoalescedRange
<1>6. CASE IsEnd(chunk.data)
  <2>1. logs' = Coalesced(inOrder) /\ chunks' = <<>>
    BY <1>1, <1>6
  <2>2. ETX \in Range(chunk.data)
    BY <1>6, EndIsInRange DEF ChunkRow
  <2>3. ETX \in Range(logs')
    BY <1>5, <2>1, <2>2
  <2>4. logs' # <<>>
    <3>1. Range(<<>>) = {}
      BY DEF Range
    <3> QED BY <2>3, <3>1
  <2>5. Stored' = Coalesced(inOrder)
    BY <2>1, <2>4 DEF Stored
  <2>6. StoreTyped'
    <3>1. logs' \in Seq(Int) /\ deleted' \in BOOLEAN /\ Len(chunks') = 0
      BY <1>2, <1>4, <2>1, CoalescedRange, EmptySeq DEF KeptInv, StoreTyped
    <3> QED BY <3>1 DEF StoreTyped
  <2> QED BY <1>2, <1>5, <1>6, <2>1, <2>5, <2>6
<1>7. CASE ~IsEnd(chunk.data)
  <2>1. chunks' = inOrder /\ logs' = logs
    BY <1>1, <1>7
  <2>2. Stored' = Coalesced(inOrder)
    BY <2>1 DEF Stored
  <2>3. \A k \in 1..Len(inOrder) :
          inOrder[k].mine /\ inOrder[k].data # <<>> /\ ETX \notin Range(inOrder[k].data)
    BY <1>4, <1>7 DEF KeptInv, StoreTyped
  <2>4. StoreTyped'
    BY <1>2, <2>1, <2>3 DEF KeptInv, StoreTyped
  <2> QED BY <1>2, <1>5, <1>7, <2>1, <2>2, <2>4
<1> QED BY <1>6, <1>7

\* The two halves of a Write, and its failure.
LEMMA WriteKept ==
  ASSUME StreamedInv, KeptInv, NEW g \in Stream,
         WriteReads(g) \/ WriteSets(g) \/ WriteFails(g)
  PROVE  KeptInv'
<1>1. UNCHANGED <<chunks, logs, deleted, acked>> /\ StoreTyped' /\ OutputKept'
  <2>1. UNCHANGED <<chunks, logs, deleted, acked>>
    BY DEF WriteReads, WriteSets, WriteFails, store
  <2> QED BY <2>1 DEF KeptInv, StoreTyped, OutputKept, Stored
<1>2. writing \in [Stream -> [pc : {"idle", "read", "put", "ended"}, data : Seq(Int), at : Nat]]
  BY DEF StreamedInv, ChunksTyped
<1>3. CASE WriteReads(g)
  <2>1. /\ writer.state = "open" /\ UNCHANGED writer
        /\ produced' = produced + 1 /\ produced < MaxBytes
    BY <1>3 DEF WriteReads
  <2>2. produced \in Nat /\ produced' \in 0..MaxBytes /\ 1..produced \subseteq 1..produced'
    BY <2>1, LogsAssumption DEF KeptInv
  <2>3. PICK data : /\ data \in {<<produced'>>, <<STX, produced'>>}
                    /\ writing' = [writing EXCEPT ![g] =
                         [pc |-> "read", at |-> writer.offset, data |-> data]]
    BY <1>3 DEF WriteReads
  <2>4. data # <<>> /\ \A b \in Range(data) : b = STX \/ b \in 1..produced'
    <3>1. produced' \in 1..produced'
      BY <2>1, <2>2
    <3>2. \A x, y : \A b \in Range(<<x, y>>) : b = x \/ b = y
      BY DEF Range
    <3>3. \A x : \A b \in Range(<<x>>) : b = x
      BY DEF Range
    <3> QED BY <2>3, <3>1, <3>2, <3>3
  <2>5. \A h \in Stream : h # g => writing'[h] = writing[h]
    BY <1>2, <2>3
  <2>6. writing'[g].pc = "read" /\ writing'[g].data = data
    BY <1>2, <2>3
  <2> QED BY <1>1, <2>1, <2>2, <2>4, <2>5, <2>6 DEF KeptInv
<1>4. CASE WriteSets(g)
  <2>1. /\ writing[g].pc = "read" /\ UNCHANGED produced
        /\ writing' = [writing EXCEPT ![g].pc = "put"]
        /\ writer'.state = writer.state
    BY <1>4 DEF WriteSets, StreamedInv, ChunksTyped
  <2>2. /\ writing'[g].pc = "put" /\ writing'[g].data = writing[g].data
        /\ \A h \in Stream : h # g => writing'[h] = writing[h]
    BY <1>2, <2>1
  <2>3. writer.state = "open"
    BY <2>1 DEF KeptInv
  <2> QED BY <1>1, <2>1, <2>2, <2>3 DEF KeptInv
<1>5. CASE WriteFails(g)
  <2>1. /\ UNCHANGED <<produced, writer>>
        /\ writing' = [writing EXCEPT ![g] = [Quiet EXCEPT !.pc = "ended"]]
    BY <1>5 DEF WriteFails
  <2>2. /\ writing'[g].pc = "ended" /\ writing'[g].data = <<>>
        /\ \A h \in Stream : h # g => writing'[h] = writing[h]
    BY <1>2, <2>1 DEF Quiet
  <2>3. Range(<<>>) = {}
    BY DEF Range
  <2> QED BY <1>1, <2>1, <2>2, <2>3 DEF KeptInv
<1> QED BY <1>3, <1>4, <1>5

\* A chunk that a Write puts is one of output, and the logs have not ended.
LEMMA WrittenChunk ==
  ASSUME StreamedInv, KeptInv, NEW g \in Stream, writing[g].pc = "put"
  PROVE  LET chunk == Chunk(writing[g].at, writing[g].data) IN
         /\ chunk \in ChunkRow /\ chunk.mine /\ chunk.data # <<>>
         /\ chunk.data = writing[g].data /\ chunk.offset = writing[g].at
         /\ ETX \notin Range(chunk.data) /\ ~IsEnd(chunk.data)
         /\ logs = <<>> /\ writer.state = "open"
<1>1. writing[g].at \in Nat /\ writing[g].data \in Seq(Int)
  BY DEF StreamedInv, ChunksTyped
<1>2. Chunk(writing[g].at, writing[g].data) \in ChunkRow
  BY <1>1, ChunkTyped
<1>3. writing[g].data # <<>> /\ writer.state = "open" /\ logs = <<>>
  BY DEF KeptInv
<1>4. ETX \notin Range(writing[g].data)
  <2>1. \A b \in Range(writing[g].data) : b = STX \/ b \in 1..produced
    BY DEF KeptInv
  <2>2. ETX # STX /\ ETX \notin 1..produced
    BY DEF STX, ETX
  <2> QED BY <2>1, <2>2
<1>5. ~IsEnd(writing[g].data)
  BY <1>1, <1>4, EndIsInRange
<1> QED BY <1>2, <1>3, <1>4, <1>5 DEF Chunk

\* A Write that puts its chunk, once or again.
LEMMA PutsKept ==
  ASSUME StreamedInv, KeptInv, NEW g \in Stream, WritePuts(g) \/ WriteRetries(g)
  PROVE  KeptInv'
<1> DEFINE chunk == Chunk(writing[g].at, writing[g].data)
<1>1. writing[g].pc = "put" /\ putChunk(chunk)
  BY DEF WritePuts, WriteRetries
<1>2. /\ chunk \in ChunkRow /\ chunk.mine /\ chunk.data # <<>>
      /\ chunk.data = writing[g].data
      /\ ETX \notin Range(chunk.data) /\ ~IsEnd(chunk.data)
      /\ logs = <<>> /\ writer.state = "open"
  BY <1>1, WrittenChunk
<1>3. UNCHANGED <<writer, produced>>
  BY DEF WritePuts, WriteRetries, writerVars
<1> HIDE DEF chunk
<1>4. /\ ~deleted /\ deleted' = deleted /\ StoreTyped' /\ logs' = <<>>
      /\ \A b : b \in Range(Stored) \/ b \in Range(chunk.data) => b \in Range(Stored')
  BY <1>1, <1>2, PutKeeps
<1>5. /\ acked' = acked \/ acked' = acked \union (Range(writing[g].data) \ {STX})
      /\ writing' = [writing EXCEPT ![g] = Quiet] \/ UNCHANGED writing
  BY DEF WritePuts, WriteRetries, writerVars
<1>6. acked' \subseteq 1..produced /\ acked' \subseteq Range(Stored')
  BY <1>2, <1>4, <1>5 DEF KeptInv, OutputKept
<1>7. \A h \in Stream :
        \/ writing'[h] = writing[h]
        \/ writing'[h].pc = "idle" /\ Range(writing'[h].data) = {}
  <2>1. Range(<<>>) = {}
    BY DEF Range
  <2>2. writing \in [Stream -> [pc : {"idle", "read", "put", "ended"}, data : Seq(Int), at : Nat]]
    BY DEF StreamedInv, ChunksTyped
  <2>3. Quiet.pc = "idle" /\ Quiet.data = <<>>
    BY DEF Quiet
  <2> QED BY <1>5, <2>1, <2>2, <2>3
<1> QED BY <1>2, <1>3, <1>4, <1>6, <1>7 DEF KeptInv, OutputKept

\* The last chunk marks the end.
LEMMA LastChunk ==
  ASSUME NEW offset \in Nat, NEW started \in BOOLEAN
  PROVE  LET data == IF started THEN <<ETX>> ELSE <<STX, ETX>>
             chunk == Chunk(offset, data) IN
         /\ chunk \in ChunkRow /\ chunk.mine /\ chunk.data # <<>> /\ IsEnd(chunk.data)
         /\ chunk.data = data /\ chunk.offset = offset
<1> DEFINE data == IF started THEN <<ETX>> ELSE <<STX, ETX>>
<1>1. STX \in Int /\ ETX \in Int
  BY DEF STX, ETX
<1>2. data \in Seq(Int) /\ data # <<>> /\ data[Len(data)] = ETX
  BY <1>1, BytesTyped
<1>3. IsEnd(data)
  BY <1>2 DEF IsEnd, Last
<1> HIDE DEF data
<1>4. Chunk(offset, data) \in ChunkRow
  BY <1>2, ChunkTyped
<1> QED BY <1>2, <1>3, <1>4 DEF Chunk, data

\* The writer is closed.
LEMMA CloseKept ==
  ASSUME StreamedInv, KeptInv, CloseWriter \/ CloseFails
  PROVE  KeptInv'
<1>1. /\ writer.state = "open" /\ UNCHANGED <<produced, writing, acked>>
      /\ \A g \in Stream : writing[g].pc \in {"idle", "ended"}
      /\ logs = <<>>
  BY DEF CloseWriter, CloseFails, Ready, KeptInv
<1>2. CASE CloseFails
  BY <1>1, <1>2 DEF CloseFails, store, KeptInv, StoreTyped, OutputKept, Stored
<1>3. CASE CloseWriter
  <2> DEFINE chunk == Chunk(writer.offset, IF writer.started THEN <<ETX>> ELSE <<STX, ETX>>)
  <2>1. putChunk(chunk)
    BY <1>3 DEF CloseWriter
  <2>2. /\ writer' = [writer EXCEPT !.state = "closed"]
        /\ writer \in [started : BOOLEAN, offset : Nat, state : {"open", "closed", "failed"}]
    BY <1>3 DEF CloseWriter, StreamedInv, ChunksTyped
  <2>3. writer'.state = "closed"
    BY <2>2
  <2>4. chunk \in ChunkRow /\ chunk.mine /\ chunk.data # <<>> /\ IsEnd(chunk.data)
    BY <2>2, LastChunk
  <2> HIDE DEF chunk
  <2>5. /\ ~deleted /\ deleted' = deleted /\ StoreTyped' /\ chunks' = <<>>
        /\ \A b : b \in Range(Stored) \/ b \in Range(chunk.data) => b \in Range(Stored')
    BY <1>1, <2>1, <2>4, PutKeeps
  <2> QED BY <1>1, <2>3, <2>5 DEF KeptInv, OutputKept
<1> QED BY <1>2, <1>3

\* The run is deleted, or another one has its chunk put.
LEMMA OthersKept ==
  ASSUME StreamedInv, KeptInv, PutOther \/ DeleteRun
  PROVE  KeptInv'
<1>1. CASE PutOther
  BY <1>1 DEF PutOther, writerVars, store, KeptInv, StoreTyped, OutputKept, Stored
<1>2. CASE DeleteRun
  <2>1. /\ deleted' = TRUE /\ chunks' = <<>> /\ logs' = <<>>
        /\ UNCHANGED <<writer, produced, writing, acked>>
    BY <1>2 DEF DeleteRun, writerVars
  <2>2. StoreTyped'
    BY <2>1, EmptySeq DEF StoreTyped
  <2> QED BY <2>1, <2>2 DEF KeptInv, OutputKept
<1> QED BY <1>1, <1>2

\* Every step keeps what is kept.
LEMMA KeptNext == StreamedInv /\ KeptInv /\ [Next]_vars => KeptInv'
<1> SUFFICES ASSUME StreamedInv, KeptInv, [Next]_vars PROVE KeptInv'
  OBVIOUS
<1>1. CASE UNCHANGED <<writerVars, store>>
  BY <1>1 DEF writerVars, store, KeptInv, StoreTyped, OutputKept, Stored
<1>2. ASSUME NEW g \in Stream, WriterSteps(g) \/ WriteRetries(g) \/ WriteFails(g)
      PROVE  KeptInv'
  BY <1>2, WriteKept, PutsKept DEF WriterSteps
<1>3. ASSUME NEW p \in Page, getRun(p) \/ PageSteps(p) \/ ConnectionBreaks(p)
      PROVE  UNCHANGED <<writerVars, store>>
  BY <1>3 DEF getRun, PageSteps, TailSubscribes, TailReads, TailRelays, TailCloses,
              ConnectionBreaks
<1>4. ListenerSteps \/ ListenerFaults \/ UNCHANGED vars => UNCHANGED <<writerVars, store>>
  BY DEF ListenerSteps, ListenerFaults, vars, writerVars, store
<1> QED BY <1>1, <1>2, <1>3, <1>4, CloseKept, OthersKept DEF Next

-----------------------------------------------------------------------------
(* Types of the pages *)

\* The row of a page.
PageRow == [state : PageState, offset : Nat, from : Nat, shown : Seq(Int)]

\* A fault stays on record.
LEMMA FaultsGrow ==
  ASSUME [Next]_vars
  PROVE  /\ faults \subseteq faults'
         /\ faults \subseteq Fault => faults' \subseteq Fault
<1>1. \A g \in Stream : WriterSteps(g) \/ WriteRetries(g) \/ WriteFails(g) =>
        faults' = faults \/ \E fault \in Fault : faults' = faults \union {fault}
  BY DEF WriterSteps, WriteReads, WriteSets, WritePuts, WriteRetries, WriteFails, Fails,
         HappensOnce, Happens, Fault
<1>2. CloseWriter \/ CloseFails \/ PutOther \/ DeleteRun \/ ListenerSteps =>
        faults' = faults \/ \E fault \in Fault : faults' = faults \union {fault}
  BY DEF CloseWriter, CloseFails, PutOther, DeleteRun, ListenerSteps, Fails, HappensOnce,
         Happens, Fault
<1>3. ListenerFaults =>
        faults' = faults \/ \E fault \in Fault : faults' = faults \union {fault}
  BY DEF ListenerFaults, HappensOnce, Happens, Fault
<1>4. \A p \in Page : getRun(p) \/ PageSteps(p) \/ ConnectionBreaks(p) =>
        faults' = faults \/ \E fault \in Fault : faults' = faults \union {fault}
  BY DEF getRun, PageSteps, TailSubscribes, TailReads, TailRelays, TailCloses,
         ConnectionBreaks, HappensOnce, Happens, Fault
<1>5. faults' = faults \/ \E fault \in Fault : faults' = faults \union {fault}
  BY <1>1, <1>2, <1>3, <1>4 DEF Next, vars
<1> QED BY <1>5

\* A part of some data is data.
LEMMA PartTyped ==
  ASSUME NEW data \in Seq(Int), NEW from \in Nat \ {0}
  PROVE  SubSeq(data, from, Len(data)) \in Seq(Int)
<1>1. Len(data) \in Nat /\ \A i \in from..Len(data) : data[i] \in Int
  BY LenProperties, ElementOfSeq
<1> QED BY <1>1, SubSeqProperties

\* What is shown of some data is data.
LEMMA ToHTMLTyped ==
  ASSUME NEW data \in Seq(Int)
  PROVE  ToHTML(data) \in Seq(Int)
<1> DEFINE tail == IF IsStart(data) THEN Tail(data) ELSE data
<1>1. tail \in Seq(Int)
  BY HeadTailProperties DEF IsStart
<1> HIDE DEF tail
<1>2. Front(tail) \in Seq(Int) \/ tail = <<>>
  <2>1. CASE tail # <<>>
    <3>1. Len(tail) \in Nat \ {0}
      BY <1>1, <2>1, EmptySeq
    <3>2. \A i \in 1..(Len(tail) - 1) : tail[i] \in Int
      BY <1>1, <3>1, ElementOfSeq
    <3> QED BY <3>1, <3>2, SubSeqProperties DEF Front
  <2> QED BY <2>1
<1>3. ToHTML(data) = IF IsEnd(tail) THEN Front(tail) ELSE tail
  BY DEF ToHTML, tail
<1> QED BY <1>1, <1>2, <1>3 DEF IsEnd

\* What is relayed of an event is a chunk.
LEMMA RelayedTyped ==
  ASSUME NEW chunk \in ChunkRow, NEW from \in Nat
  PROVE  Relayed(chunk, from) \in ChunkRow
<1>1. Chunk(from, <<>>) \in ChunkRow
  BY ChunkTyped, EmptySeq
<1>2. chunk.offset \in Nat /\ chunk.data \in Seq(Int) /\ NextOffset(chunk) \in Nat
      /\ chunk.mine \in BOOLEAN
  BY LenProperties DEF ChunkRow, NextOffset
<1>3. ASSUME chunk.offset < from PROVE Cut(chunk, from) \in ChunkRow
  <2>1. Chunk(NextOffset(chunk), <<>>) \in ChunkRow
    BY <1>2, ChunkTyped, EmptySeq
  <2>2. from - chunk.offset + 1 \in Nat \ {0}
    BY <1>2, <1>3
  <2>3. SubSeq(chunk.data, from - chunk.offset + 1, Len(chunk.data)) \in Seq(Int)
    BY <1>2, <2>2, PartTyped
  <2> QED BY <2>1, <2>3, ChunkTyped DEF Cut
<1>4. CASE ~chunk.mine
  BY <1>1, <1>4 DEF Relayed
<1>5. CASE chunk.mine /\ chunk.offset < from /\ NextOffset(chunk) <= from
  <2>1. Relayed(chunk, from) = Chunk(from, <<>>)
    BY <1>2, <1>5 DEF Relayed
  <2> QED BY <1>1, <2>1
<1>6. CASE chunk.mine /\ chunk.offset < from /\ NextOffset(chunk) > from
  <2>1. Relayed(chunk, from) = Cut(chunk, from)
    BY <1>2, <1>6 DEF Relayed
  <2> QED BY <1>3, <1>6, <2>1
<1>7. CASE chunk.mine /\ chunk.offset >= from
  <2>1. Relayed(chunk, from) = chunk
    BY <1>2, <1>7 DEF Relayed
  <2> QED BY <2>1
<1> QED BY <1>2, <1>4, <1>5, <1>6, <1>7

\* What is stored is data.
LEMMA StoredTyped ==
  ASSUME StreamedInv, KeptInv
  PROVE  Stored \in Seq(Int)
BY CoalescedRange DEF StreamedInv, ChunksTyped, KeptInv, StoreTyped, Stored

\* A page that gets data is a page.
LEMMA ShowTyped ==
  ASSUME NEW pg \in PageRow, NEW data \in Seq(Int), NEW next \in Nat
  PROVE  Show(pg, data, next) \in PageRow
<1>1. pg.shown \in Seq(Int) /\ ToHTML(data) \in Seq(Int)
  BY ToHTMLTyped DEF PageRow
<1>2. pg.shown \o ToHTML(data) \in Seq(Int)
  BY <1>1, ConcatProperties
<1> DEFINE all == pg.shown \o ToHTML(data)
<1>3. Show(pg, data, next) = IF ToHTML(data) = <<>> THEN pg
                             ELSE [pg EXCEPT !.shown = all, !.offset = next]
  BY DEF Show
<1> HIDE DEF all
<1>4. [pg EXCEPT !.shown = all, !.offset = next] \in PageRow
  BY <1>2 DEF PageRow, all
<1> QED BY <1>3, <1>4

\* The part that a tail reads is a chunk.
LEMMA ReadTyped ==
  ASSUME StreamedInv, KeptInv, NEW offset \in Nat
  PROVE  getChunk(offset) \in ChunkRow
<1>1. SubSeq(Stored, offset + 1, Len(Stored)) \in Seq(Int)
  BY StoredTyped, PartTyped
<1> QED BY <1>1, ChunkTyped DEF getChunk

\* The steps of a page keep its type.
LEMMA PageStepTyped ==
  ASSUME StreamedInv, KeptInv, page \in [Page -> PageRow], NEW p \in Page,
         getRun(p) \/ PageSteps(p) \/ ConnectionBreaks(p)
  PROVE  page' \in [Page -> PageRow]
<1>1. page[p] \in PageRow /\ page[p].offset \in Nat /\ page[p].from \in Nat
  BY DEF PageRow
<1>2. \A chunk \in ChunkRow : chunk.data \in Seq(Int) /\ NextOffset(chunk) \in Nat
  BY LenProperties DEF ChunkRow, NextOffset
<1>3. CASE getRun(p)
  <2>1. Len(Stored) \in Nat /\ ToHTML(Stored) \in Seq(Int)
    BY StoredTyped, ToHTMLTyped, LenProperties
  <2>2. \A s \in {"complete", "opened"} :
          [state |-> s, offset |-> Len(Stored), from |-> 0, shown |-> ToHTML(Stored)]
            \in PageRow
    BY <2>1 DEF PageRow, PageState
  <2> QED BY <1>3, <2>2 DEF getRun
<1>4. CASE TailReads(p)
  <2> DEFINE chunk == getChunk(page[p].offset)
             pg == Show(page[p], chunk.data, NextOffset(chunk))
  <2>1. chunk \in ChunkRow
    BY <1>1, ReadTyped
  <2>2. pg \in PageRow /\ NextOffset(chunk) \in Nat
    BY <1>1, <1>2, <2>1, ShowTyped
  <2>3. page' = [page EXCEPT ![p] =
                   [pg EXCEPT !.state = "tailing", !.from = NextOffset(chunk)]]
    BY <1>4 DEF TailReads
  <2> HIDE DEF pg, chunk
  <2>4. [pg EXCEPT !.state = "tailing", !.from = NextOffset(chunk)] \in PageRow
    BY <2>2 DEF PageRow, PageState
  <2> QED BY <2>3, <2>4
<1>5. CASE TailRelays(p)
  <2> DEFINE chunk == Relayed(feed[Head(subs[p].buffer)], page[p].from)
             pg == Show(page[p], chunk.data, NextOffset(chunk))
  <2>1. feed[Head(subs[p].buffer)] \in ChunkRow
    <3>1. /\ subs[p].buffer \in Seq(1..Len(feed)) /\ subs[p].buffer # <<>>
          /\ feed \in Seq(ChunkRow)
      BY <1>5 DEF TailRelays, StreamedInv, StreamInv, StreamTypeOK, Page
    <3>2. Head(subs[p].buffer) \in 1..Len(feed)
      BY <3>1, HeadTailProperties
    <3> QED BY <3>1, <3>2, ElementOfSeq
  <2>2. chunk \in ChunkRow
    BY <1>1, <2>1, RelayedTyped
  <2>3. pg \in PageRow
    BY <1>1, <1>2, <2>2, ShowTyped
  <2>4. \E s \in PageState : page' = [page EXCEPT ![p] = [pg EXCEPT !.state = s]]
    <3> DEFINE s == IF IsEnd(chunk.data) THEN "finished" ELSE "tailing"
    <3>1. page' = [page EXCEPT ![p] = [pg EXCEPT !.state = s]]
      BY <1>5 DEF TailRelays
    <3>2. s \in PageState
      BY DEF PageState
    <3> HIDE DEF pg, chunk, s
    <3> QED BY <3>1, <3>2
  <2> HIDE DEF pg, chunk
  <2> QED BY <2>3, <2>4 DEF PageRow
<1>6. CASE TailSubscribes(p) \/ TailCloses(p) \/ ConnectionBreaks(p)
  <2>1. PICK s \in PageState : page' = [page EXCEPT ![p].state = s]
    BY <1>6 DEF TailSubscribes, TailCloses, ConnectionBreaks, PageState
  <2>2. [page[p] EXCEPT !.state = s] \in PageRow
    BY <1>1 DEF PageRow
  <2> QED BY <2>1, <2>2
<1> QED BY <1>3, <1>4, <1>5, <1>6 DEF PageSteps

\* Every step keeps the types of the pages and of the faults.
LEMMA PagesTypedNext == StreamedInv /\ KeptInv /\ PagesTyped /\ [Next]_vars => PagesTyped'
<1> SUFFICES ASSUME StreamedInv, KeptInv, PagesTyped, [Next]_vars PROVE PagesTyped'
  OBVIOUS
<1>1. faults' \subseteq Fault
  BY FaultsGrow DEF PagesTyped
<1>2. UNCHANGED page \/ \E p \in Page : getRun(p) \/ PageSteps(p) \/ ConnectionBreaks(p)
  BY DEF Next, vars, WriterSteps, WriteReads, WriteSets, WritePuts, WriteRetries, WriteFails,
         CloseWriter, CloseFails, PutOther, DeleteRun, ListenerSteps, ListenerFaults
<1>3. page' \in [Page -> PageRow]
  BY <1>2, PageStepTyped DEF PagesTyped, PageRow
<1> QED BY <1>1, <1>3 DEF PagesTyped, PageRow

-----------------------------------------------------------------------------
(* The end of the logs *)

\* Of one stream, the last chunk is put after all others.
LEMMA ClosePuts ==
  ASSUME StreamedInv, KeptInv, CloseWriter,
         \A i \in 1..Len(chunks) : chunks[i].offset < writer.offset
  PROVE  /\ logs = <<>> /\ ~deleted /\ ~deleted' /\ chunks' = <<>>
         /\ logs' = Coalesced(chunks) \o EndData /\ logs' # <<>>
         /\ Coalesced(chunks) \in Seq(Int) /\ EndData \in Seq(Int)
         /\ EndData = <<ETX>> \/ EndData = <<STX, ETX>>
         /\ EndChunk \in ChunkRow /\ Append(chunks, EndChunk) \in Seq(ChunkRow)
         /\ build_and_send_event(<<EndChunk>> \o Append(chunks, EndChunk))
         /\ UNCHANGED <<listener, enabled, subs, lapsed, produced, writing, page, faults>>
         /\ EndData' = EndData /\ EndChunk' = EndChunk
         /\ writer'.started = writer.started /\ writer'.offset = writer.offset
<1>1. /\ putChunk(EndChunk) /\ UNCHANGED <<produced, writing, acked, page, faults>>
      /\ writer' = [writer EXCEPT !.state = "closed"] /\ writer.state = "open"
  BY DEF CloseWriter, Ready, EndChunk, EndData
<1>2. /\ writer \in [started : BOOLEAN, offset : Nat, state : {"open", "closed", "failed"}]
      /\ chunks \in Seq(ChunkRow)
  BY DEF StreamedInv, ChunksTyped
<1>3. /\ EndChunk \in ChunkRow /\ EndChunk.mine /\ EndChunk.data # <<>> /\ IsEnd(EndChunk.data)
      /\ EndChunk.data = EndData /\ EndChunk.offset = writer.offset
  BY <1>2, LastChunk DEF EndChunk, EndData
<1>4. logs = <<>>
  BY <1>1 DEF KeptInv
<1>5. ~deleted /\ deleted' = deleted /\ chunks' = <<>>
  BY <1>1, <1>3, <1>4, PutKeeps
<1>6. PICK inOrder \in Insertions(EndChunk) :
        /\ logs' = Coalesced(inOrder)
        /\ build_and_send_event(<<EndChunk>> \o inOrder)
  BY <1>1, <1>3 DEF putChunk
<1>7. inOrder = Append(chunks, EndChunk)
  BY <1>2, <1>3, LastInserted
<1>8. Append(chunks, EndChunk) \in Seq(ChunkRow)
  BY <1>2, <1>3, AppendProperties
<1>9. logs' = Coalesced(chunks) \o EndData
  BY <1>2, <1>3, <1>6, <1>7, CoalescedAppend
<1>10. Coalesced(chunks) \in Seq(Int)
  BY <1>2, CoalescedRange
<1>11. EndData \in Seq(Int) /\ (EndData = <<ETX>> \/ EndData = <<STX, ETX>>)
  BY <1>3 DEF ChunkRow, EndData
<1>12. logs' # <<>>
  <2>1. Len(EndData) \in Nat \ {0} /\ Len(Coalesced(chunks)) \in Nat
    BY <1>3, <1>10, <1>11, EmptySeq, LenProperties
  <2>2. Len(logs') = Len(Coalesced(chunks)) + Len(EndData)
    BY <1>9, <1>10, <1>11, ConcatProperties
  <2> QED BY <2>1, <2>2, EmptySeq
<1>13. /\ writer'.started = writer.started /\ writer'.offset = writer.offset
       /\ EndData' = EndData /\ EndChunk' = EndChunk
  <2>1. writer'.started = writer.started /\ writer'.offset = writer.offset
    BY <1>1, <1>2
  <2> QED BY <2>1 DEF EndData, EndChunk, Chunk
<1>14. UNCHANGED <<listener, enabled, subs, lapsed>>
  BY <1>1 DEF putChunk
<1> QED BY <1>1, <1>3, <1>4, <1>5, <1>6, <1>7, <1>8, <1>9, <1>10, <1>11, <1>12, <1>13, <1>14

\* The bytes of chunks that do not mark the end are not the end's.
LEMMA NoEndInside ==
  ASSUME StreamedInv, KeptInv
  PROVE  ETX \notin Range(Coalesced(chunks))
BY CoalescedRange DEF StreamedInv, ChunksTyped, KeptInv, StoreTyped

\* Steps of the streams while only one of them has output.
LEMMA WritesInOrder ==
  ASSUME StreamedInv, KeptInv, InOrder, "race" \notin faults', NEW g \in Stream,
         WriterSteps(g) \/ WriteRetries(g) \/ WriteFails(g)
  PROVE  InOrder'
<1>1. /\ writing \in [Stream -> [pc : {"idle", "read", "put", "ended"}, data : Seq(Int), at : Nat]]
      /\ writer \in [started : BOOLEAN, offset : Nat, state : {"open", "closed", "failed"}]
      /\ chunks \in Seq(ChunkRow) /\ writing["stderr"].pc = "idle"
      /\ "stdout" \in Stream /\ "stderr" \in Stream /\ "stdout" # "stderr"
  BY DEF StreamedInv, ChunksTyped, InOrder, Stream
<1>2. g = "stdout"
  <2>1. g = "stderr" => WriteReads(g)
    BY <1>1 DEF WriterSteps, WriteSets, WritePuts, WriteRetries, WriteFails
  <2>2. g = "stderr" /\ WriteReads(g) => "race" \in faults'
    BY DEF WriteReads, Happens
  <2> QED BY <2>1, <2>2 DEF Stream
<1>3. \A i \in 1..Len(chunks) : chunks[i].offset \in Nat
  BY <1>1, RowsTyped
<1>4. CASE WriteReads(g)
  <2>1. PICK data : writing' = [writing EXCEPT ![g] =
                        [pc |-> "read", at |-> writer.offset, data |-> data]]
    BY <1>4 DEF WriteReads
  <2>2. /\ writing'["stdout"].pc = "read" /\ writing'["stdout"].at = writer.offset
        /\ writing'["stderr"] = writing["stderr"]
    BY <1>1, <1>2, <2>1
  <2>3. UNCHANGED <<writer, chunks, logs>>
    BY <1>4 DEF WriteReads, store
  <2> QED BY <1>1, <2>2, <2>3 DEF InOrder
<1>5. CASE WriteSets(g)
  <2>1. /\ writing[g].pc = "read" /\ UNCHANGED <<chunks, logs>>
        /\ writing' = [writing EXCEPT ![g].pc = "put"]
        /\ writer' = [writer EXCEPT !.started = TRUE,
                                    !.offset = writing[g].at + Len(writing[g].data)]
    BY <1>5 DEF WriteSets, store
  <2>2. /\ writing'["stdout"].pc = "put" /\ writing'["stdout"].at = writing["stdout"].at
        /\ writing'["stderr"] = writing["stderr"]
        /\ writer'.offset = writing["stdout"].at + Len(writing["stdout"].data)
    BY <1>1, <1>2, <2>1
  <2>3. /\ writing["stdout"].at = writer.offset /\ writer.offset \in Nat
        /\ Len(writing["stdout"].data) \in Nat \ {0}
    BY <1>1, <1>2, <2>1, EmptySeq DEF InOrder, KeptInv
  <2>4. writer.offset < writer'.offset /\ writer'.offset \in Nat
    BY <2>2, <2>3
  <2>5. \A i \in 1..Len(chunks) : chunks[i].offset < writer'.offset
    BY <1>3, <2>3, <2>4 DEF InOrder
  <2> QED BY <1>1, <2>1, <2>2, <2>3, <2>4, <2>5 DEF InOrder
<1>6. CASE WritePuts(g) \/ WriteRetries(g)
  <2> DEFINE chunk == Chunk(writing[g].at, writing[g].data)
  <2>1. writing[g].pc = "put" /\ putChunk(chunk) /\ UNCHANGED writer
    BY <1>6 DEF WritePuts, WriteRetries, writerVars
  <2>2. /\ chunk \in ChunkRow /\ ~IsEnd(chunk.data) /\ logs = <<>>
        /\ chunk.offset = writing[g].at
    BY <2>1, WrittenChunk
  <2> HIDE DEF chunk
  <2>3. chunk.offset < writer.offset
    BY <1>2, <2>1, <2>2 DEF InOrder
  <2>4. PICK inOrder \in Insertions(chunk) : chunks' = inOrder /\ logs' = logs
    BY <2>1, <2>2 DEF putChunk
  <2>5. \A k \in 1..Len(inOrder) :
          inOrder[k] = chunk \/ \E i \in 1..Len(chunks) : inOrder[k] = chunks[i]
    BY <1>1, <2>2, InsertedRows, ZenonT(60)
  <2>6. \A k \in 1..Len(chunks') : chunks'[k].offset < writer.offset
    BY <2>3, <2>4, <2>5 DEF InOrder
  <2>7. /\ writing'["stderr"] = writing["stderr"]
        /\ writing'["stdout"] = writing["stdout"] \/ writing'["stdout"].pc = "idle"
    <3>1. writing' = [writing EXCEPT ![g] = Quiet] \/ UNCHANGED writing
      BY <1>6 DEF WritePuts, WriteRetries, writerVars
    <3> QED BY <1>1, <1>2, <3>1 DEF Quiet
  <2> QED BY <2>1, <2>4, <2>6, <2>7 DEF InOrder
<1>7. CASE WriteFails(g)
  <2>1. /\ UNCHANGED <<writer, chunks, logs>>
        /\ writing' = [writing EXCEPT ![g] = [Quiet EXCEPT !.pc = "ended"]]
    BY <1>7 DEF WriteFails, store
  <2>2. writing'["stdout"].pc = "ended" /\ writing'["stderr"] = writing["stderr"]
    BY <1>1, <1>2, <2>1 DEF Quiet
  <2> QED BY <2>1, <2>2 DEF InOrder
<1> QED BY <1>4, <1>5, <1>6, <1>7 DEF WriterSteps

\* Every step keeps the end last, until both streams have output.
LEMMA InOrderNext ==
  ASSUME StreamedInv, KeptInv, "race" \notin faults => InOrder, [Next]_vars,
         "race" \notin faults'
  PROVE  InOrder'
<1>1. InOrder
  BY FaultsGrow
<1>2. CASE UNCHANGED <<writer, writing, chunks, logs>>
  BY <1>1, <1>2 DEF InOrder
<1>3. CASE CloseWriter
  <2>1. \A i \in 1..Len(chunks) : chunks[i].offset < writer.offset
    BY <1>1 DEF InOrder
  <2> DEFINE all == Coalesced(chunks)
             end == EndData
  <2>2. /\ logs' = all \o end /\ chunks' = <<>> /\ all \in Seq(Int) /\ end \in Seq(Int)
        /\ end = <<ETX>> \/ end = <<STX, ETX>>
        /\ writer'.offset = writer.offset /\ UNCHANGED writing
    BY <1>3, <2>1, ClosePuts
  <2>3. ETX \notin Range(all)
    BY NoEndInside
  <2> HIDE DEF all, end
  <2>4. /\ Len(all) \in Nat /\ DOMAIN all = 1..Len(all)
        /\ Len(logs') = Len(all) + Len(end)
        /\ \A i \in 1..(Len(all) + Len(end)) :
             logs'[i] = IF i <= Len(all) THEN all[i] ELSE end[i - Len(all)]
    BY <2>2, LenProperties, ConcatProperties
  <2>5. ASSUME NEW i \in 1..(Len(logs') - 1) PROVE logs'[i] # ETX
    <3>1. Len(end) = 1 \/ (Len(end) = 2 /\ end[1] = STX)
      <4>1. Len(<<ETX>>) = 1
        OBVIOUS
      <4>2. Len(<<STX, ETX>>) = 2 /\ <<STX, ETX>>[1] = STX
        OBVIOUS
      <4>3. end = <<ETX>> \/ end = <<STX, ETX>>
        BY <2>2
      <4>4. CASE end = <<ETX>>
        BY <4>1, <4>4
      <4>5. CASE end = <<STX, ETX>>
        BY <4>2, <4>5
      <4> QED BY <4>3, <4>4, <4>5
    <3>2. CASE i \in 1..Len(all)
      <4>1. /\ i \in 1..(Len(all) + Len(end)) /\ i <= Len(all)
        BY <2>4, <3>1, <3>2
      <4>2. logs'[i] = all[i] /\ i \in DOMAIN all
        BY <2>4, <3>2, <4>1
      <4> QED BY <2>3, <4>2 DEF Range
    <3>3. CASE i \notin 1..Len(all)
      <4>1. PICK a \in Nat : a = Len(all)
        BY <2>4
      <4>2. PICK e \in 1..2 : e = Len(end)
        BY <3>1
      <4>3. i \in 1..(a + e - 1) /\ i \notin 1..a
        BY <2>4, <3>3, <4>1, <4>2
      <4>4. e = 2 /\ i = a + 1
        BY <4>3
      <4>5. end[1] = STX /\ i \in 1..(a + e) /\ ~(i <= a) /\ i - a = 1
        BY <3>1, <4>2, <4>4
      <4>6. logs'[i] = STX
        BY <2>4, <4>1, <4>2, <4>5
      <4> QED BY <4>6 DEF STX, ETX
    <3> QED BY <3>2, <3>3
  <2>6. Len(chunks') = 0
    BY <2>2, EmptySeq
  <2> QED BY <1>1, <2>2, <2>5, <2>6 DEF InOrder
<1>4. CASE CloseFails
  <2>1. UNCHANGED <<chunks, logs, writing>> /\ writer'.offset = writer.offset
    BY <1>4 DEF CloseFails, store, StreamedInv, ChunksTyped
  <2> QED BY <1>1, <2>1 DEF InOrder
<1>5. CASE DeleteRun
  <2>1. UNCHANGED <<writer, writing>> /\ Len(chunks') = 0 /\ Len(logs') = 0
    BY <1>5, EmptySeq DEF DeleteRun, writerVars
  <2> QED BY <1>1, <2>1 DEF InOrder
<1>6. PutOther \/ ListenerSteps \/ ListenerFaults \/ UNCHANGED vars =>
        UNCHANGED <<writer, writing, chunks, logs>>
  BY DEF PutOther, ListenerSteps, ListenerFaults, vars, writerVars, store
<1>7. ASSUME NEW p \in Page, getRun(p) \/ PageSteps(p) \/ ConnectionBreaks(p)
      PROVE  UNCHANGED <<writer, writing, chunks, logs>>
  BY <1>7 DEF getRun, PageSteps, TailSubscribes, TailReads, TailRelays, TailCloses,
              ConnectionBreaks, writerVars, store
<1>8. ASSUME NEW g \in Stream, WriterSteps(g) \/ WriteRetries(g) \/ WriteFails(g)
      PROVE  InOrder'
  BY <1>1, <1>8, WritesInOrder
<1> QED BY <1>2, <1>3, <1>4, <1>5, <1>6, <1>7, <1>8 DEF Next

-----------------------------------------------------------------------------
(* The bytes of the output *)

\* The bytes from the one after m to n.
Seg(m, n) == [i \in 1..(n - m) |-> m + i]

\* The first chunk is one longer than the others.
LEMMA OffProperties ==
  /\ \A n \in Nat : Off(n) \in Nat /\ Off(n) # 1 /\ Off(n + 1) = n + 2 /\ Off(n) <= n + 1
  /\ Off(0) = 0
  /\ \A n \in Nat \ {0} : Off(n) = n + 1
BY DEF Off

\* The more chunks, the greater the offset of the next.
LEMMA OffGrows ==
  ASSUME NEW m \in Nat, NEW n \in Nat
  PROVE  /\ Off(m) \in Nat /\ Off(n) \in Nat
         /\ m < n <=> Off(m) < Off(n)
         /\ m <= n <=> Off(m) <= Off(n)
BY DEF Off

\* The offset and the data of a chunk of output.
LEMMA RowProperties ==
  ASSUME NEW i \in Nat \ {0}
  PROVE  /\ Row(i) \in ChunkRow /\ Row(i).mine /\ Row(i).offset = Off(i - 1)
         /\ Row(i).data = IF i = 1 THEN <<STX, 1>> ELSE <<i>>
         /\ NextOffset(Row(i)) = Off(i)
         /\ Off(i - 1) \in Nat /\ Off(i - 1) < Off(i) /\ Off(i) \in Nat
<1> DEFINE data == IF i = 1 THEN <<STX, 1>> ELSE <<i>>
<1>1. i - 1 \in Nat /\ i \in Nat /\ i - 1 < i /\ STX \in Int /\ i \in Int
  BY DEF STX
<1>2. Off(i - 1) \in Nat /\ Off(i - 1) < Off(i) /\ Off(i) \in Nat
  BY <1>1, OffGrows
<1>3. data \in Seq(Int)
  BY <1>1, BytesTyped
<1>4. Off(i) = Off(i - 1) + Len(data)
  <2>1. CASE i = 1
    <3>1. Len(<<STX, 1>>) = 2
      OBVIOUS
    <3> QED BY <2>1, <3>1 DEF Off
  <2>2. CASE i # 1
    <3>1. Len(<<i>>) = 1
      OBVIOUS
    <3> QED BY <1>1, <2>2, <3>1 DEF Off
  <2> QED BY <2>1, <2>2
<1>5. Row(i) = Chunk(Off(i - 1), data)
  BY DEF Row
<1> HIDE DEF data
<1>6. Row(i) \in ChunkRow
  BY <1>2, <1>3, <1>5, ChunkTyped
<1>7. Row(i).mine /\ Row(i).offset = Off(i - 1) /\ Row(i).data = data
  BY <1>5 DEF Chunk
<1> QED BY <1>2, <1>4, <1>6, <1>7 DEF NextOffset, data

\* A chunk of output is neither another one nor the last one.
LEMMA RowsDiffer ==
  ASSUME NEW i \in Nat \ {0}
  PROVE  /\ \A j \in Nat \ {0} : Row(i) = Row(j) => i = j
         /\ Row(i) # EndChunk
<1>1. ASSUME NEW j \in Nat \ {0}, Row(i) = Row(j), i # j PROVE FALSE
  <2>1. Row(i).offset = Off(i - 1) /\ Row(j).offset = Off(j - 1)
    BY RowProperties
  <2>2. PICK k \in Nat, l \in Nat : k = i - 1 /\ l = j - 1
    OBVIOUS
  <2>3. Off(k) = Off(l) /\ Off(k) \in Nat /\ (k < l \/ l < k)
    BY <1>1, <2>1, <2>2, OffProperties
  <2> QED BY <2>3, OffGrows
<1>2. Row(i) # EndChunk
  <2>1. Row(i).data # EndChunk.data
    <3>1. EndChunk.data \in {<<ETX>>, <<STX, ETX>>}
      BY DEF EndChunk, EndData, Chunk
    <3>2. Row(i).data \in {<<STX, 1>>, <<i>>}
      BY RowProperties
    <3>3. i # ETX /\ 1 # ETX
      BY DEF ETX
    <3>4. <<i>> # <<ETX>> /\ <<STX, 1>> # <<STX, ETX>> /\ <<i>> # <<STX, ETX>>
          /\ <<STX, 1>> # <<ETX>>
      BY <3>3
    <3> QED BY <3>1, <3>2, <3>4
  <2> QED BY <2>1
<1> QED BY <1>1, <1>2

\* One more chunk of output.
LEMMA RowsProperties ==
  ASSUME NEW n \in Nat
  PROVE  /\ Rows(n) \in Seq(ChunkRow) /\ Len(Rows(n)) = n
         /\ \A i \in 1..n : Rows(n)[i] = Row(i)
         /\ Rows(n + 1) = Append(Rows(n), Row(n + 1))
         /\ Rows(0) = <<>>
<1>1. ASSUME NEW i \in 1..(n + 1) PROVE i \in Nat \ {0} /\ Row(i) \in ChunkRow
  <2>1. i \in Nat \ {0}
    OBVIOUS
  <2> QED BY <2>1, RowProperties
<1>2. /\ Rows(n) \in Seq(ChunkRow) /\ Len(Rows(n)) = n
      /\ \A i \in 1..n : Rows(n)[i] = Row(i)
  BY <1>1 DEF Rows
<1>3. /\ Rows(n + 1) \in Seq(ChunkRow) /\ Len(Rows(n + 1)) = n + 1
      /\ \A i \in 1..(n + 1) : Rows(n + 1)[i] = Row(i)
  BY <1>1 DEF Rows
<1>4. Row(n + 1) \in ChunkRow
  BY <1>1
<1>5. /\ Append(Rows(n), Row(n + 1)) \in Seq(ChunkRow)
      /\ Len(Append(Rows(n), Row(n + 1))) = n + 1
      /\ \A i \in 1..n : Append(Rows(n), Row(n + 1))[i] = Rows(n)[i]
      /\ Append(Rows(n), Row(n + 1))[n + 1] = Row(n + 1)
  BY <1>2, <1>4, AppendProperties
<1>6. \A i \in 1..(n + 1) : Rows(n + 1)[i] = Append(Rows(n), Row(n + 1))[i]
  BY <1>2, <1>3, <1>5
<1>7. Rows(n + 1) = Append(Rows(n), Row(n + 1))
  BY <1>3, <1>5, <1>6, SeqEqual
<1>8. Rows(0) = <<>>
  BY DEF Rows
<1> QED BY <1>2, <1>7, <1>8

\* One more chunk adds its data to the output.
LEMMA OutProperties ==
  ASSUME NEW n \in Nat
  PROVE  /\ Out(n) \in Seq(Int) /\ Len(Out(n)) = Off(n)
         /\ n # 0 => Out(n)[1] = STX /\ \A i \in 1..n : Out(n)[i + 1] = i
         /\ Out(n + 1) = Out(n) \o Row(n + 1).data
         /\ Out(0) = <<>>
<1>0. STX \in Int
  BY DEF STX
<1>1. \A m \in Nat \ {0} :
        /\ Out(m) \in Seq(Int) /\ Len(Out(m)) = m + 1 /\ Off(m) = m + 1
        /\ Out(m)[1] = STX /\ \A i \in 1..m : Out(m)[i + 1] = i
  <2> SUFFICES ASSUME NEW m \in Nat \ {0}
               PROVE  /\ Out(m) \in Seq(Int) /\ Len(Out(m)) = m + 1 /\ Off(m) = m + 1
                      /\ Out(m)[1] = STX /\ \A i \in 1..m : Out(m)[i + 1] = i
    OBVIOUS
  <2>1. Out(m) = [i \in 1..(m + 1) |-> IF i = 1 THEN STX ELSE i - 1]
    BY DEF Out
  <2>2. Out(m) \in Seq(Int) /\ Len(Out(m)) = m + 1
    BY <1>0, <2>1
  <2>3. ASSUME NEW i \in 1..m PROVE Out(m)[i + 1] = i
    <3>1. i + 1 \in 1..(m + 1) /\ i + 1 # 1 /\ (i + 1) - 1 = i
      OBVIOUS
    <3> QED BY <2>1, <3>1
  <2>4. Out(m)[1] = STX
    BY <2>1
  <2> QED BY <2>2, <2>3, <2>4 DEF Off
<1>2. Out(0) = <<>> /\ Len(<<>>) = 0 /\ <<>> \in Seq(Int) /\ Off(0) = 0
  BY EmptySeq DEF Out, Off
<1>3. Out(n + 1) = Out(n) \o Row(n + 1).data
  <2>1. CASE n = 0
    <3>1. Row(n + 1).data = <<STX, 1>>
      <4>1. 1 \in Nat \ {0} /\ n + 1 = 1
        BY <2>1
      <4>2. Row(1).data = <<STX, 1>>
        BY <4>1, RowProperties
      <4> QED BY <4>1, <4>2
    <3>2. <<STX, 1>> \in Seq(Int)
      BY <1>0, BytesTyped
    <3>3. <<>> \o <<STX, 1>> = <<STX, 1>>
      BY <3>2, ConcatEmptySeq
    <3>4. Out(1) = <<STX, 1>>
      <4>1. /\ Out(1) \in Seq(Int) /\ Len(Out(1)) = 2 /\ Out(1)[1] = STX /\ Out(1)[1 + 1] = 1
        <5>1. PICK k : k = 1
          OBVIOUS
        <5>2. /\ Out(k) \in Seq(Int) /\ Len(Out(k)) = k + 1 /\ Out(k)[1] = STX
              /\ \A i \in 1..k : Out(k)[i + 1] = i
          <6>1. k \in Nat \ {0}
            BY <5>1
          <6> QED BY <1>1, <6>1
        <5>3. Out(k)[k + 1] = 1 /\ k + 1 = 2 /\ 1 + 1 = 2
          BY <5>1, <5>2
        <5> QED BY <5>1, <5>2, <5>3
      <4>2. Len(<<STX, 1>>) = 2 /\ <<STX, 1>>[1] = STX /\ <<STX, 1>>[2] = 1
        OBVIOUS
      <4>3. \A i \in 1..2 : i = 1 \/ i = 2
        OBVIOUS
      <4>4. \A i \in 1..Len(Out(1)) : Out(1)[i] = <<STX, 1>>[i]
        BY <4>1, <4>2, <4>3
      <4> QED BY <3>2, <4>1, <4>2, <4>4, SeqEqual
    <3> QED BY <1>2, <2>1, <3>1, <3>3, <3>4
  <2>2. CASE n # 0
    <3>1. n \in Nat \ {0} /\ n + 1 \in Nat \ {0} /\ n + 1 # 1 /\ n + 1 \in Int
      BY <2>2
    <3>2. Row(n + 1).data = <<n + 1>>
      BY <3>1, RowProperties
    <3>3. /\ Out(n) \in Seq(Int) /\ Len(Out(n)) = n + 1 /\ Out(n)[1] = STX
          /\ \A i \in 1..n : Out(n)[i + 1] = i
      BY <1>1, <3>1
    <3>4. /\ Out(n + 1) \in Seq(Int) /\ Len(Out(n + 1)) = n + 2 /\ Out(n + 1)[1] = STX
          /\ \A i \in 1..(n + 1) : Out(n + 1)[i + 1] = i
      <4>1. PICK k : k = n + 1
        OBVIOUS
      <4>2. /\ Out(k) \in Seq(Int) /\ Len(Out(k)) = k + 1 /\ Out(k)[1] = STX
            /\ \A i \in 1..k : Out(k)[i + 1] = i
        BY <1>1, <3>1, <4>1
      <4>3. k + 1 = n + 2
        BY <4>1
      <4> QED BY <4>1, <4>2, <4>3
    <3> DEFINE more == Append(Out(n), n + 1)
    <3>5. /\ more \in Seq(Int) /\ Len(more) = n + 2
          /\ \A i \in 1..(n + 1) : more[i] = Out(n)[i]
          /\ more[n + 2] = n + 1
          /\ more = Out(n) \o <<n + 1>>
      <4>1. /\ more \in Seq(Int) /\ Len(more) = Len(Out(n)) + 1
            /\ \A i \in 1..Len(Out(n)) : more[i] = Out(n)[i]
            /\ more[Len(Out(n)) + 1] = n + 1
        BY <3>1, <3>3, AppendProperties
      <4>2. more = Out(n) \o <<n + 1>>
        BY <3>1, <3>3, AppendIsConcat
      <4> QED BY <3>3, <4>1, <4>2
    <3> HIDE DEF more
    <3>6. ASSUME NEW i \in 1..(n + 2) PROVE Out(n + 1)[i] = more[i]
      <4>1. CASE i = 1
        <5>1. 1 \in 1..(n + 1)
          OBVIOUS
        <5> QED BY <3>3, <3>4, <3>5, <4>1, <5>1
      <4>2. CASE i \in 2..(n + 1)
        <5>1. i - 1 \in 1..n /\ i - 1 \in 1..(n + 1) /\ (i - 1) + 1 = i /\ i \in 1..(n + 1)
          BY <4>2
        <5>2. Out(n)[i] = i - 1 /\ Out(n + 1)[i] = i - 1
          BY <3>3, <3>4, <5>1
        <5> QED BY <3>5, <5>1, <5>2
      <4>3. CASE i = n + 2
        <5>1. n + 1 \in 1..(n + 1) /\ (n + 1) + 1 = n + 2
          OBVIOUS
        <5> QED BY <3>4, <3>5, <4>3, <5>1
      <4> QED BY <4>1, <4>2, <4>3
    <3> QED BY <3>2, <3>4, <3>5, <3>6, SeqEqual
  <2> QED BY <2>1, <2>2
<1> QED BY <1>1, <1>2, <1>3

\* The chunks of the output make the output.
LEMMA CoalescedRows ==
  ASSUME NEW n \in Nat
  PROVE  Coalesced(Rows(n)) = Out(n)
<1> DEFINE T == {m \in Nat : Coalesced(Rows(m)) = Out(m)}
<1>1. 0 \in T
  <2>1. Rows(0) = <<>> /\ Out(0) = <<>> /\ <<>> \in Seq(ChunkRow)
    BY EmptySeq DEF Rows, Out
  <2>2. 1 \in Nat \ {0}
    OBVIOUS
  <2>3. Row(1) \in ChunkRow
    BY <2>2, RowProperties
  <2>4. Coalesced(<<>>) = <<>>
    BY <2>1, <2>3, CoalescedAppend
  <2> QED BY <2>1, <2>4
<1>2. ASSUME NEW m \in T PROVE m + 1 \in T
  <2>1. m \in Nat /\ m + 1 \in Nat /\ m + 1 \in Nat \ {0} /\ Coalesced(Rows(m)) = Out(m)
    OBVIOUS
  <2>2. Rows(m) \in Seq(ChunkRow) /\ Row(m + 1) \in ChunkRow
    BY <2>1, RowsProperties, RowProperties
  <2>3. Coalesced(Append(Rows(m), Row(m + 1))) = Coalesced(Rows(m)) \o Row(m + 1).data
    BY <2>2, CoalescedAppend
  <2>4. Coalesced(Rows(m + 1)) = Out(m + 1)
    BY <2>1, <2>3, RowsProperties, OutProperties
  <2> QED BY <2>1, <2>4
<1>3. T = Nat
  <2>1. T \subseteq Nat
    OBVIOUS
  <2> HIDE DEF T
  <2> QED BY <1>1, <1>2, <2>1, Induct
<1> QED BY <1>3

-----------------------------------------------------------------------------
(* What is visible of the output *)

\* The bytes after m, up to n.
LEMMA SegProperties ==
  ASSUME NEW m \in Nat, NEW n \in Nat, m <= n
  PROVE  /\ Seg(m, n) \in Seq(Int) /\ Len(Seg(m, n)) = n - m
         /\ \A i \in 1..(n - m) : Seg(m, n)[i] = m + i /\ Seg(m, n)[i] \notin {STX, ETX}
         /\ Count(m) \in Seq(Int) /\ Len(Count(m)) = m /\ \A i \in 1..m : Count(m)[i] = i
         /\ Count(m) \o Seg(m, n) = Count(n)
         /\ Seg(0, n) = Count(n) /\ Count(0) = <<>>
         /\ Seg(m, n) = <<>> <=> m = n
<1>1. /\ Seg(m, n) \in Seq(Int) /\ Len(Seg(m, n)) = n - m
      /\ \A i \in 1..(n - m) : Seg(m, n)[i] = m + i /\ Seg(m, n)[i] \notin {STX, ETX}
  <2>1. n - m \in Nat /\ \A i \in 1..(n - m) : m + i \in Int /\ m + i \notin {STX, ETX}
    BY DEF STX, ETX
  <2> QED BY <2>1 DEF Seg
<1>2. \A k \in Nat : Count(k) \in Seq(Int) /\ Len(Count(k)) = k /\ \A i \in 1..k : Count(k)[i] = i
  BY DEF Count
<1>3. Count(m) \o Seg(m, n) = Count(n)
  <2>1. /\ Count(m) \o Seg(m, n) \in Seq(Int)
        /\ Len(Count(m) \o Seg(m, n)) = m + (n - m)
        /\ \A i \in 1..(m + (n - m)) : (Count(m) \o Seg(m, n))[i] =
             IF i <= m THEN Count(m)[i] ELSE Seg(m, n)[i - m]
    <3>1. /\ Count(m) \in Seq(Int) /\ Len(Count(m)) = m
          /\ Seg(m, n) \in Seq(Int) /\ Len(Seg(m, n)) = n - m
      BY <1>1, <1>2
    <3>2. PICK s \in Seq(Int), t \in Seq(Int) : s = Count(m) /\ t = Seg(m, n)
      BY <3>1
    <3>3. /\ s \o t \in Seq(Int) /\ Len(s \o t) = Len(s) + Len(t)
          /\ \A i \in 1..(Len(s) + Len(t)) :
               (s \o t)[i] = IF i <= Len(s) THEN s[i] ELSE t[i - Len(s)]
      BY ConcatProperties
    <3> QED BY <3>1, <3>2, <3>3
  <2>2. m + (n - m) = n
    OBVIOUS
  <2>3. ASSUME NEW i \in 1..n PROVE (Count(m) \o Seg(m, n))[i] = Count(n)[i]
    <3>1. Count(n)[i] = i
      BY <1>2
    <3>2. CASE i <= m
      BY <1>2, <2>1, <2>2, <3>1, <3>2
    <3>3. CASE ~(i <= m)
      <4>1. i - m \in 1..(n - m) /\ m + (i - m) = i
        BY <3>3
      <4> QED BY <1>1, <2>1, <2>2, <3>1, <3>3, <4>1
    <3> QED BY <3>2, <3>3
  <2>4. Count(n) \in Seq(Int) /\ Len(Count(n)) = n
    BY <1>2
  <2> QED BY <2>1, <2>2, <2>3, <2>4, SeqEqual
<1>4. Seg(0, n) = Count(n) /\ Count(0) = <<>>
  BY DEF Seg, Count
<1>5. Seg(m, n) = <<>> <=> m = n
  BY <1>1, EmptySeq
<1> QED BY <1>1, <1>2, <1>3, <1>4, <1>5

\* Of data that has a marker at either end, or none, the rest is shown.
LEMMA ToHTMLShows ==
  ASSUME NEW data \in Seq(Int), NEW bytes \in Seq(Int), NEW a \in 0..1, NEW z \in 0..1,
         Len(data) = a + Len(bytes) + z,
         \A i \in 1..Len(bytes) : data[a + i] = bytes[i] /\ bytes[i] \notin {STX, ETX},
         a = 1 => data[1] = STX,
         z = 1 => data[Len(data)] = ETX
  PROVE  ToHTML(data) = bytes /\ (IsEnd(data) <=> z = 1)
<1> DEFINE tail == IF IsStart(data) THEN Tail(data) ELSE data
<1>0. Len(bytes) \in Nat /\ Len(data) \in Nat /\ (data = <<>> <=> Len(data) = 0) /\ STX # ETX
  BY EmptySeq, LenProperties DEF STX, ETX
<1>1. IsStart(data) <=> a = 1
  <2>1. CASE a = 1
    BY <1>0, <2>1 DEF IsStart
  <2>2. CASE a = 0 /\ Len(bytes) # 0
    <3>1. 1 \in 1..Len(bytes) /\ a + 1 = 1
      BY <1>0, <2>2
    <3>2. data[1] # STX
      BY <3>1
    <3> QED BY <2>2, <3>2 DEF IsStart
  <2>3. CASE a = 0 /\ Len(bytes) = 0 /\ z = 1
    BY <1>0, <2>3 DEF IsStart
  <2>4. CASE a = 0 /\ Len(bytes) = 0 /\ z = 0
    BY <1>0, <2>4 DEF IsStart
  <2> QED BY <2>1, <2>2, <2>3, <2>4
<1>2. /\ tail \in Seq(Int) /\ Len(tail) = Len(bytes) + z
      /\ \A i \in 1..(Len(bytes) + z) : tail[i] = data[a + i]
  <2>1. CASE a = 1
    <3>1. data # <<>>
      BY <1>0, <2>1
    <3>2. /\ Tail(data) \in Seq(Int) /\ Len(Tail(data)) = Len(bytes) + z
          /\ \A i \in 1..(Len(bytes) + z) : Tail(data)[i] = data[i + 1]
      BY <1>0, <2>1, <3>1, HeadTailProperties
    <3> QED BY <1>0, <1>1, <2>1, <3>2
  <2>2. CASE a = 0
    BY <1>0, <1>1, <2>2
  <2>3. a = 1 \/ a = 0
    OBVIOUS
  <2> HIDE DEF tail
  <2> QED BY <2>1, <2>2, <2>3
<1> HIDE DEF tail
<1>3. tail = <<>> <=> Len(tail) = 0
  BY <1>2, EmptySeq
<1>4. IsEnd(tail) <=> z = 1
  <2>1. CASE z = 1
    <3>1. tail # <<>> /\ Len(tail) = Len(bytes) + 1 /\ tail[Len(tail)] = data[Len(data)]
      <4>1. /\ Len(tail) = Len(bytes) + 1 /\ Len(bytes) + 1 \in 1..(Len(bytes) + z)
            /\ a + (Len(bytes) + 1) = Len(data) /\ Len(tail) # 0
        BY <1>0, <1>2, <2>1
      <4>2. tail[Len(bytes) + 1] = data[a + (Len(bytes) + 1)]
        BY <1>2, <4>1
      <4> QED BY <1>3, <4>1, <4>2
    <3> QED BY <2>1, <3>1 DEF IsEnd, Last
  <2>2. CASE z = 0 /\ Len(bytes) # 0
    <3>1. Len(tail) = Len(bytes) /\ Len(bytes) \in 1..Len(bytes)
      BY <1>0, <1>2, <2>2
    <3>2. tail[Len(tail)] # ETX
      BY <1>2, <2>2, <3>1
    <3> QED BY <2>2, <3>2 DEF IsEnd, Last
  <2>3. CASE z = 0 /\ Len(bytes) = 0
    BY <1>2, <1>3, <2>3 DEF IsEnd
  <2> QED BY <1>0, <2>1, <2>2, <2>3
<1>5. IsEnd(data) <=> z = 1
  <2>1. CASE z = 1
    BY <1>0, <2>1 DEF IsEnd, Last
  <2>2. CASE z = 0 /\ Len(bytes) # 0
    <3>1. a + Len(bytes) = Len(data) /\ Len(bytes) \in 1..Len(bytes)
      BY <1>0, <2>2
    <3>2. data[Len(data)] # ETX
      BY <3>1
    <3> QED BY <2>2, <3>2 DEF IsEnd, Last
  <2>3. CASE z = 0 /\ Len(bytes) = 0 /\ a = 1
    BY <1>0, <2>3 DEF IsEnd, Last
  <2>4. CASE z = 0 /\ Len(bytes) = 0 /\ a = 0
    BY <1>0, <2>4 DEF IsEnd
  <2> QED BY <1>0, <2>1, <2>2, <2>3, <2>4
<1>6. CASE z = 0
  <2>1. \A i \in 1..Len(tail) : tail[i] = bytes[i]
    BY <1>0, <1>2, <1>6
  <2>2. tail = bytes
    BY <1>0, <1>2, <1>6, <2>1, SeqEqual
  <2>3. ToHTML(data) = tail
    BY <1>4, <1>6 DEF ToHTML, tail
  <2> QED BY <1>5, <2>2, <2>3
<1>7. CASE z = 1
  <2> DEFINE front == SubSeq(tail, 1, Len(tail) - 1)
  <2>1. ToHTML(data) = front
    BY <1>4, <1>7 DEF ToHTML, tail, Front
  <2>2. Len(tail) - 1 = Len(bytes) /\ \A i \in 1..Len(bytes) : tail[i] = bytes[i] /\ tail[i] \in Int
    <3>1. Len(tail) - 1 = Len(bytes)
      BY <1>0, <1>2, <1>7
    <3>2. ASSUME NEW i \in 1..Len(bytes) PROVE tail[i] = bytes[i] /\ tail[i] \in Int
      <4>1. i \in 1..(Len(bytes) + z) /\ bytes[i] \in Int
        BY <1>0, <1>7, ElementOfSeq
      <4> QED BY <1>2, <4>1
    <3> QED BY <3>1, <3>2
  <2>3. /\ front \in Seq(Int) /\ Len(front) = Len(bytes)
        /\ \A i \in 1..Len(bytes) : front[i] = bytes[i]
    <3>1. /\ front \in Seq(Int)
          /\ Len(front) = IF 1 <= Len(bytes) THEN Len(bytes) - 1 + 1 ELSE 0
          /\ \A i \in 1..(Len(bytes) - 1 + 1) : front[i] = tail[1 + i - 1]
      <4>1. PICK k \in Nat : k = Len(bytes)
        BY <1>0
      <4>2. 1 \in Int /\ k \in Int /\ \A i \in 1..k : tail[i] \in Int
        BY <2>2, <4>1
      <4>3. /\ SubSeq(tail, 1, k) \in Seq(Int)
            /\ Len(SubSeq(tail, 1, k)) = IF 1 <= k THEN k - 1 + 1 ELSE 0
            /\ \A i \in 1..(k - 1 + 1) : SubSeq(tail, 1, k)[i] = tail[1 + i - 1]
        BY <4>2, SubSeqProperties
      <4> QED BY <2>2, <4>1, <4>3
    <3>2. Len(bytes) - 1 + 1 = Len(bytes) /\ \A i \in 1..Len(bytes) : 1 + i - 1 = i
      BY <1>0
    <3>3. Len(front) = Len(bytes)
      BY <1>0, <3>1
    <3>4. ASSUME NEW i \in 1..Len(bytes) PROVE front[i] = bytes[i]
      <4>1. front[i] = tail[1 + i - 1] /\ 1 + i - 1 = i
        BY <3>1, <3>2
      <4> QED BY <2>2, <4>1
    <3> QED BY <3>1, <3>3, <3>4
  <2> HIDE DEF front
  <2>4. front = bytes
    BY <2>3, SeqEqual
  <2> QED BY <1>5, <2>1, <2>4
<1> QED BY <1>6, <1>7

\* A marker is not visible, any other byte is.
LEMMA BytesAppend ==
  ASSUME NEW data \in Seq(Int), NEW b \in Int
  PROVE  /\ Bytes(<<>>) = <<>> /\ Bytes(data) \in Seq(Int)
         /\ b \in {STX, ETX} => Bytes(Append(data, b)) = Bytes(data)
         /\ b \notin {STX, ETX} => Bytes(Append(data, b)) = Append(Bytes(data), b)
<1> DEFINE Visible(c) == IF c \in {STX, ETX} THEN <<>> ELSE <<c>>
           more == Append(data, b)
           ds == [i \in DOMAIN data |-> Visible(data[i])]
           es == [i \in DOMAIN more |-> Visible(more[i])]
<1>1. \A c \in Int : Visible(c) \in Seq(Int)
  BY EmptySeq
<1>2. Len(data) \in Nat /\ DOMAIN data = 1..Len(data) /\ \A i \in 1..Len(data) : data[i] \in Int
  BY LenProperties, ElementOfSeq
<1>3. /\ more \in Seq(Int) /\ Len(more) = Len(data) + 1 /\ DOMAIN more = 1..(Len(data) + 1)
      /\ \A i \in 1..Len(data) : more[i] = data[i]
      /\ more[Len(data) + 1] = b
  <2>1. /\ more \in Seq(Int) /\ Len(more) = Len(data) + 1
        /\ \A i \in 1..Len(data) : more[i] = data[i]
        /\ more[Len(data) + 1] = b
    BY AppendProperties
  <2> QED BY <2>1, LenProperties
<1> HIDE DEF Visible, more
<1>4. ds \in Seq(Seq(Int)) /\ Len(ds) = Len(data) /\ \A i \in 1..Len(data) : ds[i] = Visible(data[i])
  BY <1>1, <1>2
<1>5. /\ es \in Seq(Seq(Int)) /\ Len(es) = Len(data) + 1
      /\ \A i \in 1..(Len(data) + 1) : es[i] = Visible(more[i])
  <2>1. \A i \in 1..(Len(data) + 1) : more[i] \in Int
    BY <1>3, ElementOfSeq
  <2> QED BY <1>1, <1>2, <1>3, <2>1
<1> HIDE DEF ds, es
<1>6. es = Append(ds, Visible(b))
  <2>1. /\ Append(ds, Visible(b)) \in Seq(Seq(Int)) /\ Len(Append(ds, Visible(b))) = Len(data) + 1
        /\ \A i \in 1..Len(data) : Append(ds, Visible(b))[i] = ds[i]
        /\ Append(ds, Visible(b))[Len(data) + 1] = Visible(b)
    <3>1. PICK T : T = Seq(Int)
      OBVIOUS
    <3>2. PICK v \in T : v = Visible(b)
      BY <1>1, <3>1
    <3>3. ds \in Seq(T) /\ Len(ds) = Len(data)
      BY <1>4, <3>1
    <3>4. /\ Append(ds, v) \in Seq(T) /\ Len(Append(ds, v)) = Len(ds) + 1
          /\ \A i \in 1..Len(ds) : Append(ds, v)[i] = ds[i]
          /\ Append(ds, v)[Len(ds) + 1] = v
      BY <3>3, AppendProperties
    <3> QED BY <3>1, <3>2, <3>3, <3>4
  <2>2. ASSUME NEW i \in 1..(Len(data) + 1) PROVE es[i] = Append(ds, Visible(b))[i]
    <3>1. es[i] = Visible(more[i])
      BY <1>5
    <3>2. CASE i \in 1..Len(data)
      <4>1. more[i] = data[i] /\ ds[i] = Visible(data[i]) /\ Append(ds, Visible(b))[i] = ds[i]
        BY <1>3, <1>4, <2>1, <3>2
      <4> QED BY <3>1, <4>1
    <3>3. CASE i = Len(data) + 1
      BY <1>3, <2>1, <3>1, <3>3
    <3>4. i \in 1..Len(data) \/ i = Len(data) + 1
      BY <1>2
    <3> QED BY <3>2, <3>3, <3>4
  <2> QED BY <1>5, <2>1, <2>2, SeqEqual
<1>7. Bytes(data) = FlattenSeq(ds) /\ Bytes(more) = FlattenSeq(es)
  BY DEF Bytes, ds, es, Visible
<1>8. /\ FlattenSeq(ds) \in Seq(Int) /\ FlattenSeq(<<>>) = <<>>
      /\ FlattenSeq(es) = FlattenSeq(ds) \o Visible(b)
  BY <1>1, <1>4, <1>6, FlattenAppend
<1>9. Bytes(<<>>) = <<>>
  <2>1. DOMAIN <<>> = {}
    OBVIOUS
  <2>2. [i \in DOMAIN <<>> |-> IF <<>>[i] \in {STX, ETX} THEN <<>> ELSE <<<<>>[i]>>] = <<>>
    BY <2>1
  <2> QED BY <1>8, <2>2 DEF Bytes
<1>10. CASE b \in {STX, ETX}
  <2>1. FlattenSeq(ds) \o Visible(b) = FlattenSeq(ds)
    BY <1>8, <1>10, ConcatEmptySeq DEF Visible
  <2> QED BY <1>7, <1>8, <1>9, <1>10, <2>1 DEF more
<1>11. CASE b \notin {STX, ETX}
  <2>1. FlattenSeq(ds) \o Visible(b) = Append(FlattenSeq(ds), b)
    BY <1>8, <1>11, AppendIsConcat DEF Visible
  <2> QED BY <1>7, <1>8, <1>9, <1>11, <2>1 DEF more
<1> QED BY <1>10, <1>11

\* Two bytes, one after the other.
LEMMA AppendTwice ==
  ASSUME NEW a \in Int, NEW b \in Int
  PROVE  Append(Append(<<>>, a), b) = <<a, b>>
<1>1. <<>> \in Seq(Int) /\ Len(<<>>) = 0 /\ <<a, b>> \in Seq(Int)
  BY EmptySeq, BytesTyped
<1>2. PICK s : s = Append(<<>>, a)
  OBVIOUS
<1>3. s \in Seq(Int) /\ Len(s) = 1 /\ s[1] = a
  <2>1. s \in Seq(Int) /\ Len(s) = Len(<<>>) + 1 /\ s[Len(<<>>) + 1] = a
    BY <1>1, <1>2, AppendProperties
  <2> QED BY <1>1, <2>1
<1>4. /\ Append(s, b) \in Seq(Int) /\ Len(Append(s, b)) = 2
      /\ Append(s, b)[1] = a /\ Append(s, b)[2] = b
  <2>1. /\ Append(s, b) \in Seq(Int) /\ Len(Append(s, b)) = Len(s) + 1
        /\ \A i \in 1..Len(s) : Append(s, b)[i] = s[i]
        /\ Append(s, b)[Len(s) + 1] = b
    <3>1. s \in Seq(Int)
      BY <1>3
    <3> QED BY <3>1, AppendProperties
  <2>2. 1 \in 1..Len(s) /\ Len(s) + 1 = 2
    BY <1>3
  <2> QED BY <1>3, <2>1, <2>2
<1>5. Len(<<a, b>>) = 2 /\ <<a, b>>[1] = a /\ <<a, b>>[2] = b
  OBVIOUS
<1>6. \A i \in 1..2 : i = 1 \/ i = 2
  OBVIOUS
<1>7. \A i \in 1..2 : Append(s, b)[i] = <<a, b>>[i]
  BY <1>4, <1>5, <1>6
<1>8. Append(s, b) = <<a, b>>
  BY <1>1, <1>4, <1>5, <1>7, SeqEqual
<1> QED BY <1>2, <1>8

\* The output's bytes are counted, with or without the end.
LEMMA BytesOfOutput ==
  ASSUME NEW n \in Nat
  PROVE  /\ Bytes(Out(n)) = Count(n)
         /\ Bytes(Out(n) \o <<ETX>>) = Count(n)
         /\ n = 0 => Bytes(Out(n) \o <<STX, ETX>>) = Count(n)
<1> DEFINE T == {m \in Nat : Bytes(Out(m)) = Count(m)}
<1>0. STX \in Int /\ ETX \in Int /\ <<>> \in Seq(Int) /\ \A i \in Nat : i \notin {STX, ETX} /\ i \in Int
  BY EmptySeq DEF STX, ETX
<1>1. 0 \in T
  <2>1. Out(0) = <<>> /\ Count(0) = <<>>
    BY DEF Out, Count
  <2> QED BY <1>0, <2>1, BytesAppend
<1>2. ASSUME NEW m \in T PROVE m + 1 \in T
  <2>1. m \in Nat /\ m + 1 \in Nat /\ Bytes(Out(m)) = Count(m) /\ m + 1 \in Nat \ {0}
    OBVIOUS
  <2>2. Count(m + 1) = Append(Count(m), m + 1)
    <3>1. PICK k \in Nat : k = m + 1
      BY <2>1
    <3>2. /\ Count(m) \in Seq(Int) /\ Len(Count(m)) = m /\ \A i \in 1..m : Count(m)[i] = i
          /\ Count(k) \in Seq(Int) /\ Len(Count(k)) = k /\ \A i \in 1..k : Count(k)[i] = i
      BY <2>1 DEF Count
    <3>3. /\ Append(Count(m), k) \in Seq(Int) /\ Len(Append(Count(m), k)) = m + 1
          /\ \A i \in 1..m : Append(Count(m), k)[i] = Count(m)[i]
          /\ Append(Count(m), k)[m + 1] = k
      BY <1>0, <3>2, AppendProperties
    <3>4. \A i \in 1..k : Count(k)[i] = Append(Count(m), k)[i]
      BY <2>1, <3>1, <3>2, <3>3
    <3>5. Count(k) = Append(Count(m), k)
      BY <3>1, <3>2, <3>3, <3>4, SeqEqual
    <3> QED BY <3>1, <3>5
  <2>3. Out(m) \in Seq(Int) /\ Out(m + 1) = Out(m) \o Row(m + 1).data
    BY <2>1, OutProperties
  <2>4. CASE m = 0
    <3>1. Row(m + 1).data = <<STX, m + 1>>
      <4>1. PICK k \in Nat \ {0} : k = m + 1
        BY <2>1
      <4>2. Row(k).data = IF k = 1 THEN <<STX, 1>> ELSE <<k>>
        BY RowProperties
      <4>3. k = 1
        BY <2>4, <4>1
      <4>4. Row(k).data = <<STX, k>>
        BY <4>2, <4>3, Zenon
      <4> QED BY <4>1, <4>4, Zenon
    <3>2. Out(m + 1) = Append(Append(<<>>, STX), m + 1)
      <4>1. Out(m) = <<>>
        BY <2>4 DEF Out
      <4>2. <<STX, m + 1>> \in Seq(Int)
        BY <1>0, <2>1, BytesTyped
      <4>3. Append(Append(<<>>, STX), m + 1) = <<STX, m + 1>>
        BY <1>0, <2>1, AppendTwice
      <4> QED BY <2>3, <3>1, <4>1, <4>2, <4>3, ConcatEmptySeq
    <3>3. Append(<<>>, STX) \in Seq(Int)
      BY <1>0, AppendProperties
    <3>4. Bytes(Append(<<>>, STX)) = <<>>
      BY <1>0, BytesAppend
    <3>5. Bytes(Append(Append(<<>>, STX), m + 1)) = Append(<<>>, m + 1)
      BY <1>0, <2>1, <3>3, <3>4, BytesAppend
    <3>6. Count(m) = <<>>
      BY <2>4 DEF Count
    <3> QED BY <2>1, <2>2, <3>2, <3>5, <3>6
  <2>5. CASE m # 0
    <3>1. Row(m + 1).data = <<m + 1>>
      <4>1. PICK k \in Nat \ {0} : k = m + 1
        BY <2>1
      <4>2. Row(k).data = IF k = 1 THEN <<STX, 1>> ELSE <<k>>
        BY RowProperties
      <4>3. k # 1
        BY <2>1, <2>5, <4>1
      <4>4. Row(k).data = <<k>>
        BY <4>2, <4>3, Zenon
      <4> QED BY <4>1, <4>4, Zenon
    <3>2. Out(m + 1) = Append(Out(m), m + 1)
      BY <1>0, <2>1, <2>3, <3>1, AppendIsConcat
    <3>3. Bytes(Append(Out(m), m + 1)) = Append(Bytes(Out(m)), m + 1)
      BY <1>0, <2>1, <2>3, BytesAppend
    <3> QED BY <2>1, <2>2, <3>2, <3>3
  <2> QED BY <2>4, <2>5
<1>3. n \in T
  <2>1. T \subseteq Nat
    OBVIOUS
  <2> HIDE DEF T
  <2> QED BY <1>1, <1>2, <2>1, Induct
<1>4. Out(n) \in Seq(Int) /\ Bytes(Out(n)) = Count(n)
  BY <1>3, OutProperties
<1>5. Bytes(Out(n) \o <<ETX>>) = Count(n)
  <2>1. Out(n) \o <<ETX>> = Append(Out(n), ETX)
    BY <1>0, <1>4, AppendIsConcat
  <2> QED BY <1>0, <1>4, <2>1, BytesAppend
<1>6. ASSUME n = 0 PROVE Bytes(Out(n) \o <<STX, ETX>>) = Count(n)
  <2>1. Out(n) = <<>> /\ Count(n) = <<>>
    BY <1>6 DEF Out, Count
  <2>2. <<STX, ETX>> \in Seq(Int) /\ Append(<<>>, STX) \in Seq(Int)
    BY <1>0, BytesTyped, AppendProperties
  <2>3. Out(n) \o <<STX, ETX>> = Append(Append(<<>>, STX), ETX)
    <3>1. Append(Append(<<>>, STX), ETX) = <<STX, ETX>>
      BY <1>0, AppendTwice
    <3> QED BY <2>1, <2>2, <3>1, ConcatEmptySeq
  <2>4. Bytes(Append(<<>>, STX)) = <<>>
    BY <1>0, BytesAppend
  <2>5. Bytes(Append(Append(<<>>, STX), ETX)) = Bytes(Append(<<>>, STX))
    BY <1>0, <2>2, BytesAppend
  <2> QED BY <2>1, <2>3, <2>4, <2>5
<1> QED BY <1>4, <1>5, <1>6

-----------------------------------------------------------------------------
(* What is stored of the output, and what is read of it *)

\* The types of the store and the writer.
LEMMA Types ==
  ASSUME StreamedInv
  PROVE  /\ writing \in [Stream -> [pc : {"idle", "read", "put", "ended"}, data : Seq(Int), at : Nat]]
         /\ writer \in [started : BOOLEAN, offset : Nat, state : {"open", "closed", "failed"}]
         /\ chunks \in Seq(ChunkRow) /\ produced \in Nat
         /\ "stdout" \in Stream /\ "stderr" \in Stream
BY DEF StreamedInv, ChunksTyped, Stream

\* Once there is output, the end needs no beginning.
LEMMA EndOfOutput ==
  ASSUME StreamedInv, NEW n \in Nat, WriterAt(n), writing["stdout"].pc \in {"idle", "ended"}
  PROVE  EndData = <<ETX>> \/ (EndData = <<STX, ETX>> /\ n = 0)
<1>1. writer.started \in BOOLEAN
  BY Types
<1>2. CASE n = 0
  BY <1>2 DEF EndData
<1>3. CASE n # 0
  <2>1. Off(n) # 0 /\ Off(n + 1) # 0
    BY <1>3 DEF Off
  <2>2. writer.started
    BY <2>1 DEF WriterAt
  <2> QED BY <2>2 DEF EndData
<1> QED BY <1>2, <1>3

\* A closed writer has nothing under way.
LEMMA ClosedQuiet ==
  ASSUME StreamedInv, KeptInv, logs # <<>>
  PROVE  writing["stdout"].pc \in {"idle", "ended"} /\ writer.state = "closed" /\ chunks = <<>>
BY Types DEF KeptInv

\* The output and the end of it.
LEMMA WithEnd ==
  ASSUME NEW n \in Nat, NEW end, NEW all, all = Out(n) \o end,
         end = <<ETX>> \/ (end = <<STX, ETX>> /\ n = 0)
  PROVE  /\ all \in Seq(Int) /\ Len(all) \in Nat
         /\ \A i \in 1..n : all[i + 1] = i
         /\ n # 0 => all[1] = STX
         /\ all[Len(all)] = ETX
         /\ \/ Len(all) = Off(n) + 1
            \/ Len(all) = Off(n) + 2 /\ n = 0 /\ all[1] = STX
         /\ Bytes(all) = Count(n)
<1>1. /\ Out(n) \in Seq(Int) /\ Len(Out(n)) = Off(n) /\ Off(n) \in Nat
      /\ n # 0 => Off(n) = n + 1 /\ Out(n)[1] = STX /\ \A i \in 1..n : Out(n)[i + 1] = i
      /\ n = 0 => Off(n) = 0
  BY OutProperties, OffProperties
<1>2. STX \in Int /\ ETX \in Int
  BY DEF STX, ETX
<1>3. /\ end \in Seq(Int)
      /\ \/ Len(end) = 1 /\ end[1] = ETX
         \/ Len(end) = 2 /\ end[1] = STX /\ end[2] = ETX /\ n = 0
  <2>1. /\ <<ETX>> \in Seq(Int) /\ Len(<<ETX>>) = 1 /\ <<ETX>>[1] = ETX
    BY <1>2
  <2>2. <<STX, ETX>> \in Seq(Int)
    BY <1>2, BytesTyped
  <2>3. Len(<<STX, ETX>>) = 2 /\ <<STX, ETX>>[1] = STX /\ <<STX, ETX>>[2] = ETX
    OBVIOUS
  <2>4. CASE end = <<ETX>>
    BY <2>1, <2>4
  <2>5. CASE end = <<STX, ETX>> /\ n = 0
    BY <2>2, <2>3, <2>5
  <2> QED BY <2>4, <2>5
<1>4. Bytes(all) = Count(n)
  <2>1. CASE end = <<ETX>>
    BY <2>1, BytesOfOutput
  <2>2. CASE end = <<STX, ETX>> /\ n = 0
    BY <2>2, BytesOfOutput
  <2> QED BY <2>1, <2>2
<1>5. PICK out \in Seq(Int), tail \in Seq(Int) : out = Out(n) /\ tail = end
  BY <1>1, <1>3
<1>6. /\ all \in Seq(Int) /\ Len(all) = Len(out) + Len(tail)
      /\ \A i \in 1..(Len(out) + Len(tail)) :
           all[i] = IF i <= Len(out) THEN out[i] ELSE tail[i - Len(out)]
  <2>1. all = out \o tail
    BY <1>5
  <2> QED BY <2>1, ConcatProperties
<1>7. Len(out) = Off(n) /\ (Len(tail) = 1 \/ (Len(tail) = 2 /\ n = 0))
  BY <1>1, <1>3, <1>5
<1>8. all[Len(all)] = ETX /\ Len(all) \in Nat
  <2>1. Len(all) \in 1..(Len(out) + Len(tail)) /\ ~(Len(all) <= Len(out))
        /\ Len(all) - Len(out) = Len(tail)
    <3>1. PICK k \in Nat, l \in 1..2 : k = Len(out) /\ l = Len(tail)
      BY <1>1, <1>7
    <3>2. Len(all) = k + l
      BY <1>6, <3>1
    <3>3. k + l \in 1..(k + l) /\ ~(k + l <= k) /\ (k + l) - k = l
      OBVIOUS
    <3> QED BY <3>1, <3>2, <3>3
  <2>2. all[Len(all)] = tail[Len(tail)]
    BY <1>6, <2>1
  <2>3. tail[Len(tail)] = ETX
    BY <1>3, <1>5
  <2> QED BY <2>1, <2>2, <2>3
<1>9. ASSUME n # 0 PROVE all[1] = STX /\ \A i \in 1..n : all[i + 1] = i
  <2>1. Len(out) = n + 1 /\ out[1] = STX /\ \A i \in 1..n : out[i + 1] = i
    BY <1>1, <1>5, <1>9
  <2>2. 1 \in 1..(Len(out) + Len(tail)) /\ 1 <= Len(out)
    BY <1>7, <2>1
  <2>3. all[1] = STX
    BY <1>6, <2>1, <2>2
  <2>4. ASSUME NEW i \in 1..n PROVE all[i + 1] = i
    <3>1. i + 1 \in 1..(Len(out) + Len(tail)) /\ i + 1 <= Len(out)
      BY <1>7, <2>1
    <3> QED BY <1>6, <2>1, <3>1
  <2> QED BY <2>3, <2>4
<1>10. ASSUME n = 0, Len(tail) = 2 PROVE all[1] = STX
  <2>1. Len(out) = 0 /\ tail[1] = STX
    BY <1>1, <1>3, <1>5, <1>10
  <2>2. 1 \in 1..(Len(out) + Len(tail)) /\ ~(1 <= Len(out)) /\ 1 - Len(out) = 1
    BY <1>10, <2>1
  <2> QED BY <1>6, <2>1, <2>2
<1>11. \/ Len(all) = Off(n) + 1
       \/ Len(all) = Off(n) + 2 /\ n = 0 /\ all[1] = STX
  BY <1>6, <1>7, <1>10
<1>12. \A i \in 1..n : all[i + 1] = i
  <2>1. n = 0 => 1..n = {}
    OBVIOUS
  <2> QED BY <1>9, <2>1
<1>13. all \in Seq(Int) /\ (n # 0 => all[1] = STX)
  BY <1>6, <1>9
<1> QED BY <1>4, <1>8, <1>11, <1>12, <1>13

\* The store holds the output, and perhaps its end.
LEMMA StoredOutput ==
  ASSUME StreamedInv, KeptInv, NEW n \in Nat, WriterAt(n), StoreAt(n)
  PROVE  /\ Stored \in Seq(Int) /\ Len(Stored) \in Nat
         /\ \A i \in 1..n : Stored[i + 1] = i
         /\ n # 0 => Stored[1] = STX
         /\ logs = <<>> => Len(Stored) = Off(n)
         /\ logs # <<>> => /\ Stored = logs /\ Stored[Len(Stored)] = ETX
                           /\ \/ Len(Stored) = Off(n) + 1
                              \/ Len(Stored) = Off(n) + 2 /\ n = 0 /\ Stored[1] = STX
         /\ Bytes(Stored) = Count(n)
<1>1. CASE logs = <<>>
  <2>1. Stored = Out(n)
    BY <1>1, CoalescedRows DEF Stored, StoreAt
  <2>2. /\ Out(n) \in Seq(Int) /\ Len(Out(n)) = Off(n) /\ Off(n) \in Nat
        /\ n # 0 => Out(n)[1] = STX /\ \A i \in 1..n : Out(n)[i + 1] = i
        /\ Bytes(Out(n)) = Count(n)
    BY OutProperties, OffProperties, BytesOfOutput
  <2> QED BY <1>1, <2>1, <2>2
<1>2. CASE logs # <<>>
  <2>1. Stored = logs /\ logs = Out(n) \o EndData
    BY <1>2 DEF Stored, StoreAt
  <2>2. EndData = <<ETX>> \/ (EndData = <<STX, ETX>> /\ n = 0)
    BY <1>2, ClosedQuiet, EndOfOutput
  <2> HIDE DEF EndData
  <2> QED BY <1>2, <2>1, <2>2, WithEnd
<1> QED BY <1>1, <1>2

\* A page that shows the first m bytes reads the others, and no byte twice.
LEMMA ReadAt ==
  ASSUME StreamedInv, KeptInv, NEW n \in Nat, WriterAt(n), StoreAt(n),
         NEW m \in Nat, m <= n, NEW offset \in Nat,
         offset = Off(m) \/ (logs # <<>> /\ m = n /\ offset = Len(logs))
  PROVE  /\ getChunk(offset).data \in Seq(Int)
         /\ ToHTML(getChunk(offset).data) = Seg(m, n)
         /\ NextOffset(getChunk(offset)) = Len(Stored)
<1> DEFINE data == SubSeq(Stored, offset + 1, Len(Stored))
<1>1. /\ Stored \in Seq(Int) /\ Len(Stored) \in Nat
      /\ \A i \in 1..n : Stored[i + 1] = i
      /\ n # 0 => Stored[1] = STX
      /\ logs = <<>> => Len(Stored) = Off(n)
      /\ logs # <<>> => /\ Stored = logs /\ Stored[Len(Stored)] = ETX
                        /\ \/ Len(Stored) = Off(n) + 1
                           \/ Len(Stored) = Off(n) + 2 /\ n = 0 /\ Stored[1] = STX
  BY StoredOutput
<1>2. /\ Off(m) \in Nat /\ Off(n) \in Nat /\ Off(m) <= Off(n)
      /\ Off(m) = IF m = 0 THEN 0 ELSE m + 1
      /\ Off(n) = IF n = 0 THEN 0 ELSE n + 1
  BY DEF Off
<1>3. offset <= Len(Stored)
  BY <1>1, <1>2
<1>4. /\ data \in Seq(Int) /\ Len(data) = Len(Stored) - offset
      /\ \A i \in 1..(Len(Stored) - offset) : data[i] = Stored[offset + i]
  <2>1. PICK l \in Nat, s \in Seq(Int) : l = Len(Stored) /\ s = Stored
    BY <1>1
  <2>2. \A i \in (offset + 1)..l : s[i] \in Int
    BY <2>1, ElementOfSeq
  <2>3. offset + 1 \in Int /\ l \in Int
    BY <2>1
  <2>4. /\ SubSeq(s, offset + 1, l) \in Seq(Int)
        /\ Len(SubSeq(s, offset + 1, l)) = IF offset + 1 <= l THEN l - (offset + 1) + 1 ELSE 0
        /\ \A i \in 1..(l - (offset + 1) + 1) :
             SubSeq(s, offset + 1, l)[i] = s[(offset + 1) + i - 1]
    BY <2>2, <2>3, SubSeqProperties
  <2>5. offset <= l /\ l - (offset + 1) + 1 = l - offset
        /\ \A i \in 1..(l - offset) : (offset + 1) + i - 1 = offset + i
    BY <1>3, <2>1
  <2>6. Len(SubSeq(s, offset + 1, l)) = l - offset
    BY <2>1, <2>4, <2>5
  <2>7. \A i \in 1..(l - offset) : SubSeq(s, offset + 1, l)[i] = s[offset + i]
    BY <2>4, <2>5
  <2> QED BY <2>1, <2>4, <2>6, <2>7
<1> HIDE DEF data
<1>5. getChunk(offset).data = data /\ NextOffset(getChunk(offset)) = Len(Stored)
  <2>1. getChunk(offset) = Chunk(offset, data)
    BY DEF getChunk, data
  <2>2. getChunk(offset).data = data /\ getChunk(offset).offset = offset
    BY <2>1 DEF Chunk
  <2> QED BY <1>1, <1>3, <1>4, <2>2 DEF NextOffset
<1>6. /\ Seg(m, n) \in Seq(Int) /\ Len(Seg(m, n)) = n - m
      /\ \A i \in 1..(n - m) : Seg(m, n)[i] = m + i /\ Seg(m, n)[i] \notin {STX, ETX}
  BY SegProperties
<1>7. ASSUME NEW a \in 0..1, NEW z \in 0..1, Len(data) = a + (n - m) + z,
             a = 1 => data[1] = STX, z = 1 => data[Len(data)] = ETX,
             \A i \in 1..(n - m) : data[a + i] = m + i
      PROVE  ToHTML(data) = Seg(m, n)
  <2>1. PICK bytes \in Seq(Int) : bytes = Seg(m, n)
    BY <1>6
  <2>2. /\ Len(bytes) = n - m /\ Len(data) = a + Len(bytes) + z
        /\ \A i \in 1..Len(bytes) : data[a + i] = bytes[i] /\ bytes[i] \notin {STX, ETX}
    BY <1>6, <1>7, <2>1
  <2>3. data \in Seq(Int) /\ (a = 1 => data[1] = STX) /\ (z = 1 => data[Len(data)] = ETX)
    BY <1>4, <1>7
  <2>4. ToHTML(data) = bytes
    BY <2>2, <2>3, ToHTMLShows
  <2> QED BY <2>1, <2>4
<1>8. CASE logs # <<>> /\ m = n /\ offset = Len(logs)
  <2>1. Len(data) = 0 + (n - m) + 0 /\ 1..(n - m) = {}
    BY <1>1, <1>4, <1>8
  <2>2. 0 \in 0..1 /\ ~(0 = 1)
    OBVIOUS
  <2>3. ToHTML(data) = Seg(m, n)
    BY <1>7, <2>1, <2>2
  <2> QED BY <1>4, <1>5, <2>3
<1>9. ASSUME offset = Off(m), NEW z \in 0..1, Len(Stored) = Off(n) + z,
             z = 1 => Stored[Len(Stored)] = ETX
      PROVE  ToHTML(data) = Seg(m, n)
  <2>1. ASSUME z = 1 PROVE data[Len(data)] = ETX
    <3>1. Len(data) \in 1..(Len(Stored) - offset) /\ offset + Len(data) = Len(Stored)
      BY <1>2, <1>3, <1>4, <1>9, <2>1
    <3> QED BY <1>4, <1>9, <2>1, <3>1
  <2>2. CASE m = 0 /\ n = 0
    <3>1. Len(data) = 0 + (n - m) + z /\ 1..(n - m) = {}
      BY <1>2, <1>4, <1>9, <2>2
    <3> QED BY <1>7, <2>1, <3>1
  <2>3. CASE m = 0 /\ n # 0
    <3>1. Len(data) = 1 + (n - m) + z /\ Len(Stored) - offset = 1 + n + z /\ offset = 0
      BY <1>2, <1>4, <1>9, <2>3
    <3>2. data[1] = STX
      BY <1>1, <1>4, <2>3, <3>1
    <3>3. ASSUME NEW i \in 1..(n - m) PROVE data[1 + i] = m + i
      <4>1. i \in 1..n /\ 1 + i \in 1..(Len(Stored) - offset) /\ offset + (1 + i) = i + 1
        BY <2>3, <3>1
      <4> QED BY <1>1, <1>4, <2>3, <4>1
    <3> QED BY <1>7, <2>1, <3>1, <3>2, <3>3
  <2>4. CASE m # 0
    <3>1. Len(data) = 0 + (n - m) + z /\ Len(Stored) - offset = n - m + z /\ offset = m + 1
      BY <1>2, <1>4, <1>9, <2>4
    <3>2. ASSUME NEW i \in 1..(n - m) PROVE data[0 + i] = m + i
      <4>1. m + i \in 1..n /\ i \in 1..(Len(Stored) - offset) /\ offset + i = (m + i) + 1 /\ 0 + i = i
        BY <3>1
      <4> QED BY <1>1, <1>4, <4>1
    <3> QED BY <1>7, <2>1, <3>1, <3>2
  <2> QED BY <2>2, <2>3, <2>4
<1>10. CASE offset = Off(m) /\ logs = <<>>
  <2>1. Len(Stored) = Off(n) + 0
    BY <1>1, <1>2, <1>10
  <2> QED BY <1>4, <1>5, <1>9, <1>10, <2>1
<1>11. CASE offset = Off(m) /\ logs # <<>> /\ Len(Stored) = Off(n) + 1
  BY <1>1, <1>4, <1>5, <1>9, <1>11
<1>12. CASE offset = Off(m) /\ logs # <<>> /\ Len(Stored) = Off(n) + 2 /\ n = 0 /\ Stored[1] = STX
  <2>1. offset = 0 /\ m = 0 /\ Len(Stored) = 2 /\ Len(data) = 1 + (n - m) + 1 /\ Len(data) = 2
        /\ 1..(n - m) = {}
    BY <1>2, <1>4, <1>12
  <2>2. data[1] = STX /\ data[Len(data)] = ETX
    BY <1>1, <1>4, <1>12, <2>1
  <2> QED BY <1>4, <1>5, <1>7, <2>1, <2>2
<1> QED BY <1>1, <1>8, <1>10, <1>11, <1>12

\* A chunk of output shows its byte, and does not end.
LEMMA RowShown ==
  ASSUME NEW i \in Nat \ {0}
  PROVE  ToHTML(Row(i).data) = Seg(i - 1, i) /\ ~IsEnd(Row(i).data)
<1>1. Row(i).data = IF i = 1 THEN <<STX, 1>> ELSE <<i>>
  BY RowProperties
<1>2. i - 1 \in Nat /\ i - (i - 1) = 1 /\ i - 1 <= i /\ i \in Nat
  BY SMT
<1>3. PICK k \in Nat : k = i - 1
  BY <1>2
<1>4. PICK bytes \in Seq(Int) : bytes = Seg(k, i)
  BY <1>2, <1>3, SegProperties
<1>5. /\ Len(bytes) = 1 /\ bytes[1] = i
      /\ \A j \in 1..Len(bytes) : j = 1 /\ bytes[j] \notin {STX, ETX}
  <2>1. /\ Len(bytes) = i - k /\ i - k = 1
        /\ \A j \in 1..(i - k) : bytes[j] = k + j /\ bytes[j] \notin {STX, ETX}
    <3>1. k \in Nat /\ i \in Nat /\ k <= i
      BY <1>2, <1>3
    <3>2. /\ Len(Seg(k, i)) = i - k
          /\ \A j \in 1..(i - k) : Seg(k, i)[j] = k + j /\ Seg(k, i)[j] \notin {STX, ETX}
      BY <3>1, SegProperties
    <3> QED BY <1>2, <1>3, <1>4, <3>2
  <2>2. k + 1 = i /\ 1 \in 1..(i - k) /\ \A j \in 1..(i - k) : j = 1
    BY <1>2, <1>3, <2>1
  <2> QED BY <2>1, <2>2
<1>6. CASE i = 1
  <2>1. PICK data : data = <<STX, 1>>
    OBVIOUS
  <2>2. data \in Seq(Int) /\ Len(data) = 2 /\ data[1] = STX /\ data[2] = 1
    <3>1. <<STX, 1>> \in Seq(Int)
      BY BytesTyped DEF STX
    <3>2. Len(<<STX, 1>>) = 2 /\ <<STX, 1>>[1] = STX /\ <<STX, 1>>[2] = 1
      OBVIOUS
    <3> QED BY <2>1, <3>1, <3>2
  <2>3. PICK a \in 0..1, z \in 0..1 : a = 1 /\ z = 0
    OBVIOUS
  <2>4. /\ Len(data) = a + Len(bytes) + z /\ (a = 1 => data[1] = STX) /\ z # 1
        /\ \A j \in 1..Len(bytes) : data[a + j] = bytes[j] /\ bytes[j] \notin {STX, ETX}
    BY <1>5, <1>6, <2>2, <2>3
  <2>7. ToHTML(data) = bytes /\ ~IsEnd(data)
    <3>1. data \in Seq(Int)
      BY <2>2
    <3>2. a \in 0..1 /\ z \in 0..1 /\ (z = 1 => data[Len(data)] = ETX)
      BY <2>3, <2>4
    <3>3. ToHTML(data) = bytes /\ (IsEnd(data) <=> z = 1)
      <4>1. \A j \in 1..Len(bytes) : data[a + j] = bytes[j] /\ bytes[j] \notin {STX, ETX}
        BY <2>4
      <4>2. Len(data) = a + Len(bytes) + z /\ (a = 1 => data[1] = STX)
        BY <2>4
      <4> QED BY <3>1, <3>2, <4>1, <4>2, ToHTMLShows, ZenonT(60)
    <3> QED BY <2>4, <3>3
  <2>5. Row(i).data = data
    BY <1>1, <1>6, <2>1, Zenon
  <2>6. bytes = Seg(i - 1, i)
    BY <1>3, <1>4
  <2> QED BY <2>5, <2>6, <2>7, Zenon
<1>7. CASE i # 1
  <2>1. PICK data : data = <<i>>
    OBVIOUS
  <2>2. data \in Seq(Int) /\ Len(data) = 1 /\ data[1] = i
    BY <2>1
  <2>3. /\ Len(data) = 0 + Len(bytes) + 0 /\ 0 \in 0..1 /\ ~(0 = 1)
        /\ \A j \in 1..Len(bytes) : data[0 + j] = bytes[j] /\ bytes[j] \notin {STX, ETX}
    BY <1>5, <2>2
  <2>4. ToHTML(data) = bytes /\ ~IsEnd(data)
    BY <2>2, <2>3, ToHTMLShows
  <2>5. Row(i).data = data
    BY <1>1, <1>7, <2>1, Zenon
  <2>6. bytes = Seg(i - 1, i)
    BY <1>3, <1>4
  <2> QED BY <2>4, <2>5, <2>6, Zenon
<1> QED BY <1>6, <1>7

\* What the pages show begins what is stored.
LEMMA SoundShows ==
  ASSUME StreamedInv, KeptInv, NEW n \in Nat, WriterAt(n), StoreAt(n),
         NEW p \in Page, PageAt(p, n), page[p].shown \in Seq(Int)
  PROVE  IsPrefix(page[p].shown, Bytes(Stored))
<1>1. PICK m : m = Len(page[p].shown)
  OBVIOUS
<1>2. m \in Nat /\ m <= n /\ page[p].shown = Count(m) /\ Bytes(Stored) = Count(n)
  BY <1>1, StoredOutput, LenProperties DEF PageAt
<1>3. \A k \in Nat : Count(k) \in Seq(Int) /\ Len(Count(k)) = k /\ \A i \in 1..k : Count(k)[i] = i
  BY DEF Count
<1>4. PICK s \in Seq(Int), t \in Seq(Int) : s = Count(m) /\ t = Count(n)
  BY <1>2, <1>3
<1>5. /\ Len(s) = m /\ Len(t) = n
      /\ \A i \in 1..m : s[i] = t[i] /\ s[i] \in Int /\ t[i] \in Int
  <2>1. \A i \in 1..m : s[i] = i
    BY <1>2, <1>3, <1>4
  <2>2. \A i \in 1..n : t[i] = i
    BY <1>3, <1>4
  <2>3. Len(s) = m /\ Len(t) = n
    BY <1>2, <1>3, <1>4
  <2> QED BY <1>2, <2>1, <2>2, <2>3
<1>6. 1 \in Int /\ m \in Int /\ m - 1 + 1 = m /\ \A i \in 1..m : 1 + i - 1 = i
  BY <1>2
<1>7. /\ SubSeq(s, 1, m) \in Seq(Int) /\ Len(SubSeq(s, 1, m)) = IF 1 <= m THEN m - 1 + 1 ELSE 0
      /\ \A i \in 1..(m - 1 + 1) : SubSeq(s, 1, m)[i] = s[1 + i - 1]
      /\ SubSeq(t, 1, m) \in Seq(Int) /\ Len(SubSeq(t, 1, m)) = IF 1 <= m THEN m - 1 + 1 ELSE 0
      /\ \A i \in 1..(m - 1 + 1) : SubSeq(t, 1, m)[i] = t[1 + i - 1]
  BY <1>5, <1>6, SubSeqProperties
<1>8. Len(SubSeq(s, 1, m)) = m
  BY <1>2, <1>6, <1>7
<1>9. ASSUME NEW i \in 1..m PROVE SubSeq(s, 1, m)[i] = SubSeq(t, 1, m)[i]
  <2>1. SubSeq(s, 1, m)[i] = s[1 + i - 1] /\ SubSeq(t, 1, m)[i] = t[1 + i - 1]
    BY <1>6, <1>7
  <2>2. 1 + i - 1 = i
    BY <1>6
  <2> QED BY <1>5, <2>1, <2>2
<1>10. SubSeq(s, 1, m) = SubSeq(t, 1, m)
  BY <1>7, <1>8, <1>9, SeqEqual
<1> QED BY <1>2, <1>4, <1>5, <1>10 DEF IsPrefix

\* The end is not inside of what is stored.
LEMMA InOrderEnds ==
  ASSUME StreamedInv, KeptInv, InOrder
  PROVE  \A i \in 1..(Len(Stored) - 1) : Stored[i] # ETX
<1>1. CASE logs # <<>>
  BY <1>1 DEF InOrder, Stored
<1>2. CASE logs = <<>>
  <2>1. Stored = Coalesced(chunks) /\ Stored \in Seq(Int)
    BY <1>2, StoredTyped DEF Stored
  <2>2. Len(Stored) \in Nat /\ DOMAIN Stored = 1..Len(Stored)
    BY <2>1, LenProperties
  <2>3. ETX \notin Range(Stored)
    BY <2>1, NoEndInside
  <2>4. ASSUME NEW i \in 1..(Len(Stored) - 1) PROVE Stored[i] # ETX
    <3>1. i \in DOMAIN Stored
      BY <2>2
    <3> QED BY <2>3, <3>1 DEF Range
  <2> QED BY <2>4
<1> QED BY <1>1, <1>2
-----------------------------------------------------------------------------
(* The events of a listener that has not lapsed *)

\* What putChunk commits is chunks.
LEMMA PutCommits ==
  ASSUME StreamedInv, NEW chunk \in ChunkRow, putChunk(chunk)
  PROVE  \E changes \in Seq(ChunkRow) : build_and_send_event(changes)
<1>1. PICK inOrder \in Insertions(chunk) :
        \/ build_and_send_event(<<chunk>> \o inOrder)
        \/ build_and_send_event(<<chunk>>)
  BY DEF putChunk
<1>2. inOrder \in Seq(ChunkRow)
  BY InsertedRows DEF StreamedInv, ChunksTyped
<1>3. <<chunk>> \in Seq(ChunkRow)
  OBVIOUS
<1>4. <<chunk>> \o inOrder \in Seq(ChunkRow)
  BY <1>2, <1>3, ConcatProperties
<1> QED BY <1>1, <1>3, <1>4

\* Every subscription has its events in order.
AllOrdered == \A s \in Sub : Ordered(subs[s])

\* The steps that commit changes to the table chunks.
LEMMA Commits ==
  ASSUME StreamedInv, KeptInv,
         \/ \E g \in Stream : WritePuts(g) \/ WriteRetries(g)
         \/ CloseWriter \/ PutOther \/ DeleteRun
  PROVE  /\ \E changes \in Seq(ChunkRow) : build_and_send_event(changes)
         /\ UNCHANGED <<listener, enabled, subs, lapsed>>
<1>1. ASSUME NEW g \in Stream, WritePuts(g) \/ WriteRetries(g)
      PROVE  /\ \E changes \in Seq(ChunkRow) : build_and_send_event(changes)
             /\ UNCHANGED <<listener, enabled, subs, lapsed>>
  <2>1. writing[g].pc = "put" /\ putChunk(Chunk(writing[g].at, writing[g].data))
    BY <1>1 DEF WritePuts, WriteRetries
  <2>2. Chunk(writing[g].at, writing[g].data) \in ChunkRow
    BY <2>1, WrittenChunk
  <2>3. UNCHANGED <<listener, enabled, subs, lapsed>>
    BY <2>1 DEF putChunk
  <2> QED BY <2>1, <2>2, <2>3, PutCommits
<1>2. CASE CloseWriter
  <2> DEFINE chunk == Chunk(writer.offset, IF writer.started THEN <<ETX>> ELSE <<STX, ETX>>)
  <2>1. putChunk(chunk)
    BY <1>2 DEF CloseWriter
  <2>2. chunk \in ChunkRow
    <3>1. writer.offset \in Nat /\ writer.started \in BOOLEAN
      BY Types
    <3> QED BY <3>1, LastChunk
  <2>3. UNCHANGED <<listener, enabled, subs, lapsed>>
    BY <2>1 DEF putChunk
  <2> HIDE DEF chunk
  <2> QED BY <2>1, <2>2, <2>3, PutCommits
<1>3. CASE PutOther \/ DeleteRun
  <2>1. <<OtherChunk>> \in Seq(ChunkRow)
    <3>1. <<0>> \in Seq(Int)
      OBVIOUS
    <3> QED BY <3>1 DEF OtherChunk, ChunkRow
  <2>2. chunks \in Seq(ChunkRow)
    BY Types
  <2> QED BY <1>3, <2>1, <2>2 DEF PutOther, DeleteRun
<1> QED BY <1>1, <1>2, <1>3

\* The listener neither adds events nor takes what a page is due.
LEMMA ListenerKeeps ==
  ASSUME StreamedInv, ~lapsed, ~lapsed', AllOrdered, ListenerSteps \/ ListenerFaults
  PROVE  AllOrdered' /\ feed' = feed /\ \A s \in Sub : subs'[s].due = subs[s].due
<1>1. OrderedStream(ChunkRow)
  BY DEF OrderedStream, StreamedInv, AllOrdered
<1>2. CASE ForwardNext
  BY <1>1, <1>2, ForwardOrdered DEF AllOrdered, ForwardNext
<1>3. CASE ConnectionLost \/ Start
  BY <1>1, <1>3, ListenerOrdered DEF AllOrdered, ConnectionLost, Start
<1>4. CASE QueryFails
  BY <1>4 DEF QueryFails
<1>5. CASE \E id \in rows : cleanup(id)
  BY <1>5 DEF cleanup, AllOrdered, Ordered
<1> QED BY <1>2, <1>3, <1>4, <1>5 DEF ListenerSteps, ListenerFaults

\* The steps of the pages and their subscriptions.
LEMMA PageStream ==
  ASSUME NEW p \in Page, getRun(p) \/ PageSteps(p) \/ ConnectionBreaks(p)
  PROVE  \/ UNCHANGED streamVars
         \/ /\ Subscribe(p) \/ Take(p) \/ Unsubscribe(p)
            /\ UNCHANGED <<feed, rows, listener, notified, enabled, lapsed>>
BY DEF getRun, PageSteps, TailSubscribes, TailReads, TailRelays, TailCloses, ConnectionBreaks

\* A page that acts leaves the events and what the other pages are due alone.
LEMMA PageKeeps ==
  ASSUME StreamedInv, ~lapsed, AllOrdered, NEW p \in Page,
         getRun(p) \/ PageSteps(p) \/ ConnectionBreaks(p)
  PROVE  AllOrdered' /\ feed' = feed /\ \A s \in Sub : s # p => subs'[s].due = subs[s].due
<1>1. OrderedStream(ChunkRow) /\ p \in Sub
  BY DEF OrderedStream, StreamedInv, AllOrdered, Page
<1>2. CASE UNCHANGED streamVars
  BY <1>2 DEF streamVars, AllOrdered, Ordered
<1>3. CASE /\ Subscribe(p) \/ Take(p) \/ Unsubscribe(p)
           /\ UNCHANGED <<feed, rows, listener, notified, enabled, lapsed>>
  BY <1>1, <1>3, SubscriberOrdered DEF AllOrdered
<1> QED BY <1>2, <1>3, PageStream

\* Every step keeps the buffers in the order of the events.
LEMMA OrderedNext ==
  ASSUME StreamedInv, KeptInv, ~lapsed => AllOrdered, [Next]_vars, ~lapsed'
  PROVE  ~lapsed /\ AllOrdered'
<1>1. CASE UNCHANGED <<feed, notified, subs, lapsed>>
  BY <1>1 DEF AllOrdered, Ordered
<1>2. CASE \/ \E g \in Stream : WritePuts(g) \/ WriteRetries(g)
           \/ CloseWriter \/ PutOther \/ DeleteRun
  <2>1. PICK changes \in Seq(ChunkRow) : build_and_send_event(changes)
    BY <1>2, Commits
  <2>2. UNCHANGED <<listener, enabled, subs, lapsed>>
    BY <1>2, Commits
  <2>3. OrderedStream(ChunkRow)
    BY <2>2 DEF OrderedStream, StreamedInv, AllOrdered
  <2> QED BY <2>1, <2>2, <2>3, CommitOrdered DEF AllOrdered
<1>3. CASE ListenerSteps \/ ListenerFaults
  <2>1. ~lapsed
    BY <1>3 DEF ListenerSteps, ListenerFaults, ForwardNext, QueryFails, Start, ConnectionLost, cleanup
  <2> QED BY <1>3, <2>1, ListenerKeeps
<1>4. ASSUME NEW p \in Page, getRun(p) \/ PageSteps(p) \/ ConnectionBreaks(p)
      PROVE  ~lapsed /\ AllOrdered'
  <2>1. ~lapsed
    BY <1>4, PageStream DEF streamVars
  <2> QED BY <1>4, <2>1, PageKeeps
<1>5. /\ \A g \in Stream : WriteReads(g) \/ WriteSets(g) \/ WriteFails(g) =>
            UNCHANGED <<feed, notified, subs, lapsed>>
      /\ CloseFails \/ UNCHANGED vars => UNCHANGED <<feed, notified, subs, lapsed>>
  BY DEF WriteReads, WriteSets, WriteFails, CloseFails, vars, streamVars
<1> QED BY <1>1, <1>2, <1>3, <1>4, <1>5 DEF Next, WriterSteps

-----------------------------------------------------------------------------
(* The output, wherever it is: steps of the writer and of the listener *)

\* The premises of every step that follows.
Steady(n) ==
  /\ StreamedInv /\ KeptInv /\ PagesTyped /\ InOrder
  /\ ~lapsed /\ AllOrdered
  /\ n \in Nat /\ Sound(n)

\* What Steady says of the types.
LEMMA SteadyTyped ==
  ASSUME NEW n, Steady(n)
  PROVE  /\ StreamedInv /\ KeptInv /\ PagesTyped /\ InOrder /\ AllOrdered /\ ~lapsed
         /\ n \in Nat /\ WriterAt(n) /\ StoreAt(n) /\ FeedAt(n)
         /\ \A p \in Page : /\ PageAt(p, n) /\ page[p].shown \in Seq(Int)
                            /\ Len(page[p].shown) \in Nat
                            /\ page[p].from \in Nat /\ page[p].offset \in Nat
                            /\ page[p] \in [state : PageState, offset : Nat, from : Nat, shown : Seq(Int)]
                            /\ subs[p].due \in Nat /\ subs[p].due <= Len(feed) + 1
         /\ feed \in Seq(ChunkRow) /\ Len(feed) \in Nat
         /\ page \in [Page -> [state : PageState, offset : Nat, from : Nat, shown : Seq(Int)]]
<1>1. /\ StreamedInv /\ KeptInv /\ PagesTyped /\ InOrder /\ AllOrdered /\ ~lapsed
      /\ n \in Nat /\ WriterAt(n) /\ StoreAt(n) /\ FeedAt(n)
      /\ \A p \in Page : PageAt(p, n)
      /\ page \in [Page -> [state : PageState, offset : Nat, from : Nat, shown : Seq(Int)]]
  BY DEF Steady, Sound, PagesTyped
<1>2. OrderedStream(ChunkRow)
  BY <1>1 DEF OrderedStream, StreamedInv, AllOrdered
<1>3. /\ feed \in Seq(ChunkRow) /\ Len(feed) \in Nat /\ Len(notified) \in Nat
      /\ \A s \in Sub : /\ Len(subs[s].buffer) \in Nat /\ subs[s].due \in Nat
                        /\ Ordered(subs[s])
  BY <1>2, OrderedTyped
<1>4. ASSUME NEW p \in Page
      PROVE  subs[p].due \in Nat /\ subs[p].due <= Len(feed) + 1
  BY <1>3 DEF Page, Ordered
<1>5. ASSUME NEW p \in Page
      PROVE  /\ page[p].shown \in Seq(Int) /\ Len(page[p].shown) \in Nat
             /\ page[p].from \in Nat /\ page[p].offset \in Nat
             /\ page[p] \in [state : PageState, offset : Nat, from : Nat, shown : Seq(Int)]
  <2>1. page[p] \in [state : PageState, offset : Nat, from : Nat, shown : Seq(Int)]
    BY <1>1
  <2> QED BY <2>1, LenProperties
<1> QED BY <1>1, <1>3, <1>4, <1>5

\* Before the logs end no event is the last chunk.
LEMMA NoEndYet ==
  ASSUME NEW n \in Nat, FeedAt(n), logs = <<>>
  PROVE  \A id \in 1..Len(feed) : feed[id] # EndChunk
<1> SUFFICES ASSUME NEW id \in 1..Len(feed), feed[id] = EndChunk PROVE FALSE
  OBVIOUS
<1>1. feed[id].mine
  BY DEF EndChunk, Chunk
<1>2. PICK i \in 1..n : feed[id] = Row(i)
  BY <1>1 DEF FeedAt
<1>3. i \in Nat \ {0}
  OBVIOUS
<1> QED BY <1>2, <1>3, RowsDiffer

\* The last chunk is not another, or is not an event yet.
SameEnd == logs = <<>> \/ EndChunk' = EndChunk

\* The events mean what they meant.
LEMMA FeedKeeps ==
  ASSUME NEW n \in Nat, FeedAt(n), UNCHANGED <<feed, logs>>, SameEnd
  PROVE  FeedAt(n)'
<1>1. CASE EndChunk' = EndChunk
  BY <1>1 DEF FeedAt
<1>2. CASE logs = <<>>
  <2>1. \A id \in 1..Len(feed) : feed[id] # EndChunk
    BY <1>2, NoEndYet
  <2>2. /\ \A id \in 1..Len(feed) : feed[id].mine => \E i \in 1..n : feed[id] = Row(i)
        /\ \A i \in 1..n : \E id \in 1..Len(feed) : feed[id] = Row(i)
        /\ \A id \in 1..Len(feed), i \in 2..n :
             feed[id] = Row(i) => \E before \in 1..(id - 1) : feed[before] = Row(i - 1)
    BY <1>2 DEF FeedAt
  <2>3. ASSUME NEW id \in 1..Len(feed), NEW again \in 1..Len(feed), NEW i \in 1..n,
               id < again, feed[id] = Row(i), feed[again] = Row(i)
        PROVE  FALSE
    <3>1. PICK between \in (id + 1)..(again - 1) : feed[between] = EndChunk
      BY <2>3 DEF FeedAt
    <3>2. between \in 1..Len(feed)
      OBVIOUS
    <3> QED BY <2>1, <3>1, <3>2
  <2> QED BY <2>2, <2>3 DEF FeedAt
<1> QED BY <1>1, <1>2 DEF SameEnd

\* A page is where it was.
LEMMA PageKept ==
  ASSUME NEW n \in Nat, NEW p \in Page, FeedAt(n), PageAt(p, n), UNCHANGED <<feed, logs>>,
         SameEnd, page'[p] = page[p], subs'[p].due = subs[p].due,
         subs[p].due \in Nat
  PROVE  PageAt(p, n)'
<1>1. CASE EndChunk' = EndChunk
  BY <1>1 DEF PageAt, TailAt
<1>2. CASE logs = <<>>
  <2>1. ASSUME TailAt(p, n) PROVE TailAt(p, n)'
    <3> DEFINE m == Len(page[p].shown)
               from == page[p].from
               due == subs[p].due
    <3>1. ASSUME NEW id \in 1..Len(feed), NEW i \in 1..n,
                 due <= id, feed[id] = Row(i), i <= m, from <= Off(i - 1)
          PROVE  FALSE
      <4>1. PICK end \in 1..(id - 1) : feed[end] = EndChunk
        BY <2>1, <3>1 DEF TailAt
      <4>2. end \in 1..Len(feed)
        OBVIOUS
      <4> QED BY <1>2, <4>1, <4>2, NoEndYet
    <3> QED BY <2>1, <3>1 DEF TailAt
  <2> QED BY <1>2, <2>1 DEF PageAt
<1> QED BY <1>1, <1>2 DEF SameEnd

\* The writer reads and sets its offset, or gives up.
LEMMA WriteSound ==
  ASSUME NEW n, Steady(n), NEW g \in Stream, WriteReads(g) \/ WriteSets(g) \/ WriteFails(g),
         "race" \notin faults'
  PROVE  Sound(n)'
<1>1. /\ writing \in [Stream -> [pc : {"idle", "read", "put", "ended"}, data : Seq(Int), at : Nat]]
      /\ writer \in [started : BOOLEAN, offset : Nat, state : {"open", "closed", "failed"}]
      /\ "stdout" \in Stream /\ "stderr" \in Stream
      /\ n \in Nat /\ KeptInv /\ writing["stderr"].pc = "idle" /\ InOrder
  BY SteadyTyped, Types DEF InOrder
<1>2. g = "stdout"
  <2>1. g = "stderr" => WriteReads(g)
    BY <1>1 DEF WriteSets, WriteFails
  <2>2. g = "stderr" /\ WriteReads(g) => "race" \in faults'
    BY DEF WriteReads, Happens
  <2> QED BY <2>1, <2>2 DEF Stream
<1>3. WriterAt(n) /\ StoreAt(n) /\ FeedAt(n) /\ (\A p \in Page : PageAt(p, n) /\ subs[p].due \in Nat)
  BY SteadyTyped
<1>4. UNCHANGED <<feed, subs, lapsed, logs, chunks, deleted, page>>
  BY DEF WriteReads, WriteSets, WriteFails, store, streamVars
<1>5. WriterAt(n)' /\ SameEnd
  <2>1. CASE WriteReads(g)
    <3>1. /\ writing[g].pc = "idle" /\ produced' = produced + 1 /\ UNCHANGED writer
          /\ writing' = [writing EXCEPT ![g] =
               [pc |-> "read", at |-> writer.offset,
                data |-> IF writer.started THEN <<produced'>> ELSE <<STX, produced'>>]]
      BY <2>1 DEF WriteReads
    <3>2. /\ writing'["stdout"].pc = "read" /\ writing'["stderr"] = writing["stderr"]
          /\ writing'["stdout"].at = writer.offset
          /\ writing'["stdout"].data = IF writer.started THEN <<produced'>> ELSE <<STX, produced'>>
      BY <1>1, <1>2, <3>1
    <3>3. produced = n /\ produced' = n + 1 /\ writer.offset = Off(n) /\ writer.started = (writer.offset # 0)
      BY <1>2, <1>3, <3>1 DEF WriterAt
    <3>4. Chunk(writing'["stdout"].at, writing'["stdout"].data) = Row(n + 1)
      <4>1. (n + 1) - 1 = n
        BY <1>1
      <4>2. writer.started <=> n + 1 # 1
        BY <1>1, <3>3 DEF Off
      <4>3. writing'["stdout"].data = IF n + 1 = 1 THEN <<STX, 1>> ELSE <<n + 1>>
        <5>1. CASE n + 1 = 1
          BY <3>2, <3>3, <4>2, <5>1
        <5>2. CASE n + 1 # 1
          BY <3>2, <3>3, <4>2, <5>2
        <5> QED BY <5>1, <5>2
      <4> QED BY <3>2, <3>3, <4>1, <4>3 DEF Row
    <3> QED BY <1>1, <3>1, <3>2, <3>3, <3>4 DEF WriterAt, SameEnd, EndChunk, EndData
  <2>2. CASE WriteSets(g)
    <3>1. /\ writing[g].pc = "read" /\ UNCHANGED produced
          /\ writing' = [writing EXCEPT ![g].pc = "put"]
          /\ writer' = [writer EXCEPT !.started = TRUE,
                                      !.offset = writing[g].at + Len(writing[g].data)]
      BY <2>2 DEF WriteSets
    <3>2. /\ writing'["stdout"].pc = "put" /\ writing'["stderr"] = writing["stderr"]
          /\ writing'["stdout"].at = writing["stdout"].at
          /\ writing'["stdout"].data = writing["stdout"].data
          /\ writer'.started = TRUE
          /\ writer'.offset = writing["stdout"].at + Len(writing["stdout"].data)
      BY <1>1, <1>2, <3>1
    <3>3. /\ produced = n + 1
          /\ Chunk(writing["stdout"].at, writing["stdout"].data) = Row(n + 1)
      BY <1>2, <1>3, <3>1 DEF WriterAt
    <3>4. writer'.offset = Off(n + 1) /\ Off(n + 1) # 0
      <4>1. PICK i \in Nat \ {0} : i = n + 1
        BY <1>1
      <4>2. NextOffset(Row(i)) = Off(i) /\ Off(i) # 0
        <5>1. Off(i) = i + 1 /\ i + 1 # 0
          BY OffProperties
        <5>2. NextOffset(Row(i)) = Off(i)
          BY RowProperties
        <5> QED BY <5>1, <5>2
      <4>3. NextOffset(Chunk(writing["stdout"].at, writing["stdout"].data))
              = writing["stdout"].at + Len(writing["stdout"].data)
        BY DEF NextOffset, Chunk
      <4> QED BY <3>2, <3>3, <4>1, <4>2, <4>3
    <3>5. logs = <<>>
      BY <1>1, <1>2, <3>1 DEF KeptInv
    <3> QED BY <1>1, <3>1, <3>2, <3>3, <3>4, <3>5 DEF WriterAt, SameEnd
  <2>3. CASE WriteFails(g)
    <3>1. /\ writing[g].pc = "put" /\ UNCHANGED <<writer, produced>>
          /\ writing' = [writing EXCEPT ![g] = [Quiet EXCEPT !.pc = "ended"]]
      BY <2>3 DEF WriteFails
    <3>2. writing'["stdout"].pc = "ended" /\ writing'["stderr"] = writing["stderr"]
      BY <1>1, <1>2, <3>1 DEF Quiet
    <3>3. writer.offset = Off(n + 1) /\ writer.started = (writer.offset # 0)
      BY <1>2, <1>3, <3>1 DEF WriterAt
    <3> QED BY <1>1, <3>1, <3>2, <3>3 DEF WriterAt, SameEnd, EndChunk, EndData
  <2> QED BY <2>1, <2>2, <2>3
<1>6. logs = <<>>
  <2>1. writing["stdout"].pc \in {"read", "put"} \/ writer.state = "open"
    BY <1>2 DEF WriteReads, WriteSets, WriteFails
  <2> QED BY <1>1, <2>1 DEF KeptInv
<1>7. StoreAt(n)'
  BY <1>3, <1>4, <1>6 DEF StoreAt
<1>8. FeedAt(n)' /\ \A p \in Page : PageAt(p, n)'
  BY <1>1, <1>3, <1>4, <1>5, FeedKeeps, PageKept
<1> QED BY <1>5, <1>7, <1>8 DEF Sound

\* The events that were there when others are added.
LEMMA FeedLonger ==
  ASSUME NEW n, Steady(n), NEW changes \in Seq(ChunkRow), build_and_send_event(changes)
  PROVE  /\ feed' \in Seq(ChunkRow) /\ Len(feed') = Len(feed) + Len(changes)
         /\ Len(feed) \in Nat /\ Len(changes) \in Nat
         /\ \A id \in 1..Len(feed) : feed'[id] = feed[id]
         /\ \A k \in 1..Len(changes) : feed'[Len(feed) + k] = changes[k]
<1>1. feed \in Seq(ChunkRow) /\ Len(feed) \in Nat /\ Len(changes) \in Nat
  BY SteadyTyped, LenProperties
<1>2. PICK f \in Seq(ChunkRow) : f = feed
  BY <1>1
<1>3. feed' = f \o changes
  BY <1>2 DEF build_and_send_event
<1>4. /\ f \o changes \in Seq(ChunkRow) /\ Len(f \o changes) = Len(f) + Len(changes)
      /\ \A i \in 1..(Len(f) + Len(changes)) :
           (f \o changes)[i] = IF i <= Len(f) THEN f[i] ELSE changes[i - Len(f)]
  BY ConcatProperties
<1>5. /\ Len(feed') = Len(feed) + Len(changes)
      /\ \A i \in 1..(Len(feed) + Len(changes)) :
           feed'[i] = IF i <= Len(feed) THEN feed[i] ELSE changes[i - Len(feed)]
  BY <1>2, <1>3, <1>4
<1>6. \A id \in 1..Len(feed) : feed'[id] = feed[id]
  BY <1>1, <1>5
<1>7. ASSUME NEW k \in 1..Len(changes) PROVE feed'[Len(feed) + k] = changes[k]
  <2>1. /\ Len(feed) + k \in 1..(Len(feed) + Len(changes)) /\ ~(Len(feed) + k <= Len(feed))
        /\ (Len(feed) + k) - Len(feed) = k
    BY <1>1
  <2> QED BY <1>5, <2>1
<1> QED BY <1>1, <1>3, <1>4, <1>5, <1>6, <1>7

\* The writer's next chunk is in the store and among the events.
LEMMA PutSound ==
  ASSUME NEW n, Steady(n), NEW g \in Stream, WritePuts(g)
  PROVE  Sound(n + 1)' /\ n + 1 \in 0..MaxBytes
<1>1. /\ writing \in [Stream -> [pc : {"idle", "read", "put", "ended"}, data : Seq(Int), at : Nat]]
      /\ writer \in [started : BOOLEAN, offset : Nat, state : {"open", "closed", "failed"}]
      /\ chunks \in Seq(ChunkRow)
      /\ "stdout" \in Stream /\ "stderr" \in Stream /\ "stdout" # "stderr"
      /\ n \in Nat /\ StreamedInv /\ KeptInv /\ writing["stderr"].pc = "idle"
  BY SteadyTyped, Types DEF InOrder
<1>2. /\ WriterAt(n) /\ StoreAt(n) /\ FeedAt(n) /\ Len(feed) \in Nat
      /\ \A p \in Page : /\ PageAt(p, n) /\ Len(page[p].shown) \in Nat /\ page[p].from \in Nat
                         /\ subs[p].due \in Nat /\ subs[p].due <= Len(feed) + 1
  BY SteadyTyped
<1>3. g = "stdout" /\ writing["stdout"].pc = "put"
  BY <1>1 DEF WritePuts, Stream
<1>4. PICK k \in Nat \ {0} : k = n + 1
  BY <1>1
<1>5. /\ produced = k /\ writer.offset = Off(k)
      /\ Chunk(writing["stdout"].at, writing["stdout"].data) = Row(k)
      /\ writer.started = (writer.offset # 0)
  BY <1>2, <1>3, <1>4 DEF WriterAt
<1>6. /\ Row(k) \in ChunkRow /\ Row(k).mine /\ ~IsEnd(Row(k).data) /\ logs = <<>>
      /\ Row(k).offset = Off(n)
  <2>1. /\ Row(k) \in ChunkRow /\ Row(k).mine /\ Row(k).offset = Off(k - 1) /\ k - 1 = n
    <3>1. k - 1 = n
      BY <1>1, <1>4
    <3>2. Row(k) \in ChunkRow /\ Row(k).mine /\ Row(k).offset = Off(k - 1)
      BY RowProperties
    <3> QED BY <3>1, <3>2
  <2>2. ~IsEnd(Row(k).data) /\ logs = <<>>
    BY <1>1, <1>3, <1>5, WrittenChunk
  <2> QED BY <2>1, <2>2
<1>7. putChunk(Row(k)) /\ UNCHANGED <<writer, produced, page>>
      /\ writing' = [writing EXCEPT ![g] = Quiet]
  BY <1>3, <1>5 DEF WritePuts
<1>8. chunks = Rows(n)
  BY <1>2, <1>6 DEF StoreAt
<1>9. PICK inOrder \in Insertions(Row(k)) :
        chunks' = inOrder /\ logs' = <<>> /\ build_and_send_event(<<Row(k)>>)
  BY <1>6, <1>7 DEF putChunk
<1>10. UNCHANGED <<deleted, subs>>
  BY <1>7 DEF putChunk
<1>11. inOrder = Append(Rows(n), Row(k))
  <2>1. ASSUME NEW i \in 1..Len(chunks) PROVE chunks[i].offset < Row(k).offset
    <3>1. i \in 1..n /\ chunks[i] = Row(i)
      BY <1>1, <1>8, RowsProperties
    <3>2. i \in Nat \ {0} /\ i <= n /\ i \in Nat
      BY <3>1
    <3>3. Row(i).offset = Off(i - 1) /\ Off(i - 1) < Off(i) /\ Off(i - 1) \in Nat /\ Off(i) \in Nat
      BY <3>2, RowProperties
    <3>4. Off(i) <= Off(n) /\ Off(n) \in Nat
      BY <1>1, <3>2, OffGrows
    <3> QED BY <1>6, <3>1, <3>3, <3>4
  <2> QED BY <1>1, <1>6, <1>8, <2>1, LastInserted
<1>12. chunks' = Rows(k)
  BY <1>1, <1>4, <1>9, <1>11, RowsProperties
<1>13. <<Row(k)>> \in Seq(ChunkRow) /\ Len(<<Row(k)>>) = 1 /\ <<Row(k)>>[1] = Row(k) /\ 1 \in 1..1
  BY <1>6
<1>14. /\ Len(feed') = Len(feed) + 1 /\ feed'[Len(feed) + 1] = Row(k)
       /\ \A id \in 1..Len(feed) : feed'[id] = feed[id]
  BY <1>9, <1>13, FeedLonger
<1>15. /\ \A id \in 1..Len(feed), i \in 1..k : feed[id] = Row(i) => i \in 1..n
       /\ \A i \in 1..k : Row(k) = Row(i) => i = k
       /\ \A id \in 1..Len(feed) : feed[id].mine => \E i \in 1..n : feed[id] = Row(i)
  <2>1. \A i \in 1..k : Row(k) = Row(i) => i = k
    <3>1. \A i \in 1..k : i \in Nat \ {0}
      OBVIOUS
    <3> QED BY <3>1, RowsDiffer
  <2>2. \A id \in 1..Len(feed) : feed[id].mine => \E i \in 1..n : feed[id] = Row(i)
    BY <1>2, <1>6 DEF FeedAt
  <2>3. ASSUME NEW id \in 1..Len(feed), NEW i \in 1..k, feed[id] = Row(i) PROVE i \in 1..n
    <3>1. i \in Nat \ {0}
      OBVIOUS
    <3>2. feed[id].mine
      BY <2>3, <3>1, RowProperties
    <3>3. PICK j \in 1..n : Row(i) = Row(j)
      BY <2>2, <2>3, <3>2
    <3>4. j \in Nat \ {0}
      OBVIOUS
    <3>5. i = j
      BY <3>1, <3>3, <3>4, RowsDiffer
    <3> QED BY <3>5
  <2> QED BY <2>1, <2>2, <2>3
<1>16. EndChunk' = EndChunk
  BY <1>7 DEF EndChunk, EndData
<1>17. WriterAt(k)'
  <2>1. writing'["stdout"].pc = "idle" /\ writing'["stderr"] = writing["stderr"]
    BY <1>1, <1>3, <1>7 DEF Quiet
  <2> QED BY <1>1, <1>5, <1>7, <2>1 DEF WriterAt
<1>18. StoreAt(k)'
  BY <1>2, <1>9, <1>10, <1>12 DEF StoreAt
<1>19. FeedAt(k)'
  <2> DEFINE l == Len(feed) + 1
  <2>0. \A id \in 1..l : id \in 1..Len(feed) \/ id = l
    BY <1>2
  <2>1. ASSUME NEW id \in 1..l, feed'[id].mine PROVE \E i \in 1..k : feed'[id] = Row(i)
    <3>1. CASE id \in 1..Len(feed)
      <4>1. PICK i \in 1..n : feed[id] = Row(i)
        BY <1>14, <1>15, <2>1, <3>1
      <4>2. i \in 1..k
        BY <1>1, <1>4
      <4> QED BY <1>14, <3>1, <4>1, <4>2
    <3>2. CASE id = l
      <4>1. k \in 1..k
        OBVIOUS
      <4> QED BY <1>14, <3>2, <4>1
    <3> QED BY <2>0, <3>1, <3>2
  <2>2. ASSUME NEW i \in 1..k PROVE \E id \in 1..l : feed'[id] = Row(i)
    <3>1. CASE i \in 1..n
      <4>1. PICK id \in 1..Len(feed) : feed[id] = Row(i)
        BY <1>2, <3>1 DEF FeedAt
      <4>2. id \in 1..l
        BY <1>2
      <4> QED BY <1>14, <4>1, <4>2
    <3>2. CASE i = k
      <4>1. l \in 1..l
        BY <1>2
      <4> QED BY <1>14, <3>2, <4>1
    <3> QED BY <1>1, <1>4, <3>1, <3>2
  <2>3. ASSUME NEW id \in 1..l, NEW i \in 2..k, feed'[id] = Row(i)
        PROVE  \E before \in 1..(id - 1) : feed'[before] = Row(i - 1)
    <3>1. CASE id \in 1..Len(feed)
      <4>1. i \in 1..k /\ feed[id] = Row(i)
        BY <1>14, <2>3, <3>1
      <4>2. i \in 2..n
        BY <1>15, <3>1, <4>1
      <4>3. PICK before \in 1..(id - 1) : feed[before] = Row(i - 1)
        BY <1>2, <3>1, <4>1, <4>2 DEF FeedAt
      <4>4. before \in 1..Len(feed)
        BY <3>1
      <4> QED BY <1>14, <4>3, <4>4
    <3>2. CASE id = l
      <4>1. i \in 1..k
        OBVIOUS
      <4>2. i = k
        BY <1>14, <1>15, <2>3, <3>2, <4>1
      <4>3. n \in 1..n /\ i - 1 = n
        BY <1>1, <1>4, <4>2
      <4>4. PICK before \in 1..Len(feed) : feed[before] = Row(n)
        BY <1>2, <4>3 DEF FeedAt
      <4>5. before \in 1..(id - 1)
        BY <1>2, <3>2
      <4> QED BY <1>14, <4>3, <4>4, <4>5
    <3> QED BY <2>0, <3>1, <3>2
  <2>4. ASSUME NEW id \in 1..l, NEW again \in 1..l, NEW i \in 1..k,
               id < again, feed'[id] = Row(i), feed'[again] = Row(i)
        PROVE  \E between \in (id + 1)..(again - 1) : feed'[between] = EndChunk
    <3>1. id \in 1..Len(feed)
      BY <1>2, <2>4
    <3>2. feed[id] = Row(i) /\ i \in 1..n
      BY <1>14, <1>15, <2>4, <3>1
    <3>3. again \in 1..Len(feed)
      <4>1. CASE again = l
        <5>1. i = k
          BY <1>14, <1>15, <2>4, <4>1
        <5> QED BY <1>1, <1>4, <3>2, <5>1
      <4> QED BY <2>0, <4>1
    <3>4. feed[again] = Row(i)
      BY <1>14, <2>4, <3>3
    <3>5. PICK between \in (id + 1)..(again - 1) : feed[between] = EndChunk
      BY <1>2, <2>4, <3>1, <3>2, <3>3, <3>4 DEF FeedAt
    <3>6. between \in 1..Len(feed)
      BY <3>1, <3>3
    <3> QED BY <1>14, <3>5, <3>6
  <2> HIDE DEF l
  <2>5. Len(feed') = l
    BY <1>14 DEF l
  <2> QED BY <1>16, <2>1, <2>2, <2>3, <2>4, <2>5 DEF FeedAt
<1>20. ASSUME NEW p \in Page PROVE PageAt(p, k)'
  <2> DEFINE m == Len(page[p].shown)
             from == page[p].from
             due == subs[p].due
  <2>1. /\ m <= n /\ page[p].shown = Count(m) /\ m \in Nat /\ from \in Nat
        /\ page[p].state \in {"opened", "subscribed", "tailing"} => page[p].offset = Off(m)
        /\ page[p].state = "tailing" => TailAt(p, n)
        /\ due \in Nat /\ due <= Len(feed) + 1
    BY <1>2, <1>6 DEF PageAt
  <2>2. ASSUME TailAt(p, n) PROVE TailAt(p, k)'
    <3>1. /\ from <= Off(n) /\ from # 1 /\ from <= Off(k)
      <4>1. from <= Off(n) /\ (from # 1 \/ n = 0)
        BY <1>6, <2>2 DEF TailAt
      <4>2. Off(n) \in Nat /\ Off(k) \in Nat /\ Off(n) <= Off(k) /\ (n = 0 => Off(n) = 0)
        BY <1>1, <1>4, OffGrows, OffProperties
      <4> QED BY <2>1, <4>1, <4>2
    <3>2. ASSUME NEW i \in 1..k, Off(i - 1) < from PROVE i <= m
      <4>1. CASE i \in 1..n
        BY <2>2, <3>2, <4>1 DEF TailAt
      <4>2. CASE i = k
        <5>1. i - 1 = n /\ Off(n) \in Nat
          BY <1>1, <1>4, <4>2, OffProperties
        <5> QED BY <2>1, <3>1, <3>2, <5>1
      <4> QED BY <1>1, <1>4, <4>1, <4>2
    <3>3. ASSUME NEW id \in 1..(Len(feed) + 1), NEW i \in 1..k, id < due, feed'[id] = Row(i)
          PROVE  i <= m
      <4>1. id \in 1..Len(feed)
        BY <1>2, <2>1, <3>3
      <4>2. feed[id] = Row(i) /\ i \in 1..n
        BY <1>14, <1>15, <3>3, <4>1
      <4> QED BY <2>2, <3>3, <4>1, <4>2 DEF TailAt
    <3>4. ASSUME NEW id \in 1..(Len(feed) + 1), NEW i \in 1..k,
                 due <= id, feed'[id] = Row(i), i <= m, from <= Off(i - 1)
          PROVE  \E end \in 1..(id - 1) : due <= end /\ feed'[end] = EndChunk
      <4>1. i \in 1..n
        <5>1. i <= m /\ m <= n /\ m \in Nat /\ i \in Nat /\ i >= 1
          BY <2>1, <3>4
        <5> QED BY <1>1, <5>1
      <4>2. id \in 1..Len(feed)
        <5>1. CASE id = Len(feed) + 1
          <6>1. i = k
            BY <1>14, <1>15, <3>4, <5>1
          <6> QED BY <1>1, <1>4, <4>1, <6>1
        <5> QED BY <1>2, <5>1
      <4>3. feed[id] = Row(i)
        BY <1>14, <3>4, <4>2
      <4>4. PICK end \in 1..(id - 1) : due <= end /\ feed[end] = EndChunk
        BY <2>2, <3>4, <4>1, <4>2, <4>3 DEF TailAt
      <4>5. end \in 1..Len(feed)
        BY <4>2
      <4> QED BY <1>14, <4>4, <4>5
    <3>5. Len(feed') = Len(feed) + 1 /\ page' = page /\ subs' = subs /\ EndChunk' = EndChunk
      BY <1>7, <1>10, <1>14, <1>16
    <3> QED BY <3>1, <3>2, <3>3, <3>4, <3>5 DEF TailAt
  <2>3. m <= k
    BY <1>1, <1>4, <2>1
  <2> QED BY <1>7, <2>1, <2>2, <2>3 DEF PageAt
<1>21. k \in 0..MaxBytes
  BY <1>1, <1>5 DEF KeptInv
<1> QED BY <1>4, <1>17, <1>18, <1>19, <1>20, <1>21 DEF Sound

\* The end is in the store, and among the events with all the rest again.
LEMMA CloseSound ==
  ASSUME NEW n, Steady(n), CloseWriter
  PROVE  Sound(n)'
<1>1. /\ StreamedInv /\ KeptInv /\ n \in Nat /\ InOrder
      /\ WriterAt(n) /\ StoreAt(n) /\ FeedAt(n) /\ Len(feed) \in Nat
      /\ \A p \in Page : /\ PageAt(p, n) /\ Len(page[p].shown) \in Nat /\ page[p].from \in Nat
                         /\ subs[p].due \in Nat /\ subs[p].due <= Len(feed) + 1
  BY SteadyTyped
<1>2. \A i \in 1..Len(chunks) : chunks[i].offset < writer.offset
  BY <1>1 DEF InOrder
<1>3. /\ logs = <<>> /\ ~deleted /\ ~deleted' /\ logs' = Coalesced(chunks) \o EndData /\ logs' # <<>>
      /\ EndChunk \in ChunkRow /\ Append(chunks, EndChunk) \in Seq(ChunkRow)
      /\ build_and_send_event(<<EndChunk>> \o Append(chunks, EndChunk))
      /\ UNCHANGED <<subs, produced, writing, page>>
      /\ EndData' = EndData /\ EndChunk' = EndChunk
      /\ writer'.started = writer.started /\ writer'.offset = writer.offset
  BY <1>1, <1>2, ClosePuts
<1>4. chunks = Rows(n)
  BY <1>1, <1>3 DEF StoreAt
<1> DEFINE changes == <<EndChunk>> \o Append(chunks, EndChunk)
           l == Len(feed)
<1>5. /\ changes \in Seq(ChunkRow) /\ Len(changes) = n + 2
      /\ changes[1] = EndChunk /\ changes[n + 2] = EndChunk
      /\ \A i \in 1..n : changes[i + 1] = Row(i)
  <2>1. PICK s \in Seq(ChunkRow), t \in Seq(ChunkRow) : s = <<EndChunk>> /\ t = Append(chunks, EndChunk)
    <3>1. <<EndChunk>> \in Seq(ChunkRow)
      BY <1>3
    <3> QED BY <1>3, <3>1
  <2>2. Len(s) = 1 /\ s[1] = EndChunk
    BY <2>1
  <2>3. Rows(n) \in Seq(ChunkRow) /\ Len(Rows(n)) = n /\ \A i \in 1..n : Rows(n)[i] = Row(i)
    BY <1>1, RowsProperties
  <2>4. Len(t) = n + 1 /\ t[n + 1] = EndChunk /\ \A i \in 1..n : t[i] = Row(i)
    BY <1>3, <1>4, <2>1, <2>3, AppendProperties
  <2>5. /\ s \o t \in Seq(ChunkRow) /\ Len(s \o t) = Len(s) + Len(t)
        /\ \A i \in 1..(Len(s) + Len(t)) : (s \o t)[i] = IF i <= Len(s) THEN s[i] ELSE t[i - Len(s)]
    BY ConcatProperties
  <2>6. /\ s \o t \in Seq(ChunkRow) /\ Len(s \o t) = n + 2
        /\ \A i \in 1..(n + 2) : (s \o t)[i] = IF i <= 1 THEN s[i] ELSE t[i - 1]
    <3>1. Len(s) + Len(t) = n + 2
      BY <1>1, <2>2, <2>4
    <3> QED BY <2>2, <2>5, <3>1
  <2>7. (s \o t)[1] = EndChunk
    <3>1. 1 \in 1..(n + 2) /\ 1 <= 1
      BY <1>1
    <3> QED BY <2>2, <2>6, <3>1
  <2>8. (s \o t)[n + 2] = EndChunk
    <3>1. n + 2 \in 1..(n + 2) /\ ~(n + 2 <= 1) /\ (n + 2) - 1 = n + 1
      BY <1>1
    <3> QED BY <2>4, <2>6, <3>1
  <2>9. ASSUME NEW i \in 1..n PROVE (s \o t)[i + 1] = Row(i)
    <3>1. i + 1 \in 1..(n + 2) /\ ~(i + 1 <= 1) /\ (i + 1) - 1 = i
      BY <1>1
    <3> QED BY <2>4, <2>6, <3>1
  <2>10. changes = s \o t
    BY <2>1
  <2> HIDE DEF changes
  <2> QED BY <2>6, <2>7, <2>8, <2>9, <2>10
<1>6. build_and_send_event(changes)
  BY <1>3
<1> HIDE DEF changes
<1>7. /\ Len(feed') = l + n + 2 /\ l \in Nat
      /\ \A id \in 1..l : feed'[id] = feed[id]
      /\ feed'[l + 1] = EndChunk /\ feed'[l + n + 2] = EndChunk
      /\ \A i \in 1..n : feed'[l + 1 + i] = Row(i)
  <2>1. /\ Len(feed') = l + (n + 2)
        /\ \A id \in 1..l : feed'[id] = feed[id]
        /\ \A k \in 1..(n + 2) : feed'[l + k] = changes[k]
    BY <1>5, <1>6, FeedLonger
  <2>2. 1 \in 1..(n + 2) /\ n + 2 \in 1..(n + 2)
    BY <1>1
  <2>3. feed'[l + 1] = EndChunk /\ feed'[l + (n + 2)] = EndChunk
    BY <1>5, <2>1, <2>2
  <2>4. ASSUME NEW i \in 1..n PROVE feed'[l + 1 + i] = Row(i)
    <3>1. i + 1 \in 1..(n + 2) /\ l + (i + 1) = l + 1 + i
      BY <1>1
    <3> QED BY <1>5, <2>1, <3>1
  <2>5. l + (n + 2) = l + n + 2
    BY <1>1
  <2> QED BY <1>1, <2>1, <2>3, <2>4, <2>5
<1>8. /\ \A id \in 1..l : feed[id] # EndChunk
      /\ \A i \in 1..n : Row(i) # EndChunk
      /\ \A i \in 1..n : \A j \in 1..n : Row(i) = Row(j) => i = j
  <2>1. \A i \in 1..n : i \in Nat \ {0}
    OBVIOUS
  <2> QED BY <1>1, <1>3, <2>1, NoEndYet, RowsDiffer
\* A chunk of output is an old event, or one of those after the end.
<1>9. ASSUME NEW id \in 1..(l + n + 2), NEW i \in 1..n, feed'[id] = Row(i)
      PROVE  \/ id \in 1..l /\ feed[id] = Row(i)
             \/ id = l + 1 + i
  <2>1. CASE id \in 1..l
    BY <1>7, <1>9, <2>1
  <2>2. CASE id = l + 1 \/ id = l + n + 2
    BY <1>7, <1>8, <1>9, <2>2
  <2>3. CASE id \in (l + 2)..(l + n + 1)
    <3>1. PICK j \in 1..n : id = l + 1 + j
      <4>1. id - (l + 1) \in 1..n /\ id = l + 1 + (id - (l + 1))
        BY <1>1, <2>3
      <4> QED BY <4>1
    <3>2. i = j
      BY <1>7, <1>8, <1>9, <3>1
    <3> QED BY <3>1, <3>2
  <2> QED BY <1>1, <2>1, <2>2, <2>3
<1>10. WriterAt(n)'
  BY <1>1, <1>3 DEF WriterAt
<1>11. StoreAt(n)'
  BY <1>1, <1>3, <1>4, CoalescedRows DEF StoreAt
<1>12. FeedAt(n)'
  <2>1. ASSUME NEW id \in 1..(l + n + 2), feed'[id].mine
        PROVE  (\E i \in 1..n : feed'[id] = Row(i)) \/ feed'[id] = EndChunk
    <3>1. CASE id \in 1..l
      BY <1>1, <1>3, <1>7, <2>1, <3>1 DEF FeedAt
    <3>2. CASE id = l + 1 \/ id = l + n + 2
      BY <1>7, <3>2
    <3>3. CASE id \in (l + 2)..(l + n + 1)
      <4>1. id - (l + 1) \in 1..n /\ id = l + 1 + (id - (l + 1))
        BY <1>1, <3>3
      <4> QED BY <1>7, <4>1
    <3> QED BY <1>1, <3>1, <3>2, <3>3
  <2>2. ASSUME NEW i \in 1..n PROVE \E id \in 1..(l + n + 2) : feed'[id] = Row(i)
    <3>1. l + 1 + i \in 1..(l + n + 2)
      BY <1>1
    <3> QED BY <1>7, <3>1
  <2>3. ASSUME NEW id \in 1..(l + n + 2), NEW i \in 2..n, feed'[id] = Row(i)
        PROVE  \E before \in 1..(id - 1) : feed'[before] = Row(i - 1)
    <3>1. i \in 1..n /\ i - 1 \in 1..n
      BY <1>1
    <3>2. CASE id \in 1..l /\ feed[id] = Row(i)
      <4>1. PICK before \in 1..(id - 1) : feed[before] = Row(i - 1)
        BY <1>1, <3>2 DEF FeedAt
      <4>2. before \in 1..l
        BY <3>2
      <4> QED BY <1>7, <4>1, <4>2
    <3>3. CASE id = l + 1 + i
      <4>1. l + 1 + (i - 1) \in 1..(id - 1)
        BY <1>1, <3>3
      <4>2. feed'[l + 1 + (i - 1)] = Row(i - 1)
        BY <1>7, <3>1
      <4> QED BY <4>1, <4>2
    <3> QED BY <1>9, <2>3, <3>1, <3>2, <3>3
  <2>4. ASSUME NEW id \in 1..(l + n + 2), NEW again \in 1..(l + n + 2), NEW i \in 1..n,
               id < again, feed'[id] = Row(i), feed'[again] = Row(i)
        PROVE  \E between \in (id + 1)..(again - 1) : feed'[between] = EndChunk
    <3>1. CASE id \in 1..l /\ feed[id] = Row(i) /\ again \in 1..l /\ feed[again] = Row(i)
      <4>1. PICK between \in (id + 1)..(again - 1) : feed[between] = EndChunk
        BY <1>1, <2>4, <3>1 DEF FeedAt
      <4>2. between \in 1..l
        BY <3>1
      <4> QED BY <1>7, <4>1, <4>2
    <3>2. CASE id \in 1..l /\ again = l + 1 + i
      <4>1. l + 1 \in (id + 1)..(again - 1)
        BY <1>1, <3>2
      <4> QED BY <1>7, <4>1
    <3>3. CASE id = l + 1 + i
      <4>1. ~(again \in 1..l) /\ again # l + 1 + i
        BY <1>1, <2>4, <3>3
      <4> QED BY <1>9, <2>4, <4>1
    <3> QED BY <1>9, <2>4, <3>1, <3>2, <3>3
  <2> QED BY <1>3, <1>7, <2>1, <2>2, <2>3, <2>4 DEF FeedAt
<1>13. ASSUME NEW p \in Page PROVE PageAt(p, n)'
  <2> DEFINE m == Len(page[p].shown)
             from == page[p].from
             due == subs[p].due
  <2>1. /\ m <= n /\ page[p].shown = Count(m) /\ m \in Nat /\ from \in Nat
        /\ page[p].state \in {"opened", "subscribed", "tailing"} => page[p].offset = Off(m)
        /\ page[p].state = "tailing" => TailAt(p, n)
        /\ due \in Nat /\ due <= l + 1
    BY <1>1, <1>3 DEF PageAt
  <2>2. ASSUME TailAt(p, n) PROVE TailAt(p, n)'
    <3>1. (from # 1 \/ n = 0) /\ \A i \in 1..n : Off(i - 1) < from => i <= m
      BY <2>2 DEF TailAt
    <3>2. ASSUME NEW id \in 1..(l + n + 2), NEW i \in 1..n, id < due, feed'[id] = Row(i)
          PROVE  i <= m
      <4>1. id \in 1..l
        BY <1>1, <2>1, <3>2
      <4>2. feed[id] = Row(i)
        BY <1>7, <3>2, <4>1
      <4> QED BY <2>2, <3>2, <4>1, <4>2 DEF TailAt
    <3>3. ASSUME NEW id \in 1..(l + n + 2), NEW i \in 1..n,
                 due <= id, feed'[id] = Row(i), i <= m, from <= Off(i - 1)
          PROVE  \E end \in 1..(id - 1) : due <= end /\ feed'[end] = EndChunk
      <4>1. CASE id \in 1..l /\ feed[id] = Row(i)
        <5>1. PICK end \in 1..(id - 1) : due <= end /\ feed[end] = EndChunk
          BY <2>2, <3>3, <4>1 DEF TailAt
        <5>2. end \in 1..l
          BY <4>1
        <5> QED BY <1>7, <5>1, <5>2
      <4>2. CASE id = l + 1 + i
        <5>1. l + 1 \in 1..(id - 1) /\ due <= l + 1
          BY <1>1, <2>1, <4>2
        <5> QED BY <1>7, <5>1
      <4> QED BY <1>9, <3>3, <4>1, <4>2
    <3>4. Len(feed') = l + n + 2 /\ page' = page /\ subs' = subs /\ EndChunk' = EndChunk /\ logs' # <<>>
      BY <1>3, <1>7
    <3> QED BY <3>1, <3>2, <3>3, <3>4 DEF TailAt
  <2> QED BY <1>3, <2>1, <2>2 DEF PageAt
<1> QED BY <1>10, <1>11, <1>12, <1>13 DEF Sound

\* The writer gives up, or another run's chunk is put.
LEMMA OthersSound ==
  ASSUME NEW n, Steady(n), CloseFails \/ PutOther
  PROVE  Sound(n)'
<1>1. /\ StreamedInv /\ KeptInv /\ n \in Nat
      /\ WriterAt(n) /\ StoreAt(n) /\ FeedAt(n) /\ Len(feed) \in Nat
      /\ \A p \in Page : /\ PageAt(p, n) /\ Len(page[p].shown) \in Nat /\ page[p].from \in Nat
                         /\ subs[p].due \in Nat /\ subs[p].due <= Len(feed) + 1
  BY SteadyTyped
<1>2. /\ writer'.started = writer.started /\ writer'.offset = writer.offset
      /\ UNCHANGED <<produced, writing, chunks, logs, deleted, page, subs>>
  <2>1. writer \in [started : BOOLEAN, offset : Nat, state : {"open", "closed", "failed"}]
    BY <1>1, Types
  <2> QED BY <2>1 DEF CloseFails, PutOther, writerVars, store, streamVars
<1>3. EndData' = EndData /\ EndChunk' = EndChunk /\ WriterAt(n)' /\ StoreAt(n)'
  <2>1. EndData' = EndData /\ EndChunk' = EndChunk
    BY <1>2 DEF EndData, EndChunk, Chunk
  <2> QED BY <1>1, <1>2, <2>1 DEF WriterAt, StoreAt
<1>4. CASE CloseFails
  <2>1. UNCHANGED feed
    BY <1>4 DEF CloseFails, streamVars
  <2>2. FeedAt(n)' /\ \A p \in Page : PageAt(p, n)'
    BY <1>1, <1>2, <1>3, <2>1, FeedKeeps, PageKept DEF SameEnd
  <2> QED BY <1>3, <2>2 DEF Sound
<1>5. CASE PutOther
  <2> DEFINE l == Len(feed)
  <2>1. <<OtherChunk>> \in Seq(ChunkRow) /\ Len(<<OtherChunk>>) = 1 /\ <<OtherChunk>>[1] = OtherChunk
    <3>1. <<0>> \in Seq(Int)
      OBVIOUS
    <3> QED BY <3>1 DEF OtherChunk, ChunkRow
  <2>2. /\ Len(feed') = l + 1 /\ feed'[l + 1] = OtherChunk
        /\ \A id \in 1..l : feed'[id] = feed[id]
    <3>1. 1 \in 1..1
      OBVIOUS
    <3> QED BY <1>5, <2>1, <3>1, FeedLonger DEF PutOther
  <2>3. ~OtherChunk.mine /\ OtherChunk # EndChunk /\ \A i \in 1..n : Row(i) # OtherChunk
    <3>1. ~OtherChunk.mine /\ EndChunk.mine
      BY DEF OtherChunk, EndChunk, Chunk
    <3>2. ASSUME NEW i \in 1..n PROVE Row(i).mine
      <4>1. i \in Nat \ {0}
        OBVIOUS
      <4> QED BY <4>1, RowProperties
    <3> QED BY <3>1, <3>2
  <2>4. \A id \in 1..(l + 1) : id \in 1..l \/ id = l + 1
    BY <1>1
  <2>5. \A id \in 1..(l + 1), i \in 1..n : feed'[id] = Row(i) => id \in 1..l /\ feed[id] = Row(i)
    BY <2>2, <2>3, <2>4
  <2>6. FeedAt(n)'
    <3>1. ASSUME NEW id \in 1..(l + 1), feed'[id].mine
          PROVE  (\E i \in 1..n : feed'[id] = Row(i)) \/ (logs # <<>> /\ feed'[id] = EndChunk)
      BY <1>1, <2>2, <2>3, <2>4, <3>1 DEF FeedAt
    <3>2. ASSUME NEW i \in 1..n PROVE \E id \in 1..(l + 1) : feed'[id] = Row(i)
      <4>1. PICK id \in 1..l : feed[id] = Row(i)
        BY <1>1 DEF FeedAt
      <4>2. id \in 1..(l + 1)
        BY <1>1
      <4> QED BY <2>2, <4>1, <4>2
    <3>3. ASSUME NEW id \in 1..(l + 1), NEW i \in 2..n, feed'[id] = Row(i)
          PROVE  \E before \in 1..(id - 1) : feed'[before] = Row(i - 1)
      <4>1. i \in 1..n
        OBVIOUS
      <4>2. id \in 1..l /\ feed[id] = Row(i)
        BY <2>5, <3>3, <4>1
      <4>3. PICK before \in 1..(id - 1) : feed[before] = Row(i - 1)
        BY <1>1, <4>2 DEF FeedAt
      <4>4. before \in 1..l
        BY <4>2
      <4> QED BY <2>2, <4>3, <4>4
    <3>4. ASSUME NEW id \in 1..(l + 1), NEW again \in 1..(l + 1), NEW i \in 1..n,
                 id < again, feed'[id] = Row(i), feed'[again] = Row(i)
          PROVE  \E between \in (id + 1)..(again - 1) : feed'[between] = EndChunk
      <4>1. id \in 1..l /\ feed[id] = Row(i) /\ again \in 1..l /\ feed[again] = Row(i)
        BY <2>5, <3>4
      <4>2. PICK between \in (id + 1)..(again - 1) : feed[between] = EndChunk
        BY <1>1, <3>4, <4>1 DEF FeedAt
      <4>3. between \in 1..l
        BY <4>1
      <4> QED BY <2>2, <4>2, <4>3
    <3> QED BY <1>2, <1>3, <2>2, <3>1, <3>2, <3>3, <3>4 DEF FeedAt
  <2>7. ASSUME NEW p \in Page PROVE PageAt(p, n)'
    <3> DEFINE m == Len(page[p].shown)
               from == page[p].from
               due == subs[p].due
    <3>1. ASSUME TailAt(p, n) PROVE TailAt(p, n)'
      <4>1. ASSUME NEW id \in 1..(l + 1), NEW i \in 1..n, id < due, feed'[id] = Row(i)
            PROVE  i <= m
        BY <2>5, <3>1, <4>1 DEF TailAt
      <4>2. ASSUME NEW id \in 1..(l + 1), NEW i \in 1..n,
                   due <= id, feed'[id] = Row(i), i <= m, from <= Off(i - 1)
            PROVE  \E end \in 1..(id - 1) : due <= end /\ feed'[end] = EndChunk
        <5>1. id \in 1..l /\ feed[id] = Row(i)
          BY <2>5, <4>2
        <5>2. PICK end \in 1..(id - 1) : due <= end /\ feed[end] = EndChunk
          BY <3>1, <4>2, <5>1 DEF TailAt
        <5>3. end \in 1..l
          BY <5>1
        <5> QED BY <2>2, <5>2, <5>3
      <4>3. /\ from # 1 \/ n = 0
            /\ logs = <<>> => from <= Off(n)
            /\ \A i \in 1..n : Off(i - 1) < from => i <= m
        BY <3>1 DEF TailAt
      <4> QED BY <1>2, <1>3, <2>2, <4>1, <4>2, <4>3 DEF TailAt
    <3> QED BY <1>1, <1>2, <3>1 DEF PageAt
  <2> QED BY <1>3, <2>6, <2>7 DEF Sound
<1> QED BY <1>4, <1>5

\* The listener works on.
LEMMA ListenerSound ==
  ASSUME NEW n, Steady(n), ListenerSteps \/ ListenerFaults, ~lapsed'
  PROVE  Sound(n)'
<1>1. /\ StreamedInv /\ ~lapsed /\ AllOrdered /\ n \in Nat
      /\ WriterAt(n) /\ StoreAt(n) /\ FeedAt(n)
      /\ \A p \in Page : PageAt(p, n) /\ subs[p].due \in Nat
  BY SteadyTyped
<1>2. UNCHANGED <<writer, produced, writing, chunks, logs, deleted, page>>
  BY DEF ListenerSteps, ListenerFaults, writerVars, store
<1>3. feed' = feed /\ \A p \in Page : subs'[p].due = subs[p].due
  BY <1>1, ListenerKeeps DEF Page
<1>4. EndData' = EndData /\ EndChunk' = EndChunk /\ WriterAt(n)' /\ StoreAt(n)'
  <2>1. EndData' = EndData /\ EndChunk' = EndChunk
    BY <1>2 DEF EndData, EndChunk
  <2> QED BY <1>1, <1>2, <2>1 DEF WriterAt, StoreAt
<1>5. FeedAt(n)' /\ \A p \in Page : PageAt(p, n)'
  BY <1>1, <1>2, <1>3, <1>4, FeedKeeps, PageKept DEF SameEnd
<1> QED BY <1>4, <1>5 DEF Sound

-----------------------------------------------------------------------------
(* The output, wherever it is: steps of the pages *)

\* Only one page acts, and all but it are where they were.
LEMMA OnePage ==
  ASSUME NEW n, Steady(n), NEW p \in Page, getRun(p) \/ PageSteps(p) \/ ConnectionBreaks(p),
         PageAt(p, n)'
  PROVE  Sound(n)'
<1>1. /\ StreamedInv /\ ~lapsed /\ AllOrdered /\ n \in Nat
      /\ WriterAt(n) /\ StoreAt(n) /\ FeedAt(n)
      /\ \A q \in Page : PageAt(q, n) /\ subs[q].due \in Nat
  BY SteadyTyped
<1>2. UNCHANGED <<writer, produced, writing, chunks, logs, deleted>>
  BY DEF getRun, PageSteps, TailSubscribes, TailReads, TailRelays, TailCloses,
         ConnectionBreaks, writerVars, store
<1>3. feed' = feed /\ \A q \in Page : q # p => subs'[q].due = subs[q].due
  BY <1>1, PageKeeps DEF Page
<1>4. \A q \in Page : q # p => page'[q] = page[q]
  <2>1. PICK pg : page' = [page EXCEPT ![p] = pg]
    BY DEF getRun, PageSteps, TailSubscribes, TailReads, TailRelays, TailCloses, ConnectionBreaks
  <2> QED BY <2>1, SteadyTyped
<1>5. EndData' = EndData /\ EndChunk' = EndChunk /\ WriterAt(n)' /\ StoreAt(n)'
  <2>1. EndData' = EndData /\ EndChunk' = EndChunk
    BY <1>2 DEF EndData, EndChunk
  <2> QED BY <1>1, <1>2, <2>1 DEF WriterAt, StoreAt
<1>6. FeedAt(n)' /\ SameEnd
  BY <1>1, <1>2, <1>3, <1>5, FeedKeeps DEF SameEnd
<1>7. ASSUME NEW q \in Page PROVE PageAt(q, n)'
  <2>1. CASE q = p
    BY <2>1
  <2>2. CASE q # p
    BY <1>1, <1>2, <1>3, <1>4, <1>6, <2>2, PageKept
  <2> QED BY <2>1, <2>2
<1> QED BY <1>5, <1>6, <1>7 DEF Sound

\* The page is rendered with what is stored.
LEMMA RenderedSound ==
  ASSUME NEW n, Steady(n), NEW p \in Page, getRun(p)
  PROVE  Sound(n)'
<1>1. /\ StreamedInv /\ KeptInv /\ n \in Nat /\ WriterAt(n) /\ StoreAt(n)
      /\ page \in [Page -> [state : PageState, offset : Nat, from : Nat, shown : Seq(Int)]]
  BY SteadyTyped
<1>2. /\ page'[p].state \in {"complete", "opened"}
      /\ page'[p].offset = Len(Stored) /\ page'[p].shown = ToHTML(Stored)
      /\ UNCHANGED <<logs, feed>>
  BY <1>1 DEF getRun, store, streamVars
<1>3. ToHTML(Stored) = Count(n) /\ Len(Count(n)) = n
  <2>1. Stored \in Seq(Int)
    BY <1>1, StoredOutput
  <2>2. 0 \in Nat /\ 0 <= n /\ Off(0) = 0
    BY <1>1, OffProperties
  <2>3. ToHTML(getChunk(0).data) = Seg(0, n)
    BY <1>1, <2>2, ReadAt
  <2>4. getChunk(0).data = Stored
    <3>1. SubSeq(Stored, 1, Len(Stored)) = Stored
      BY <2>1, SubSeqFull
    <3>2. 0 + 1 = 1
      OBVIOUS
    <3>3. getChunk(0).data = SubSeq(Stored, 0 + 1, Len(Stored))
      BY DEF getChunk, Chunk
    <3> QED BY <3>1, <3>2, <3>3
  <2>5. Seg(0, n) = Count(n) /\ Len(Count(n)) = n
    <3>1. Seg(0, n) = Count(n)
      BY <1>1, <2>2, SegProperties
    <3>2. Len(Count(n)) = n
      BY <1>1 DEF Count
    <3> QED BY <3>1, <3>2
  <2> QED BY <2>3, <2>4, <2>5
<1>4. Len(Stored) = Off(n) \/ (logs # <<>> /\ Len(Stored) = Len(logs))
  BY <1>1, StoredOutput
<1>5. PageAt(p, n)'
  BY <1>1, <1>2, <1>3, <1>4 DEF PageAt
<1> QED BY <1>5, OnePage

\* A page connects, is told the end by a closed channel, or loses its connection.
LEMMA ConnectionSound ==
  ASSUME NEW n, Steady(n), NEW p \in Page,
         TailSubscribes(p) \/ TailCloses(p) \/ ConnectionBreaks(p)
  PROVE  Sound(n)'
<1>1. /\ n \in Nat /\ PageAt(p, n)
      /\ page[p] \in [state : PageState, offset : Nat, from : Nat, shown : Seq(Int)]
      /\ page \in [Page -> [state : PageState, offset : Nat, from : Nat, shown : Seq(Int)]]
  BY SteadyTyped
<1>2. PICK state \in {"subscribed", "cut", "opened"} :
        /\ page' = [page EXCEPT ![p].state = state]
        /\ state \in {"subscribed", "opened"} => page[p].state \in {"opened", "subscribed", "tailing"}
  BY DEF TailSubscribes, TailCloses, ConnectionBreaks
<1>3. /\ page'[p].state = state /\ page'[p].offset = page[p].offset
      /\ page'[p].shown = page[p].shown /\ logs' = logs
  BY <1>1, <1>2 DEF TailSubscribes, TailCloses, ConnectionBreaks, store
<1>4. PageAt(p, n)'
  BY <1>1, <1>2, <1>3 DEF PageAt
<1>5. getRun(p) \/ PageSteps(p) \/ ConnectionBreaks(p)
  BY DEF PageSteps
<1> QED BY <1>4, <1>5, OnePage

\* What the page reads of the store is what it does not show yet.
LEMMA TailReadsSound ==
  ASSUME NEW n, Steady(n), NEW p \in Page, TailReads(p)
  PROVE  Sound(n)'
<1> DEFINE m == Len(page[p].shown)
           chunk == getChunk(page[p].offset)
<1>1. /\ StreamedInv /\ KeptInv /\ n \in Nat /\ WriterAt(n) /\ StoreAt(n) /\ FeedAt(n) /\ PageAt(p, n)
      /\ page[p] \in [state : PageState, offset : Nat, from : Nat, shown : Seq(Int)]
      /\ page \in [Page -> [state : PageState, offset : Nat, from : Nat, shown : Seq(Int)]]
      /\ m \in Nat /\ page[p].offset \in Nat
  BY SteadyTyped
<1>2. /\ page[p].state = "subscribed" /\ UNCHANGED <<logs, feed, subs, writer>>
      /\ page' = [page EXCEPT ![p] = [Show(page[p], chunk.data, NextOffset(chunk)) EXCEPT
                                         !.state = "tailing", !.from = NextOffset(chunk)]]
  BY DEF TailReads, store, streamVars, writerVars
<1>3. /\ m <= n /\ page[p].shown = Count(m)
      /\ page[p].offset = Off(m) \/ (logs # <<>> /\ m = n /\ page[p].offset = Len(logs))
  BY <1>1, <1>2 DEF PageAt
<1>4. ToHTML(chunk.data) = Seg(m, n) /\ NextOffset(chunk) = Len(Stored) /\ Len(Stored) \in Nat
  BY <1>1, <1>3, ReadAt, StoredOutput, ZenonT(60)
<1>5. /\ Count(m) \o Seg(m, n) = Count(n) /\ (Seg(m, n) = <<>> <=> m = n)
  <2>1. PICK k \in Nat : k = m
    BY <1>1
  <2>2. k <= n /\ n \in Nat
    BY <1>1, <1>3, <2>1
  <2>3. Count(k) \o Seg(k, n) = Count(n) /\ (Seg(k, n) = <<>> <=> k = n)
    BY <2>2, SegProperties
  <2> QED BY <2>1, <2>3
<1> HIDE DEF chunk
<1>6. /\ page'[p].shown = Count(n) /\ page'[p].from = Len(Stored) /\ page'[p].state = "tailing"
      /\ page'[p].offset = IF m = n THEN page[p].offset ELSE Len(Stored)
  <2>1. CASE m = n
    <3>1. Show(page[p], chunk.data, NextOffset(chunk)) = page[p]
      BY <1>4, <1>5, <2>1 DEF Show
    <3>2. page' = [page EXCEPT ![p] = [page[p] EXCEPT !.state = "tailing", !.from = Len(Stored)]]
      BY <1>2, <1>4, <3>1
    <3> QED BY <1>1, <1>3, <2>1, <3>2
  <2>2. CASE m # n
    <3>1. Show(page[p], chunk.data, NextOffset(chunk))
            = [page[p] EXCEPT !.shown = Count(n), !.offset = Len(Stored)]
      BY <1>3, <1>4, <1>5, <2>2 DEF Show
    <3>2. page' = [page EXCEPT ![p] = [[page[p] EXCEPT !.shown = Count(n), !.offset = Len(Stored)]
                                         EXCEPT !.state = "tailing", !.from = Len(Stored)]]
      BY <1>2, <1>4, <3>1
    <3> QED BY <1>1, <2>2, <3>2
  <2> QED BY <2>1, <2>2
<1>7. Len(Count(n)) = n
  BY <1>1 DEF Count
<1>8. /\ logs = <<>> => Len(Stored) = Off(n)
      /\ logs # <<>> => Stored = logs /\ Off(n) < Len(Stored)
      /\ Off(n) \in Nat /\ (n # 0 => Off(n) = n + 1)
  <2>1. Off(n) \in Nat /\ (n # 0 => Off(n) = n + 1)
    BY <1>1, OffProperties
  <2>2. logs = <<>> => Len(Stored) = Off(n)
    BY <1>1, StoredOutput
  <2>3. logs # <<>> => Stored = logs /\ (Len(Stored) = Off(n) + 1 \/ Len(Stored) = Off(n) + 2)
    BY <1>1, StoredOutput
  <2> QED BY <2>1, <2>2, <2>3
<1>9. TailAt(p, n)'
  <2>1. Len(Stored) # 1 \/ n = 0
    BY <1>1, <1>4, <1>8
  <2>2. logs = <<>> => Len(Stored) <= Off(n)
    BY <1>4, <1>8
  <2>3. \A i \in 1..n : i <= n
    BY <1>1
  <2>4. ASSUME NEW i \in 1..n PROVE ~(Len(Stored) <= Off(i - 1))
    <3>1. PICK j \in Nat : j = i - 1
      OBVIOUS
    <3>2. j < n
      BY <1>1, <3>1
    <3>3. Off(j) \in Nat /\ Off(j) < Off(n)
      BY <1>1, <3>2, OffGrows
    <3>4. Off(n) <= Len(Stored)
      BY <1>4, <1>8
    <3> QED BY <1>4, <1>8, <3>1, <3>3, <3>4
  <2>5. PICK from : from = Len(Stored)
    OBVIOUS
  <2>6. /\ from # 1 \/ n = 0
        /\ logs = <<>> => from <= Off(n)
        /\ \A i \in 1..n : ~(from <= Off(i - 1))
    BY <2>1, <2>2, <2>4, <2>5
  <2>7. /\ page'[p].from = from /\ Len(page'[p].shown) = n
        /\ UNCHANGED <<logs, feed, subs>>
    BY <1>2, <1>6, <1>7, <2>5
  <2> QED BY <2>3, <2>6, <2>7 DEF TailAt
<1>10. PageAt(p, n)'
  <2>1. \/ page'[p].offset = Off(n)
        \/ logs # <<>> /\ page'[p].offset = Len(logs)
    BY <1>3, <1>6, <1>8
  <2>2. n <= n
    BY <1>1
  <2> QED BY <1>2, <1>6, <1>7, <1>9, <2>1, <2>2 DEF PageAt
<1> QED BY <1>10, OnePage DEF PageSteps

\* The first event in the buffer is the one that is due.
LEMMA HeadIsDue ==
  ASSUME NEW n, Steady(n), NEW p \in Page, subs[p].buffer # <<>>
  PROVE  /\ Head(subs[p].buffer) = subs[p].due
         /\ subs[p].due \in 1..Len(feed)
<1>1. OrderedStream(ChunkRow) /\ p \in Sub
  BY SteadyTyped DEF OrderedStream, StreamedInv, AllOrdered, Page
<1>2. /\ subs[p].buffer \in Seq(1..Len(feed)) /\ Len(subs[p].buffer) \in Nat
      /\ subs[p].due \in Nat /\ Ordered(subs[p])
  BY <1>1, OrderedTyped
<1>3. Len(subs[p].buffer) \in Nat \ {0}
  BY <1>2, EmptySeq
<1>4. subs[p].buffer[1] \in 1..Len(feed) /\ subs[p].buffer[1] = subs[p].due + 1 - 1
  <2>1. 1 \in 1..Len(subs[p].buffer)
    BY <1>3
  <2> QED BY <1>2, <2>1, ElementOfSeq DEF Ordered
<1>5. Head(subs[p].buffer) = subs[p].buffer[1]
  BY <1>2
<1>6. subs[p].due + 1 - 1 = subs[p].due
  BY <1>2
<1> QED BY <1>4, <1>5, <1>6

\* No data shows nothing, and does not end.
LEMMA NothingShown ==
  ASSUME NEW from
  PROVE  ToHTML(Chunk(from, <<>>).data) = <<>> /\ ~IsEnd(Chunk(from, <<>>).data)
BY DEF ToHTML, IsEnd, IsStart, Chunk

\* A chunk of output is relayed whole, or not at all.
LEMMA RelayedRow ==
  ASSUME NEW i \in Nat \ {0}, NEW from \in Nat, from # 1
  PROVE  /\ Off(i - 1) < from => Relayed(Row(i), from) = Chunk(from, <<>>)
         /\ from <= Off(i - 1) => Relayed(Row(i), from) = Row(i)
<1>1. /\ Row(i).mine /\ Row(i).offset = Off(i - 1) /\ NextOffset(Row(i)) = Off(i)
      /\ Off(i - 1) \in Nat /\ Off(i) \in Nat
  BY RowProperties
<1>2. Off(i) = i + 1 /\ (i = 1 => Off(i - 1) = 0) /\ (i # 1 => Off(i - 1) = i)
  BY DEF Off
<1>3. CASE Off(i - 1) < from
  <2>1. Off(i) <= from
    BY <1>1, <1>2, <1>3
  <2> QED BY <1>1, <1>3, <2>1 DEF Relayed
<1>4. CASE from <= Off(i - 1)
  <2>1. ~(Off(i - 1) < from)
    BY <1>1, <1>4
  <2> QED BY <1>1, <1>4, <2>1 DEF Relayed
<1> QED BY <1>1, <1>3, <1>4

\* The last chunk is taken for the end, unless the page has read past it.
LEMMA RelayedEnd ==
  ASSUME StreamedInv, NEW from \in Nat
  PROVE  \/ Relayed(EndChunk, from) = Chunk(from, <<>>) /\ writer.offset < from
         \/ /\ IsEnd(Relayed(EndChunk, from).data)
            /\ ToHTML(Relayed(EndChunk, from).data) = <<>>
<1>1. writer.offset \in Nat
  BY Types
<1>2. STX \in Int /\ ETX \in Int /\ STX # ETX
  BY DEF STX, ETX
<1>3. PICK end : end = EndData
  OBVIOUS
<1>4. /\ end \in Seq(Int)
      /\ \/ Len(end) = 1 /\ end[1] = ETX
         \/ Len(end) = 2 /\ end[1] = STX /\ end[2] = ETX
  <2>1. <<ETX>> \in Seq(Int) /\ Len(<<ETX>>) = 1 /\ <<ETX>>[1] = ETX
    BY <1>2
  <2>2. <<STX, ETX>> \in Seq(Int)
    BY <1>2, BytesTyped
  <2>3. Len(<<STX, ETX>>) = 2 /\ <<STX, ETX>>[1] = STX /\ <<STX, ETX>>[2] = ETX
    OBVIOUS
  <2>4. CASE end = <<ETX>>
    BY <2>1, <2>4
  <2>5. CASE end = <<STX, ETX>>
    BY <2>2, <2>3, <2>5
  <2> QED BY <1>3, <2>4, <2>5 DEF EndData
<1>5. /\ EndChunk.mine /\ EndChunk.offset = writer.offset /\ EndChunk.data = end
      /\ NextOffset(EndChunk) = writer.offset + Len(end)
  BY <1>3 DEF EndChunk, Chunk, NextOffset
\* Data of no bytes between the markers.
<1>6. ASSUME NEW data \in Seq(Int), NEW a \in 0..1, Len(data) = a + 1,
             a = 1 => data[1] = STX, data[Len(data)] = ETX
      PROVE  ToHTML(data) = <<>> /\ IsEnd(data)
  <2>1. PICK none \in Seq(Int) : none = <<>>
    <3>1. <<>> \in Seq(Int)
      BY EmptySeq
    <3> QED BY <3>1
  <2>2. PICK z \in 0..1 : z = 1
    OBVIOUS
  <2>3. Len(none) = 0
    BY <2>1, EmptySeq
  <2>4. Len(data) = a + Len(none) + z
    BY <2>2, <2>3, <1>6
  <2>5. a = 1 => data[1] = STX
    BY <1>6
  <2>6. z = 1 => data[Len(data)] = ETX
    BY <1>6
  <2>7. \A i \in 1..Len(none) : data[a + i] = none[i] /\ none[i] \notin {STX, ETX}
    BY <2>3
  <2>8. ToHTML(data) = none /\ (IsEnd(data) <=> z = 1)
    <3>1. data \in Seq(Int) /\ none \in Seq(Int) /\ a \in 0..1 /\ z \in 0..1
      BY <1>6
    <3> QED BY <3>1, <2>4, <2>5, <2>6, <2>7, ToHTMLShows, ZenonT(60)
  <2> QED BY <2>1, <2>2, <2>8
<1>7. ToHTML(end) = <<>> /\ IsEnd(end)
  <2>1. CASE Len(end) = 1
    <3>1. PICK a \in 0..1 : a = 0
      OBVIOUS
    <3>2. Len(end) = a + 1 /\ end[Len(end)] = ETX /\ a # 1
      BY <1>2, <1>4, <2>1, <3>1
    <3> QED BY <1>4, <1>6, <3>2
  <2>2. CASE Len(end) = 2
    <3>1. PICK a \in 0..1 : a = 1
      OBVIOUS
    <3>2. Len(end) = a + 1 /\ end[Len(end)] = ETX /\ end[1] = STX
      BY <1>4, <2>2, <3>1
    <3> QED BY <1>4, <1>6, <3>2
  <2> QED BY <1>4, <2>1, <2>2
<1>8. CASE from <= writer.offset
  <2>1. Relayed(EndChunk, from) = EndChunk
    BY <1>1, <1>5, <1>8 DEF Relayed
  <2> QED BY <1>5, <1>7, <2>1
<1>9. CASE writer.offset < from /\ writer.offset + Len(end) <= from
  <2>1. Relayed(EndChunk, from) = Chunk(from, <<>>)
    BY <1>1, <1>5, <1>9 DEF Relayed
  <2> QED BY <1>9, <2>1
<1>10. CASE writer.offset < from /\ ~(writer.offset + Len(end) <= from)
  <2>1. from = writer.offset + 1 /\ Len(end) = 2 /\ end[2] = ETX /\ from - writer.offset + 1 = 2
    <3>1. Len(end) # 1
      <4> SUFFICES ASSUME Len(end) = 1 PROVE FALSE
        OBVIOUS
      <4>1. PICK w \in Nat : w = writer.offset
        BY <1>1
      <4>2. w < from /\ ~(w + 1 <= from)
        BY <1>10, <4>1
      <4> QED BY <4>2
    <3>2. Len(end) = 2 /\ end[2] = ETX
      BY <1>4, <3>1
    <3>3. from = writer.offset + 1
      BY <1>1, <1>10, <3>2
    <3>4. from - writer.offset + 1 = 2
      BY <1>1, <3>3
    <3> QED BY <3>2, <3>3, <3>4
  <2>2. Relayed(EndChunk, from) = Cut(EndChunk, from)
    BY <1>1, <1>4, <1>5, <1>10 DEF Relayed
  <2>3. Cut(EndChunk, from).data = SubSeq(end, 2, 2)
    <3>1. ~(from > NextOffset(EndChunk))
      BY <1>1, <1>5, <2>1
    <3>2. Cut(EndChunk, from) = Chunk(from, SubSeq(end, from - writer.offset + 1, Len(end)))
      BY <1>5, <3>1 DEF Cut
    <3> QED BY <2>1, <3>2 DEF Chunk
  <2>4. /\ SubSeq(end, 2, 2) \in Seq(Int) /\ Len(SubSeq(end, 2, 2)) = 1
        /\ SubSeq(end, 2, 2)[1] = ETX
    <3>1. 2 \in Int /\ \A i \in 2..2 : end[i] \in Int
      BY <1>2, <2>1
    <3>2. /\ SubSeq(end, 2, 2) \in Seq(Int)
          /\ Len(SubSeq(end, 2, 2)) = IF 2 <= 2 THEN 2 - 2 + 1 ELSE 0
          /\ \A i \in 1..(2 - 2 + 1) : SubSeq(end, 2, 2)[i] = end[2 + i - 1]
      BY <3>1, SubSeqProperties
    <3>3. 1 \in 1..(2 - 2 + 1) /\ 2 + 1 - 1 = 2 /\ 2 - 2 + 1 = 1 /\ 2 <= 2
      OBVIOUS
    <3> QED BY <2>1, <3>2, <3>3
  <2>5. ToHTML(SubSeq(end, 2, 2)) = <<>> /\ IsEnd(SubSeq(end, 2, 2))
    <3>1. PICK a \in 0..1 : a = 0
      OBVIOUS
    <3>2. /\ Len(SubSeq(end, 2, 2)) = a + 1 /\ a # 1
          /\ SubSeq(end, 2, 2)[Len(SubSeq(end, 2, 2))] = ETX
      BY <1>2, <2>4, <3>1
    <3> QED BY <1>6, <2>4, <3>2
  <2> QED BY <2>2, <2>3, <2>5
<1> QED BY <1>1, <1>4, <1>8, <1>9, <1>10

\* A page that has taken an event still shows what came before the next.
LEMMA TailStep ==
  ASSUME NEW n, Steady(n), NEW p \in Page, TailAt(p, n), NEW m \in Nat,
         subs[p].due \in 1..Len(feed),
         UNCHANGED <<feed, logs>>, EndChunk' = EndChunk,
         page'[p].from = page[p].from, Len(page'[p].shown) = m, subs'[p].due = subs[p].due + 1,
         Len(page[p].shown) <= m,
         \A i \in 1..n : feed[subs[p].due] = Row(i) => i <= m,
         \A id \in 1..Len(feed), i \in 1..n :
           subs[p].due < id /\ feed[id] = Row(i) /\ i <= m /\ page[p].from <= Off(i - 1) =>
             \E end \in 1..(id - 1) : subs[p].due < end /\ feed[end] = EndChunk
  PROVE  TailAt(p, n)'
<1> DEFINE from == page[p].from
           due == subs[p].due
<1>1. /\ n \in Nat /\ Len(page[p].shown) \in Nat /\ Len(feed) \in Nat
      /\ due \in 1..Len(feed) /\ due \in Nat
  BY SteadyTyped
<1>2. /\ from # 1 \/ n = 0
      /\ logs = <<>> => from <= Off(n)
  BY DEF TailAt
<1>3. ASSUME NEW i \in 1..n, Off(i - 1) < from PROVE i <= m
  <2>1. i <= Len(page[p].shown)
    BY <1>3 DEF TailAt
  <2> QED BY <1>1, <2>1
<1>4. ASSUME NEW id \in 1..Len(feed), NEW i \in 1..n, id < due + 1, feed[id] = Row(i)
      PROVE  i <= m
  <2>1. CASE id = due
    BY <1>4, <2>1
  <2>2. CASE id < due
    <3>1. i <= Len(page[p].shown)
      BY <1>4, <2>2 DEF TailAt
    <3> QED BY <1>1, <3>1
  <2> QED BY <1>1, <1>4, <2>1, <2>2
<1>5. ASSUME NEW id \in 1..Len(feed), NEW i \in 1..n,
             due + 1 <= id, feed[id] = Row(i), i <= m, from <= Off(i - 1)
      PROVE  \E end \in 1..(id - 1) : due + 1 <= end /\ feed[end] = EndChunk
  <2>1. due < id
    BY <1>1, <1>5
  <2>2. PICK end \in 1..(id - 1) : due < end /\ feed[end] = EndChunk
    BY <1>5, <2>1
  <2>3. due + 1 <= end
    BY <1>1, <2>2
  <2> QED BY <2>2, <2>3
<1> QED BY <1>2, <1>3, <1>4, <1>5 DEF TailAt

\* The steps of a page that takes an event.
LEMMA Taken ==
  ASSUME NEW n, Steady(n), NEW p \in Page, TailRelays(p),
         NEW chunk, chunk = Relayed(feed[subs[p].due], page[p].from), ~IsEnd(chunk.data)
  PROVE  /\ page[p].state = "tailing" /\ page'[p].state = "tailing"
         /\ page'[p].from = page[p].from
         /\ page'[p].shown = page[p].shown \o ToHTML(chunk.data)
         /\ page'[p].offset = IF ToHTML(chunk.data) = <<>> THEN page[p].offset ELSE NextOffset(chunk)
         /\ subs'[p].due = subs[p].due + 1
<1>1. /\ page[p] \in [state : PageState, offset : Nat, from : Nat, shown : Seq(Int)]
      /\ page \in [Page -> [state : PageState, offset : Nat, from : Nat, shown : Seq(Int)]]
      /\ StreamedInv /\ AllOrdered /\ ~lapsed
  BY SteadyTyped
<1>2. chunk = Relayed(feed[Head(subs[p].buffer)], page[p].from) /\ page[p].state = "tailing"
  BY HeadIsDue DEF TailRelays
<1>3. /\ page' = [page EXCEPT ![p] = [Show(page[p], chunk.data, NextOffset(chunk)) EXCEPT
                                          !.state = "tailing"]]
      /\ Take(p) /\ UNCHANGED <<feed, rows, listener, notified, enabled, lapsed>>
  BY <1>2 DEF TailRelays
<1>4. subs'[p].due = subs[p].due + 1
  <2>1. OrderedStream(ChunkRow) /\ p \in Sub
    BY <1>1 DEF OrderedStream, StreamedInv, AllOrdered, Page
  <2> QED BY <1>3, <2>1, SubscriberOrdered
<1>5. CASE ToHTML(chunk.data) = <<>>
  <2>1. Show(page[p], chunk.data, NextOffset(chunk)) = page[p]
    BY <1>5 DEF Show
  <2>2. page[p].shown \o <<>> = page[p].shown
    BY <1>1, ConcatEmptySeq
  <2>3. page' = [page EXCEPT ![p] = [page[p] EXCEPT !.state = "tailing"]]
    BY <1>3, <2>1
  <2> QED BY <1>1, <1>2, <1>4, <1>5, <2>2, <2>3
<1>6. CASE ToHTML(chunk.data) # <<>>
  <2>1. PICK more, next : more = page[p].shown \o ToHTML(chunk.data) /\ next = NextOffset(chunk)
    OBVIOUS
  <2>2. Show(page[p], chunk.data, NextOffset(chunk)) = [page[p] EXCEPT !.shown = more, !.offset = next]
    BY <1>6, <2>1 DEF Show
  <2>3. page' = [page EXCEPT ![p] = [[page[p] EXCEPT !.shown = more, !.offset = next]
                                       EXCEPT !.state = "tailing"]]
    BY <1>3, <2>2
  <2> QED BY <1>1, <1>2, <1>4, <1>6, <2>1, <2>3
<1> QED BY <1>5, <1>6

\* An event that is not relayed.
LEMMA SkippedSound ==
  ASSUME NEW n, Steady(n), NEW p \in Page, TailRelays(p),
         Relayed(feed[subs[p].due], page[p].from) = Chunk(page[p].from, <<>>),
         \A i \in 1..n : feed[subs[p].due] = Row(i) => i <= Len(page[p].shown),
         feed[subs[p].due] = EndChunk => \A i \in 1..n : Off(i - 1) < page[p].from
  PROVE  PageAt(p, n)'
<1> DEFINE m == Len(page[p].shown)
           from == page[p].from
           due == subs[p].due
<1>1. /\ n \in Nat /\ PageAt(p, n) /\ m \in Nat /\ from \in Nat /\ Len(feed) \in Nat
      /\ page[p].shown \in Seq(Int)
  BY SteadyTyped
<1>2. due \in 1..Len(feed) /\ UNCHANGED <<feed, logs, writer>>
  BY HeadIsDue DEF TailRelays, store, writerVars
<1>3. EndChunk' = EndChunk
  BY <1>2 DEF EndChunk, EndData
<1>4. ToHTML(Chunk(from, <<>>).data) = <<>> /\ ~IsEnd(Chunk(from, <<>>).data)
  BY NothingShown
<1>5. /\ page[p].state = "tailing" /\ page'[p].state = "tailing" /\ page'[p].from = from
      /\ page'[p].shown = page[p].shown /\ page'[p].offset = page[p].offset
      /\ subs'[p].due = due + 1
  <2>1. page[p].shown \o <<>> = page[p].shown
    BY <1>1, ConcatEmptySeq
  <2>2. PICK chunk : chunk = Relayed(feed[due], from)
    OBVIOUS
  <2>3. ~IsEnd(chunk.data) /\ ToHTML(chunk.data) = <<>>
    BY <1>4, <2>2
  <2> QED BY <2>1, <2>2, <2>3, Taken
<1>6. TailAt(p, n) /\ m <= n
  BY <1>1, <1>5 DEF PageAt
<1>7. ASSUME NEW id \in 1..Len(feed), NEW i \in 1..n,
             due < id, feed[id] = Row(i), i <= m, from <= Off(i - 1)
      PROVE  \E end \in 1..(id - 1) : due < end /\ feed[end] = EndChunk
  <2>1. due <= id
    BY <1>2, <1>7
  <2>2. PICK end \in 1..(id - 1) : due <= end /\ feed[end] = EndChunk
    BY <1>6, <1>7, <2>1 DEF TailAt
  <2>3. end # due
    <3>1. i \in Nat \ {0}
      OBVIOUS
    <3>2. Off(i - 1) \in Nat
      BY <3>1, RowProperties
    <3>3. ~(Off(i - 1) < from)
      BY <1>1, <1>7, <3>2
    <3> QED BY <2>2, <3>3
  <2>4. due < end
    BY <1>2, <2>2, <2>3
  <2> QED BY <2>2, <2>4
<1>8. TailAt(p, n)'
  <2>1. m <= m /\ Len(page'[p].shown) = m
    BY <1>1, <1>5
  <2> QED BY <1>1, <1>2, <1>3, <1>5, <1>6, <1>7, <2>1, TailStep
<1> QED BY <1>1, <1>2, <1>5, <1>8 DEF PageAt

\* The chunk that is relayed is the one after those shown, and no other.
LEMMA NextSound ==
  ASSUME NEW n, Steady(n), NEW p \in Page, TailRelays(p), NEW i \in 1..n,
         feed[subs[p].due] = Row(i), page[p].from <= Off(i - 1), page[p].from # 1
  PROVE  PageAt(p, n)'
<1> DEFINE m == Len(page[p].shown)
           from == page[p].from
           due == subs[p].due
<1>1. /\ n \in Nat /\ PageAt(p, n) /\ FeedAt(n) /\ m \in Nat /\ from \in Nat /\ Len(feed) \in Nat
      /\ i \in Nat \ {0}
  BY SteadyTyped
<1>2. due \in 1..Len(feed) /\ UNCHANGED <<feed, logs, writer>>
  BY HeadIsDue DEF TailRelays, store, writerVars
<1>3. EndChunk' = EndChunk
  BY <1>2 DEF EndChunk, EndData
<1>4. Relayed(feed[due], from) = Row(i) /\ ~IsEnd(Row(i).data) /\ ToHTML(Row(i).data) = Seg(i - 1, i)
      /\ NextOffset(Row(i)) = Off(i)
  BY <1>1, RelayedRow, RowShown, RowProperties
<1>5. /\ page[p].state = "tailing" /\ page'[p].state = "tailing" /\ page'[p].from = from
      /\ page'[p].shown = page[p].shown \o Seg(i - 1, i)
      /\ page'[p].offset = IF Seg(i - 1, i) = <<>> THEN page[p].offset ELSE Off(i)
      /\ subs'[p].due = due + 1
  <2>1. PICK chunk : chunk = Relayed(feed[due], from)
    OBVIOUS
  <2>2. ~IsEnd(chunk.data) /\ ToHTML(chunk.data) = Seg(i - 1, i) /\ NextOffset(chunk) = Off(i)
    BY <1>4, <2>1
  <2> QED BY <2>1, <2>2, Taken
<1>6. TailAt(p, n) /\ m <= n /\ page[p].shown = Count(m)
  BY <1>1, <1>5 DEF PageAt
\* It is not one of those shown, for there is no end between it and itself.
<1>7. i = m + 1
  <2>1. ~(i <= m)
    <3>1. ASSUME i <= m PROVE FALSE
      <4>1. PICK end \in 1..(due - 1) : due <= end
        BY <1>2, <1>6, <3>1 DEF TailAt
      <4> QED BY <1>2, <4>1
    <3> QED BY <3>1
\* And the one before it has come before it.
  <2>2. i <= m + 1
    <3>1. CASE i = 1
      BY <1>1, <3>1
    <3>2. CASE i # 1
      <4>1. i \in 2..n /\ i - 1 \in 1..n
        BY <1>1, <3>2
      <4>2. PICK before \in 1..(due - 1) : feed[before] = Row(i - 1)
        BY <1>1, <1>2, <4>1 DEF FeedAt
      <4>3. before \in 1..Len(feed) /\ before < due
        BY <1>2
      <4>4. i - 1 <= m
        BY <1>6, <4>1, <4>2, <4>3 DEF TailAt
      <4> QED BY <1>1, <4>4
    <3> QED BY <3>1, <3>2
  <2> QED BY <1>1, <2>1, <2>2
<1>8. PICK k \in Nat : k = m /\ i = k + 1 /\ i - 1 = k
  BY <1>1, <1>7
<1>9. page'[p].shown = Count(i) /\ page'[p].offset = Off(i) /\ Len(page'[p].shown) = i
  <2>1. k <= i /\ i \in Nat /\ k # i
    BY <1>8
  <2>2. Count(k) \o Seg(k, i) = Count(i) /\ Seg(k, i) # <<>>
    BY <2>1, SegProperties
  <2>3. Len(Count(i)) = i
    BY <2>1 DEF Count
  <2> QED BY <1>5, <1>6, <1>8, <2>2, <2>3
<1>10. \A j \in 1..n : feed[due] = Row(j) => j <= i
  <2>1. ASSUME NEW j \in 1..n, feed[due] = Row(j) PROVE j <= i
    <3>1. j \in Nat \ {0}
      OBVIOUS
    <3>2. j = i
      BY <1>1, <2>1, <3>1, RowsDiffer
    <3> QED BY <1>1, <3>2
  <2> QED BY <2>1
<1>11. ASSUME NEW id \in 1..Len(feed), NEW j \in 1..n,
              due < id, feed[id] = Row(j), j <= i, from <= Off(j - 1)
       PROVE  \E end \in 1..(id - 1) : due < end /\ feed[end] = EndChunk
  <2>1. CASE j = i
    <3>1. PICK between \in (due + 1)..(id - 1) : feed[between] = EndChunk
      BY <1>1, <1>2, <1>11, <2>1 DEF FeedAt
    <3>2. between \in 1..(id - 1) /\ due < between
      BY <1>2
    <3> QED BY <3>1, <3>2
  <2>2. CASE j # i
    <3>1. j <= m /\ due <= id
      BY <1>1, <1>2, <1>7, <1>11, <2>2
    <3>2. PICK end \in 1..(id - 1) : due <= end /\ feed[end] = EndChunk
      BY <1>6, <1>11, <3>1 DEF TailAt
    <3>3. end # due
      BY <1>1, <3>2, RowsDiffer
    <3>4. due < end
      BY <1>2, <3>2, <3>3
    <3> QED BY <3>2, <3>4
  <2> QED BY <2>1, <2>2
<1>12. TailAt(p, n)'
  <2>1. m <= i /\ i \in Nat
    BY <1>1, <1>7
  <2> QED BY <1>2, <1>3, <1>5, <1>6, <1>9, <1>10, <1>11, <2>1, TailStep
<1>13. i <= n
  BY <1>1
<1> QED BY <1>2, <1>5, <1>9, <1>12, <1>13 DEF PageAt

\* The page takes the next event.
LEMMA TailRelaysSound ==
  ASSUME NEW n, Steady(n), NEW p \in Page, TailRelays(p)
  PROVE  Sound(n)'
<1> DEFINE m == Len(page[p].shown)
           from == page[p].from
           due == subs[p].due
<1>1. /\ StreamedInv /\ KeptInv /\ n \in Nat /\ WriterAt(n) /\ PageAt(p, n) /\ FeedAt(n)
      /\ m \in Nat /\ from \in Nat /\ Len(feed) \in Nat /\ feed \in Seq(ChunkRow)
      /\ page[p] \in [state : PageState, offset : Nat, from : Nat, shown : Seq(Int)]
      /\ page \in [Page -> [state : PageState, offset : Nat, from : Nat, shown : Seq(Int)]]
  BY SteadyTyped
<1>2. /\ due \in 1..Len(feed) /\ feed[Head(subs[p].buffer)] = feed[due]
      /\ UNCHANGED <<logs, feed, writer>> /\ page[p].state = "tailing"
  BY HeadIsDue DEF TailRelays, store, writerVars
<1>3. TailAt(p, n)
  BY <1>1, <1>2 DEF PageAt
<1>4. CASE ~feed[due].mine
  <2>1. Relayed(feed[due], from) = Chunk(from, <<>>)
    BY <1>4 DEF Relayed
  <2>2. EndChunk.mine /\ feed[due] # EndChunk
    BY <1>4 DEF EndChunk, Chunk
  <2>3. ASSUME NEW i \in 1..n PROVE feed[due] # Row(i)
    <3>1. i \in Nat \ {0}
      OBVIOUS
    <3> QED BY <1>4, <3>1, RowProperties
  <2>4. PageAt(p, n)'
    BY <2>1, <2>2, <2>3, SkippedSound
  <2> QED BY <2>4, OnePage DEF PageSteps
<1>5. ASSUME NEW i \in 1..n, feed[due] = Row(i) PROVE Sound(n)'
  <2>1. i \in Nat \ {0} /\ from # 1
    BY <1>1, <1>3 DEF TailAt
  <2>2. Off(i - 1) \in Nat
    BY <2>1, RowProperties
  <2>3. CASE Off(i - 1) < from
    <3>1. Relayed(feed[due], from) = Chunk(from, <<>>)
      BY <1>1, <1>5, <2>1, <2>3, RelayedRow
    <3>2. i <= m
      BY <1>3, <2>3 DEF TailAt
    <3>3. \A j \in 1..n : feed[due] = Row(j) => j <= m
      <4>1. ASSUME NEW j \in 1..n, feed[due] = Row(j) PROVE j <= m
        <5>1. j \in Nat \ {0}
          OBVIOUS
        <5>2. j = i
          BY <1>5, <2>1, <4>1, <5>1, RowsDiffer
        <5> QED BY <3>2, <5>2
      <4> QED BY <4>1
    <3>4. feed[due] # EndChunk
      BY <1>5, <2>1, RowsDiffer
    <3>5. PageAt(p, n)'
      BY <3>1, <3>3, <3>4, SkippedSound
    <3> QED BY <3>5, OnePage DEF PageSteps
  <2>4. CASE from <= Off(i - 1)
    <3>1. PageAt(p, n)'
      BY <1>5, <2>1, <2>4, NextSound
    <3> QED BY <3>1, OnePage DEF PageSteps
  <2> QED BY <1>1, <2>2, <2>3, <2>4
<1>6. CASE logs # <<>> /\ feed[due] = EndChunk
  <2>1. CASE Relayed(EndChunk, from) = Chunk(from, <<>>) /\ writer.offset < from
    <3>1. ASSUME NEW i \in 1..n PROVE Off(i - 1) < from
      <4>1. PICK j \in Nat : j = i - 1
        OBVIOUS
      <4>2. j < n /\ n < n + 1 /\ n + 1 \in Nat
        BY <1>1, <4>1
      <4>3. Off(j) \in Nat /\ Off(n) \in Nat /\ Off(n + 1) \in Nat
            /\ Off(j) < Off(n) /\ Off(n) < Off(n + 1)
        BY <1>1, <4>2, OffGrows
      <4>4. writer.offset = Off(n) \/ writer.offset = Off(n + 1)
        BY <1>1, <1>6, ClosedQuiet DEF WriterAt
      <4> QED BY <1>1, <2>1, <4>1, <4>3, <4>4
    <3>2. \A i \in 1..n : feed[due] # Row(i)
      <4>1. ASSUME NEW i \in 1..n PROVE feed[due] # Row(i)
        <5>1. i \in Nat \ {0}
          OBVIOUS
        <5> QED BY <1>6, <5>1, RowsDiffer
      <4> QED BY <4>1
    <3>3. PageAt(p, n)'
      BY <1>6, <2>1, <3>1, <3>2, SkippedSound
    <3> QED BY <3>3, OnePage DEF PageSteps
  <2>2. CASE IsEnd(Relayed(EndChunk, from).data) /\ ToHTML(Relayed(EndChunk, from).data) = <<>>
    <3>1. PICK chunk : chunk = Relayed(feed[due], from)
      OBVIOUS
    <3>2. IsEnd(chunk.data) /\ ToHTML(chunk.data) = <<>>
      BY <1>6, <2>2, <3>1
    <3>3. page' = [page EXCEPT ![p] = [Show(page[p], chunk.data, NextOffset(chunk)) EXCEPT
                                          !.state = "finished"]]
      BY <1>2, <3>1, <3>2 DEF TailRelays
    <3>4. Show(page[p], chunk.data, NextOffset(chunk)) = page[p]
      BY <3>2 DEF Show
    <3>5. page'[p].state = "finished" /\ page'[p].shown = page[p].shown
      BY <1>1, <3>3, <3>4
    <3>6. PageAt(p, n)'
      BY <1>1, <3>5 DEF PageAt
    <3> QED BY <3>6, OnePage DEF PageSteps
  <2> QED BY <1>1, <2>1, <2>2, RelayedEnd
<1>7. \/ ~feed[due].mine
      \/ \E i \in 1..n : feed[due] = Row(i)
      \/ logs # <<>> /\ feed[due] = EndChunk
  BY <1>1, <1>2 DEF FeedAt
<1> QED BY <1>4, <1>5, <1>6, <1>7

\* Every step keeps the output where it belongs, as long as nothing disturbs it.
LEMMA SoundNext ==
  ASSUME NEW n \in 0..MaxBytes, Steady(n), [Next]_vars, Faithful'
  PROVE  \E k \in 0..MaxBytes : Sound(k)'
<1>1. /\ ~lapsed' /\ "race" \notin faults' /\ "repeat" \notin faults' /\ "delete" \notin faults'
  BY DEF Faithful
<1>2. CASE UNCHANGED vars
  <2>1. /\ UNCHANGED <<writer, produced, writing, chunks, logs, deleted, page>>
        /\ UNCHANGED <<feed, subs>>
    BY <1>2 DEF vars, store, streamVars
  <2>2. UNCHANGED EndChunk
    BY <2>1 DEF EndChunk, EndData
  <2>3. WriterAt(n)' /\ StoreAt(n)' /\ FeedAt(n)'
    <3>1. WriterAt(n) /\ StoreAt(n) /\ FeedAt(n)
      BY SteadyTyped
    <3>2. WriterAt(n)'
      BY <2>1, <3>1 DEF WriterAt
    <3>3. StoreAt(n)'
      BY <2>1, <3>1 DEF StoreAt, EndData
    <3>4. FeedAt(n)'
      BY <2>1, <2>2, <3>1 DEF FeedAt
    <3> QED BY <3>2, <3>3, <3>4
  <2>4. ASSUME NEW p \in Page PROVE PageAt(p, n)'
    <3>1. PageAt(p, n)
      BY SteadyTyped
    <3> QED BY <2>1, <2>2, <3>1 DEF PageAt, TailAt
  <2> QED BY <2>3, <2>4 DEF Sound
<1>3. ASSUME NEW g \in Stream, WriterSteps(g) \/ WriteRetries(g) \/ WriteFails(g)
      PROVE  \E k \in 0..MaxBytes : Sound(k)'
  <2>1. CASE WriteReads(g) \/ WriteSets(g) \/ WriteFails(g)
    BY <1>1, <2>1, WriteSound
  <2>2. CASE WritePuts(g)
    BY <2>2, PutSound
  <2>3. ~WriteRetries(g)
    BY <1>1 DEF WriteRetries, HappensOnce, Happens
  <2> QED BY <1>3, <2>1, <2>2, <2>3 DEF WriterSteps
<1>4. CASE CloseWriter
  BY <1>4, CloseSound
<1>5. CASE CloseFails \/ PutOther
  BY <1>5, OthersSound
<1>6. ~DeleteRun
  BY <1>1 DEF DeleteRun, HappensOnce, Happens
<1>7. ASSUME NEW p \in Page, getRun(p) \/ PageSteps(p) \/ ConnectionBreaks(p)
      PROVE  Sound(n)'
  <2>1. CASE getRun(p)
    BY <2>1, RenderedSound
  <2>2. CASE TailSubscribes(p) \/ TailCloses(p) \/ ConnectionBreaks(p)
    BY <2>2, ConnectionSound
  <2>3. CASE TailReads(p)
    BY <2>3, TailReadsSound
  <2>4. CASE TailRelays(p)
    BY <2>4, TailRelaysSound
  <2> QED BY <1>7, <2>1, <2>2, <2>3, <2>4 DEF PageSteps
<1>8. CASE ListenerSteps \/ ListenerFaults
  BY <1>1, <1>8, ListenerSound
<1> QED BY <1>2, <1>3, <1>4, <1>5, <1>6, <1>7, <1>8 DEF Next

-----------------------------------------------------------------------------
(* The theorem *)

\* What holds in every state: what is in the store, and, until something
\* disturbs it, that all of the output is where it belongs.
LogsInv ==
  /\ StreamedInv /\ KeptInv /\ PagesTyped
  /\ "race" \notin faults => InOrder
  /\ ~lapsed => AllOrdered
  /\ Faithful => \E n \in 0..MaxBytes : Sound(n)

\* At first there is no output.
LEMMA LogsInvInit == Init => LogsInv
<1> SUFFICES ASSUME Init PROVE LogsInv
  OBVIOUS
<1>1. StreamedInv
  BY LogsInitInv
<1>2. /\ chunks = <<>> /\ logs = <<>> /\ feed = <<>> /\ faults = {} /\ ~deleted /\ acked = {}
      /\ Len(chunks) = 0 /\ Len(logs) = 0 /\ Len(feed) = 0 /\ produced = 0
      /\ MaxBytes \in Nat
  BY LogsAssumption, EmptySeq DEF Init, StreamInit
<1>3. \A g \in Stream : writing[g] = Quiet /\ Quiet.data = <<>> /\ Quiet.pc = "idle"
  BY DEF Init, Quiet
<1>4. writer = [started |-> FALSE, offset |-> 0, state |-> "open"]
  BY DEF Init
<1>5. <<>> \in Seq(Int) /\ Range(<<>>) = {}
  <2>1. <<>> \in Seq(Int) /\ Len(<<>>) = 0
    BY EmptySeq
  <2>2. DOMAIN <<>> = {}
    BY <2>1
  <2> QED BY <2>1, <2>2 DEF Range
<1>6. KeptInv
  <2>1. StoreTyped
    <3>1. \A i \in 1..Len(chunks) :
            chunks[i].mine /\ chunks[i].data # <<>> /\ ETX \notin Range(chunks[i].data)
      BY <1>2
    <3>2. logs \in Seq(Int) /\ deleted \in BOOLEAN
      BY <1>2, <1>5 DEF Init
    <3> QED BY <3>1, <3>2 DEF StoreTyped
  <2>2. OutputKept
    BY <1>2 DEF OutputKept
  <2>3. \A g \in Stream :
          /\ \A b \in Range(writing[g].data) : b = STX \/ b \in 1..produced
          /\ writing[g].pc \in {"read", "put"} => writing[g].data # <<>>
          /\ writer.state # "open" => writing[g].pc \in {"idle", "ended"}
    BY <1>3, <1>5
  <2> QED BY <1>2, <2>1, <2>2, <2>3 DEF KeptInv
<1>7. \A p \in Page : page[p] = [state |-> "unopened", offset |-> 0, from |-> 0, shown |-> <<>>]
  BY DEF Init
<1>8. PagesTyped
  BY <1>2, <1>5 DEF Init, PagesTyped, PageState
<1>9. InOrder
  BY <1>2, <1>3 DEF InOrder, Stream
<1>10. AllOrdered
  <2>1. ASSUME NEW s \in Sub PROVE Ordered(subs[s])
    <3>1. subs[s] = NoSub /\ NoSub.buffer = <<>> /\ NoSub.due = 0 /\ ~NoSub.open
          /\ Len(NoSub.buffer) = 0 /\ notified = <<>> /\ Len(notified) = 0
      BY EmptySeq DEF Init, StreamInit, NoSub
    <3> QED BY <1>2, <3>1 DEF Ordered
  <2> QED BY <2>1 DEF AllOrdered
<1>11. Sound(0)
  <2>1. WriterAt(0)
    BY <1>2, <1>3, <1>4 DEF WriterAt, Off, Stream
  <2>2. StoreAt(0)
    <3>1. Rows(0) = <<>>
      BY DEF Rows
    <3> QED BY <1>2, <3>1 DEF StoreAt
  <2>3. FeedAt(0)
    BY <1>2 DEF FeedAt
  <2>4. ASSUME NEW p \in Page PROVE PageAt(p, 0)
    <3>1. Len(page[p].shown) = 0 /\ page[p].shown = <<>> /\ page[p].state = "unopened"
      BY <1>7, EmptySeq
    <3>2. Count(0) = <<>>
      BY DEF Count
    <3> QED BY <3>1, <3>2 DEF PageAt
  <2> QED BY <2>1, <2>2, <2>3, <2>4 DEF Sound
<1> QED BY <1>1, <1>2, <1>6, <1>8, <1>9, <1>10, <1>11 DEF LogsInv

\* Every step keeps it.
LEMMA LogsInvNext == LogsInv /\ [Next]_vars => LogsInv'
<1> SUFFICES ASSUME LogsInv, [Next]_vars PROVE LogsInv'
  OBVIOUS
<1>1. /\ StreamedInv /\ KeptInv /\ PagesTyped
      /\ "race" \notin faults => InOrder
      /\ ~lapsed => AllOrdered
      /\ Faithful => \E n \in 0..MaxBytes : Sound(n)
  BY DEF LogsInv
<1>2. StreamedInv' /\ KeptInv' /\ PagesTyped'
  BY <1>1, LogsNextInv, KeptNext, PagesTypedNext
<1>3. "race" \notin faults' => InOrder'
  BY <1>1, InOrderNext
<1>4. ~lapsed' => ~lapsed /\ AllOrdered'
  BY <1>1, OrderedNext
<1>5. ASSUME Faithful' PROVE \E n \in 0..MaxBytes : Sound(n)'
  <2>1. Faithful
    BY <1>4, <1>5, FaultsGrow DEF Faithful
  <2>2. PICK n \in 0..MaxBytes : Sound(n)
    BY <1>1, <2>1
  <2>3. n \in Nat
    OBVIOUS
  <2>4. Steady(n)
    BY <1>1, <2>1, <2>2, <2>3 DEF Steady, Faithful
  <2> QED BY <1>5, <2>4, SoundNext
<1> QED BY <1>2, <1>3, <1>4, <1>5 DEF LogsInv

\* What is stored and what the pages show, in every state.
THEOREM LogsInvariant == Spec => []LogsInv
BY LogsInvInit, LogsInvNext, PTL DEF Spec

\* No byte whose write has returned is lost, the end of the logs comes last, and
\* what a page shows is a beginning of what is stored, without a hole or a
\* repetition (the last two where the faults allow it, see EndIsLast and Faithful);
\* for any number of pages, any size of their buffers, any output.
THEOREM OutputIsKeptAndShown == Spec => []LogsAreKept
<1>1. ASSUME LogsInv PROVE LogsAreKept
  <2>1. StreamedInv /\ KeptInv /\ PagesTyped
    BY <1>1 DEF LogsInv
  <2>2. TypeOK
    <3>1. /\ StreamTypeOK /\ chunks \in Seq(ChunkRow)
          /\ writer \in [started : BOOLEAN, offset : Nat, state : {"open", "closed", "failed"}]
      BY <2>1, Types DEF StreamedInv, StreamInv
    <3>2. \A g \in Stream : writing[g].pc \in {"idle", "read", "put", "ended"}
      BY <2>1 DEF StreamedInv, ChunksTyped
    <3>3. produced \in 0..MaxBytes /\ acked \subseteq 1..MaxBytes /\ deleted \in BOOLEAN
      <4>1. produced \in 0..MaxBytes /\ acked \subseteq 1..produced /\ deleted \in BOOLEAN
        BY <2>1 DEF KeptInv, StoreTyped
      <4> QED BY <4>1, LogsAssumption
    <3>4. \A i \in DOMAIN chunks : chunks[i].mine /\ chunks[i].data # <<>>
      <4>1. DOMAIN chunks = 1..Len(chunks)
        BY <3>1, LenProperties
      <4> QED BY <2>1, <4>1 DEF KeptInv, StoreTyped
    <3>5. /\ faults \subseteq Fault
          /\ \A p \in Page : page[p].state \in PageState
      BY <2>1 DEF PagesTyped
    <3> QED BY <3>1, <3>2, <3>3, <3>4, <3>5 DEF TypeOK, PageState
  <2>3. OutputKept
    BY <2>1 DEF KeptInv
  <2>4. EndIsLast
    BY <1>1, <2>1, InOrderEnds DEF LogsInv, EndIsLast
  <2>5. ASSUME Faithful, NEW p \in Page PROVE IsPrefix(page[p].shown, Bytes(Stored))
    <3>1. PICK n \in 0..MaxBytes : Sound(n)
      BY <1>1, <2>5 DEF LogsInv
    <3>2. n \in Nat /\ WriterAt(n) /\ StoreAt(n) /\ PageAt(p, n)
      BY <3>1 DEF Sound
    <3>3. page[p].shown \in Seq(Int)
      BY <2>1 DEF PagesTyped
    <3> QED BY <2>1, <3>2, <3>3, SoundShows
  <2> QED BY <2>2, <2>3, <2>4, <2>5 DEF LogsAreKept, PagesShowTheLogs
<1> QED BY <1>1, LogsInvariant, PTL
=============================================================================
