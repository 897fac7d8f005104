---------------------------- MODULE ChangelogProofs ----------------------------
(***************************************************************************)
(* The changelog implements the write-ahead log of Wal, for any sizes and  *)
(* any faults, and its segments' names tell their ranges.  Both hold while *)
(* sound does; the induction is over the segments' shape (Segments), what  *)
(* the buffer has to do with the end of the log (Buffering), and where the *)
(* acknowledged records are (Durable).                                     *)
(***************************************************************************)
EXTENDS Changelog, SequenceTheorems, FiniteSetTheorems, WellFoundedInduction, TLAPS

Sealed(f) == \A j \in DOMAIN f : f[j].lack = 0

From(k, f) == \A j \in DOMAIN f : f[j].index = k + j - 1

(* A directory of segments of which a is the last. *)
Segments(fs, a) ==
  /\ \A k \in DOMAIN fs :
       /\ k \in 1..(MaxIndex + 1) /\ fs[k] \in Seq(Cell) /\ k <= a
       /\ InStep(fs[k]) /\ From(k, fs[k]) /\ (k # a => Sealed(fs[k]))
  /\ \A k, l \in DOMAIN fs : k < l => k + Len(fs[k]) <= l
  /\ \A k \in DOMAIN fs : k = 1 \/ \E j \in DOMAIN fs : j < k /\ j + Len(fs[j]) = k
  /\ DOMAIN fs # {} => a \in DOMAIN fs

Gets(fs) ==
  IF \E k \in DOMAIN fs : Corrupt(fs[k]) THEN {} ELSE UNION {Readable(fs[k]) : k \in DOMAIN fs}

(* Record i is read from file f, whose name is k. *)
Reads(f, k, i) == i \in k..(k + Len(f) - 1) /\ f[i - k + 1].lack = 0

(* What a crash leaves of w: f agrees with it on the first n cells, and    *)
(* its last cell may be a piece.                                           *)
LeftOf(f, w, n) ==
  /\ f \in Seq(Cell) /\ n <= Len(f) /\ Len(f) <= Len(w)
  /\ \A i \in 1..Len(f) : f[i].index = w[i].index /\ (f[i] # w[i] => i = Len(f) /\ i > n /\ f[i].lack > 0)

-----------------------------------------------------------------------------
(* Files. *)
LEMMA Typed == /\ MaxIndex \in Nat /\ MaxLack \in Nat /\ MaxSegment \in Nat
               /\ \A x \in Cell : x.index \in 1..MaxIndex /\ x.lack \in Nat
BY LogAssumption DEF Cell, Index

LEMMA Buffered ==
  ASSUME NEW f \in Seq(Cell), NEW b \in Seq(Index)
  PROVE  LET w == f \o Whole(b)
         IN  /\ w \in Seq(Cell) /\ Len(w) = Len(f) + Len(b)
             /\ \A i \in 1..Len(f) : w[i] = f[i]
             /\ \A i \in 1..Len(b) : w[Len(f) + i] = [index |-> b[i], lack |-> 0]
<1>1. Whole(b) \in Seq(Cell) /\ Len(Whole(b)) = Len(b)
      /\ \A i \in 1..Len(b) : Whole(b)[i] = [index |-> b[i], lack |-> 0]
  <2>1. Len(b) \in Nat /\ DOMAIN b = 1..Len(b) /\ \A i \in 1..Len(b) : b[i] \in Index
    OBVIOUS
  <2>2. \A i \in 1..Len(b) : [index |-> b[i], lack |-> 0] \in Cell
    BY <2>1, LogAssumption DEF Cell
  <2>3. Whole(b) = [i \in 1..Len(b) |-> [index |-> b[i], lack |-> 0]]
    BY <2>1 DEF Whole
  <2>4. Whole(b) \in [1..Len(b) -> Cell]
    BY <2>2, <2>3
  <2>5. Whole(b) \in Seq(Cell) /\ Len(Whole(b)) = Len(b)
    BY <2>1, <2>4
  <2> QED
    BY <2>3, <2>5
<1>2. \A g \in Seq(Cell) : /\ f \o g \in Seq(Cell) /\ Len(f \o g) = Len(f) + Len(g)
                           /\ \A i \in 1..Len(f) : (f \o g)[i] = f[i]
                           /\ \A i \in 1..Len(g) : (f \o g)[Len(f) + i] = g[i]
  OBVIOUS
<1> QED
  BY <1>1, <1>2

LEMMA RemnantsAreLeft ==
  ASSUME NEW w \in Seq(Cell), NEW n \in 0..Len(w), NEW f \in Remnants(w, n)
  PROVE  LeftOf(f, w, n)
<1>1. ASSUME NEW k \in n..Len(w), f = SubSeq(w, 1, k) PROVE LeftOf(f, w, n)
  <2>1. k \in Nat /\ k <= Len(w) /\ n <= k
    OBVIOUS
  <2>2. f \in Seq(Cell) /\ Len(f) = k /\ \A i \in 1..k : f[i] = w[i]
    BY <1>1, <2>1
  <2> QED
    BY <2>1, <2>2 DEF LeftOf
<1>2. ASSUME NEW k \in n..(Len(w) - 1), NEW l \in Lack,
             f = Append(SubSeq(w, 1, k), Piece(w[k + 1], l))
      PROVE  LeftOf(f, w, n)
  <2>1. k \in Nat /\ k + 1 <= Len(w) /\ n <= k
    OBVIOUS
  <2>2. w[k + 1] \in Cell /\ l \in 1..MaxLack
    BY <2>1 DEF Lack
  <2>3. PICK x \in Cell : x = Piece(w[k + 1], l)
    <3>1. w[k + 1].index \in Index /\ l \in 0..MaxLack
      BY <2>2, LogAssumption DEF Cell
    <3>2. Piece(w[k + 1], l) \in Cell
      BY <3>1 DEF Cell, Piece
    <3> QED
      BY <3>2
  <2>4. x.lack > 0 /\ x.index = w[k + 1].index
    BY <2>2, <2>3, LogAssumption DEF Piece
  <2>5. PICK g : g = SubSeq(w, 1, k)
    OBVIOUS
  <2>6. g \in Seq(Cell) /\ Len(g) = k /\ (\A i \in 1..k : g[i] = w[i]) /\ f = Append(g, x)
    BY <1>2, <2>1, <2>3, <2>5
  <2>7. f \in Seq(Cell) /\ Len(f) = k + 1 /\ (\A i \in 1..k : f[i] = g[i]) /\ f[k + 1] = x
    BY <2>1, <2>6
  <2> QED
    BY <2>1, <2>4, <2>6, <2>7 DEF LeftOf
<1> QED
  BY <1>1, <1>2 DEF Remnants

LEMMA NothingCut == ASSUME NEW w \in Seq(Cell) PROVE LeftOf(w, w, Len(w))
BY DEF LeftOf

(* A file in step is read up to a last cell that is a piece. *)
LEMMA ReadInStep ==
  ASSUME NEW f \in Seq(Cell), NEW k \in Nat, InStep(f), From(k, f)
  PROVE  /\ ReadTo(f) = {j \in DOMAIN f : f[j].lack = 0}
         /\ ~Corrupt(f)
         /\ Readable(f) = {i \in Nat : Reads(f, k, i)}
<1>1. \A i, j \in DOMAIN f : i < j => f[i].lack = 0
  BY DEF InStep
<1>2. \A j \in DOMAIN f : j \in 1..Len(f) /\ f[j] \in Cell /\ f[j].lack \in Nat
  BY Typed
<1>3. ReadTo(f) = {j \in DOMAIN f : f[j].lack = 0}
  BY <1>1, <1>2 DEF ReadTo
<1>4. ~Corrupt(f)
  BY <1>1, <1>2 DEF Corrupt
<1>5. Readable(f) = {i \in Nat : Reads(f, k, i)}
  <2>1. ASSUME NEW i \in Readable(f) PROVE i \in Nat /\ Reads(f, k, i)
    <3>1. PICK j \in DOMAIN f : f[j].lack = 0 /\ i = f[j].index
      BY <1>3, <2>1 DEF Readable
    <3>2. i = k + j - 1 /\ j \in 1..Len(f)
      BY <3>1 DEF From
    <3> QED
      BY <3>1, <3>2 DEF Reads
  <2>2. ASSUME NEW i \in Nat, Reads(f, k, i) PROVE i \in Readable(f)
    <3>1. i - k + 1 \in 1..Len(f) /\ f[i - k + 1].lack = 0
      BY <2>2 DEF Reads
    <3>2. i - k + 1 \in ReadTo(f)
      BY <1>3, <3>1
    <3>3. f[i - k + 1].index = i
      BY <3>1 DEF From
    <3> QED
      BY <3>2, <3>3 DEF Readable
  <2> QED
    BY <2>1, <2>2
<1> QED
  BY <1>3, <1>4, <1>5

-----------------------------------------------------------------------------
(* Directories. *)
LEMMA GetsIs ==
  ASSUME NEW fs, NEW a, Segments(fs, a)
  PROVE  /\ \A k \in DOMAIN fs : ~Corrupt(fs[k])
         /\ Gets(fs) = UNION {Readable(fs[k]) : k \in DOMAIN fs}
         /\ Gets(fs) = {i \in Nat : \E k \in DOMAIN fs : Reads(fs[k], k, i)}
<1>1. \A k \in DOMAIN fs : ~Corrupt(fs[k]) /\ Readable(fs[k]) = {i \in Nat : Reads(fs[k], k, i)}
  BY ReadInStep, Typed DEF Segments
<1>2. Gets(fs) = UNION {Readable(fs[k]) : k \in DOMAIN fs}
  BY <1>1 DEF Gets
<1>3. \A i : i \in Gets(fs) <=> \E k \in DOMAIN fs : i \in Readable(fs[k])
  BY <1>2
<1>4. Gets(fs) = {i \in Nat : \E k \in DOMAIN fs : Reads(fs[k], k, i)}
  BY <1>1, <1>3
<1> QED
  BY <1>1, <1>2, <1>4

LEMMA KeptIs == Kept = Gets(files) /\ Kept' = Gets(files')
BY DEF Kept, Gets

(* The last segment written to, or cut off. *)
LEMMA SegmentReplaced ==
  ASSUME NEW fs, NEW a \in DOMAIN fs, Segments(fs, a),
         NEW f \in Seq(Cell), InStep(f), From(a, f), NEW gs, gs = [fs EXCEPT ![a] = f]
  PROVE  Segments(gs, a)
<1>1. DOMAIN gs = DOMAIN fs /\ gs[a] = f /\ \A k \in DOMAIN fs \ {a} : gs[k] = fs[k]
  OBVIOUS
<1>2. \A k \in DOMAIN fs : k \in Nat /\ k <= a /\ Len(fs[k]) \in Nat /\ Len(gs[k]) \in Nat
  BY <1>1, Typed DEF Segments
<1>3. \A k \in DOMAIN gs :
        /\ k \in 1..(MaxIndex + 1) /\ gs[k] \in Seq(Cell) /\ k <= a
        /\ InStep(gs[k]) /\ From(k, gs[k]) /\ (k # a => Sealed(gs[k]))
  BY <1>1 DEF Segments
<1>4. \A k, l \in DOMAIN gs : k < l => k + Len(gs[k]) <= l
  <2> SUFFICES ASSUME NEW k \in DOMAIN gs, NEW l \in DOMAIN gs, k < l PROVE k + Len(gs[k]) <= l
    OBVIOUS
  <2>1. k # a
    BY <1>1, <1>2
  <2> QED
    BY <1>1, <2>1 DEF Segments
<1>5. \A k \in DOMAIN gs : k = 1 \/ \E j \in DOMAIN gs : j < k /\ j + Len(gs[j]) = k
  <2> SUFFICES ASSUME NEW k \in DOMAIN gs, k # 1 PROVE \E j \in DOMAIN gs : j < k /\ j + Len(gs[j]) = k
    OBVIOUS
  <2>1. PICK j \in DOMAIN fs : j < k /\ j + Len(fs[j]) = k
    BY <1>1 DEF Segments
  <2>2. j # a
    BY <1>1, <1>2, <2>1
  <2> QED
    BY <1>1, <2>1, <2>2
<1> QED
  BY <1>1, <1>3, <1>4, <1>5 DEF Segments

(* The next segment begun. *)
LEMMA SegmentAdded ==
  ASSUME NEW fs, NEW a \in DOMAIN fs, Segments(fs, a), Sealed(fs[a]), fs[a] # <<>>,
         NEW e, e = a + Len(fs[a]), e <= MaxIndex + 1, NEW gs, gs = Put(fs, e, <<>>)
  PROVE  /\ Segments(gs, e) /\ Gets(gs) = Gets(fs)
         /\ e \in DOMAIN gs /\ gs[e] = <<>>
<1>1. \A k \in DOMAIN fs : k \in Nat /\ k >= 1 /\ k <= a /\ fs[k] \in Seq(Cell) /\ Len(fs[k]) \in Nat
  BY Typed DEF Segments
<1>2. a < e /\ e \in 1..(MaxIndex + 1) /\ e \notin DOMAIN fs
  <2>1. Len(fs[a]) > 0
    BY <1>1, EmptySeq
  <2> QED
    BY <1>1, <2>1, Typed
<1>3. DOMAIN gs = DOMAIN fs \cup {e} /\ gs[e] = <<>> /\ \A k \in DOMAIN fs : gs[k] = fs[k]
  BY <1>2 DEF Put
<1>4. <<>> \in Seq(Cell) /\ InStep(<<>>) /\ From(e, <<>>) /\ Len(<<>>) = 0
  BY DEF InStep, From
<1>5. \A k \in DOMAIN gs :
        /\ k \in 1..(MaxIndex + 1) /\ gs[k] \in Seq(Cell) /\ k <= e
        /\ InStep(gs[k]) /\ From(k, gs[k]) /\ (k # e => Sealed(gs[k]))
  <2> SUFFICES ASSUME NEW k \in DOMAIN gs
               PROVE  /\ k \in 1..(MaxIndex + 1) /\ gs[k] \in Seq(Cell) /\ k <= e
                      /\ InStep(gs[k]) /\ From(k, gs[k]) /\ (k # e => Sealed(gs[k]))
    OBVIOUS
  <2>1. CASE k = e
    <3>1. gs[k] = <<>> /\ k \in 1..(MaxIndex + 1) /\ k <= e
      BY <1>2, <1>3, <2>1
    <3> QED
      BY <1>4, <2>1, <3>1, Zenon
  <2>2. CASE k \in DOMAIN fs
    <3>1. k <= e
      BY <1>1, <1>2, <2>2
    <3> QED
      BY <1>3, <2>2, <3>1 DEF Segments
  <2> QED
    BY <1>3, <2>1, <2>2
<1>6. \A k, l \in DOMAIN gs : k < l => k + Len(gs[k]) <= l
  <2> SUFFICES ASSUME NEW k \in DOMAIN gs, NEW l \in DOMAIN gs, k < l PROVE k + Len(gs[k]) <= l
    OBVIOUS
  <2>1. k \in DOMAIN fs /\ gs[k] = fs[k]
    BY <1>1, <1>2, <1>3
  <2>2. CASE l \in DOMAIN fs
    BY <2>1, <2>2 DEF Segments
  <2>3. CASE l = e
    <3>1. CASE k = a
      BY <1>1, <2>1, <2>3, <3>1
    <3>2. CASE k # a
      <4>1. k < a
        BY <1>1, <2>1, <3>2
      <4>2. k + Len(fs[k]) <= a
        BY <2>1, <4>1 DEF Segments
      <4> QED
        BY <1>1, <1>2, <2>1, <2>3, <4>2
    <3> QED
      BY <3>1, <3>2
  <2> QED
    BY <1>3, <2>2, <2>3
<1>7. \A k \in DOMAIN gs : k = 1 \/ \E j \in DOMAIN gs : j < k /\ j + Len(gs[j]) = k
  BY <1>2, <1>3 DEF Segments
<1>8. Segments(gs, e)
  BY <1>3, <1>5, <1>6, <1>7 DEF Segments
<1>9. \A i \in Nat : ~Reads(<<>>, e, i)
  BY <1>1, <1>2, <1>4 DEF Reads
<1>10. Gets(gs) = Gets(fs)
  <2>1. /\ Gets(fs) = {i \in Nat : \E k \in DOMAIN fs : Reads(fs[k], k, i)}
        /\ Gets(gs) = {i \in Nat : \E k \in DOMAIN gs : Reads(gs[k], k, i)}
    BY <1>8, GetsIs
  <2>2. ASSUME NEW i \in Nat
        PROVE  (\E k \in DOMAIN gs : Reads(gs[k], k, i)) <=> \E k \in DOMAIN fs : Reads(fs[k], k, i)
    BY <1>3, <1>9, Zenon
  <2> QED
    BY <2>1, <2>2
<1> QED
  BY <1>3, <1>8, <1>10

(* Only the last segment reaches past its name. *)
LEMMA ReadBelow ==
  ASSUME NEW fs, NEW a, Segments(fs, a), NEW k \in DOMAIN fs, NEW i \in Nat, Reads(fs[k], k, i)
  PROVE  /\ i >= 1 /\ i <= MaxIndex /\ i < a + Len(fs[a])
         /\ k # a => i < a
<1>1. /\ k \in Nat /\ k >= 1 /\ k <= a /\ fs[k] \in Seq(Cell) /\ Len(fs[k]) \in Nat
      /\ a \in DOMAIN fs /\ a \in Nat /\ fs[a] \in Seq(Cell) /\ Len(fs[a]) \in Nat
  BY Typed DEF Segments
<1>2. i >= k /\ i < k + Len(fs[k])
  BY <1>1 DEF Reads
<1>3. k # a => k + Len(fs[k]) <= a
  BY <1>1 DEF Segments
<1>4. i <= MaxIndex
  <2>1. i - k + 1 \in 1..Len(fs[k])
    BY <1>1, <1>2
  <2>2. fs[k][i - k + 1] \in Cell /\ fs[k][i - k + 1].index = k + (i - k + 1) - 1
    BY <1>1, <2>1 DEF Segments, From
  <2> QED
    BY <1>1, <2>2, Typed
<1> QED
  BY <1>1, <1>2, <1>3, <1>4

(* More is written to the last segment: what is new is last. *)
LEMMA Grown ==
  ASSUME NEW fs, NEW a \in DOMAIN fs, Segments(fs, a),
         NEW f \in Seq(Cell), InStep(f), From(a, f), NEW gs, gs = [fs EXCEPT ![a] = f],
         Len(fs[a]) <= Len(f), \A i \in 1..Len(fs[a]) : f[i] = fs[a][i]
  PROVE  /\ Segments(gs, a)
         /\ Gets(fs) \subseteq Gets(gs)
         /\ \A i \in Gets(gs) \ Gets(fs) : i \in Nat \ {0} /\ \A j \in Gets(fs) : j < i
<1>1. Segments(gs, a)
  BY SegmentReplaced
<1>2. /\ Gets(fs) = {i \in Nat : \E k \in DOMAIN fs : Reads(fs[k], k, i)}
      /\ Gets(gs) = {i \in Nat : \E k \in DOMAIN gs : Reads(gs[k], k, i)}
  <2>1. Gets(fs) = {i \in Nat : \E k \in DOMAIN fs : Reads(fs[k], k, i)}
    BY GetsIs, Zenon
  <2>2. Gets(gs) = {i \in Nat : \E k \in DOMAIN gs : Reads(gs[k], k, i)}
    BY <1>1, GetsIs, Zenon
  <2> QED
    BY <2>1, <2>2, Zenon
<1>3. DOMAIN gs = DOMAIN fs /\ gs[a] = f /\ \A k \in DOMAIN fs \ {a} : gs[k] = fs[k]
  OBVIOUS
<1>4. a \in Nat /\ fs[a] \in Seq(Cell) /\ Len(fs[a]) \in Nat /\ Len(f) \in Nat
  BY Typed DEF Segments
<1>5. \A i \in Nat : i < a + Len(fs[a]) => (Reads(f, a, i) <=> Reads(fs[a], a, i))
  <2> SUFFICES ASSUME NEW i \in Nat, i < a + Len(fs[a])
               PROVE  Reads(f, a, i) <=> Reads(fs[a], a, i)
    OBVIOUS
  <2>1. CASE i < a
    BY <1>4, <2>1 DEF Reads
  <2>2. CASE i >= a
    <3>1. i - a + 1 \in 1..Len(fs[a]) /\ i \in a..(a + Len(fs[a]) - 1) /\ i \in a..(a + Len(f) - 1)
      BY <1>4, <2>2
    <3> QED
      BY <3>1 DEF Reads
  <2> QED
    BY <1>4, <2>1, <2>2
<1>6. Gets(fs) \subseteq Gets(gs)
  <2> SUFFICES ASSUME NEW i \in Gets(fs) PROVE i \in Gets(gs)
    OBVIOUS
  <2>1. PICK k \in DOMAIN fs : Reads(fs[k], k, i) /\ i \in Nat
    BY <1>2
  <2>2. Reads(gs[k], k, i)
    BY <1>3, <1>5, <2>1, ReadBelow
  <2> QED
    BY <1>2, <1>3, <2>1, <2>2
<1>7. ASSUME NEW i \in Gets(gs), i \notin Gets(fs), NEW j \in Gets(fs) PROVE j < i
  <2>1. PICK k \in DOMAIN fs : Reads(gs[k], k, i) /\ i \in Nat
    BY <1>2, <1>3
  <2>2. ~(i < a + Len(fs[a]))
    BY <1>2, <1>3, <1>5, <1>7, <2>1
  <2>3. j \in Nat /\ j < a + Len(fs[a])
    BY <1>2, ReadBelow
  <2> QED
    BY <1>4, <2>1, <2>2, <2>3
<1>8. \A i \in Gets(gs) : i \in Nat \ {0}
  <2> SUFFICES ASSUME NEW i \in Gets(gs) PROVE i \in Nat \ {0}
    OBVIOUS
  <2>1. PICK k \in DOMAIN gs : Reads(gs[k], k, i) /\ i \in Nat
    BY <1>2
  <2>2. i >= 1
    BY <1>1, <2>1, ReadBelow
  <2> QED
    BY <2>1, <2>2
<1> QED
  BY <1>1, <1>6, <1>7, <1>8

(* The last segment loses its end: what is lost was last. *)
LEMMA Shortened ==
  ASSUME NEW fs, NEW a \in DOMAIN fs, Segments(fs, a),
         NEW n \in 0..Len(fs[a]), NEW f, LeftOf(f, fs[a], n), NEW gs, gs = [fs EXCEPT ![a] = f]
  PROVE  /\ Segments(gs, a)
         /\ Gets(gs) \subseteq Gets(fs)
         /\ \A i \in Gets(fs) \ Gets(gs) : i >= a + n /\ \A j \in Gets(gs) : j < i
<1> DEFINE F == fs[a]
<1>1. a \in Nat /\ F \in Seq(Cell) /\ Len(F) \in Nat /\ f \in Seq(Cell) /\ Len(f) \in Nat
      /\ n \in Nat /\ n <= Len(f) /\ Len(f) <= Len(F) /\ InStep(F) /\ From(a, F)
  BY Typed DEF Segments, LeftOf
<1>2. \A i \in 1..Len(f) :
        /\ f[i].index = F[i].index
        /\ f[i] # F[i] => i = Len(f) /\ i > n /\ f[i].lack > 0
  BY DEF LeftOf
<1> HIDE DEF F
<1>3. DOMAIN f = 1..Len(f) /\ DOMAIN F = 1..Len(F) /\ \A i \in 1..Len(f) : i \in 1..Len(F)
  BY <1>1
<1>4. InStep(f)
  <2> SUFFICES ASSUME NEW i \in 1..Len(f), NEW j \in 1..Len(f), i < j
               PROVE  f[i].lack = 0 /\ f[i].index < f[j].index
    BY <1>3 DEF InStep
  <2>1. f[i] = F[i]
    BY <1>1, <1>2
  <2>2. F[i].lack = 0 /\ F[i].index < F[j].index
    BY <1>1, <1>3 DEF InStep
  <2> QED
    BY <1>2, <2>1, <2>2
<1>5. From(a, f)
  BY <1>1, <1>2, <1>3 DEF From
<1>6. Segments(gs, a)
  BY <1>1, <1>4, <1>5, SegmentReplaced
<1>7. /\ Gets(fs) = {i \in Nat : \E k \in DOMAIN fs : Reads(fs[k], k, i)}
      /\ Gets(gs) = {i \in Nat : \E k \in DOMAIN gs : Reads(gs[k], k, i)}
  BY <1>6, GetsIs
<1>8. DOMAIN gs = DOMAIN fs /\ gs[a] = f /\ \A k \in DOMAIN fs \ {a} : gs[k] = fs[k]
  OBVIOUS
<1>9. ASSUME NEW i \in Nat, Reads(f, a, i) PROVE Reads(F, a, i)
  <2>1. i - a + 1 \in 1..Len(f) /\ i \in a..(a + Len(F) - 1) /\ f[i - a + 1].lack = 0
    BY <1>1, <1>9 DEF Reads
  <2>2. f[i - a + 1] = F[i - a + 1]
    BY <1>2, <2>1
  <2> QED
    BY <2>1, <2>2 DEF Reads
<1>10. ASSUME NEW i \in Nat, Reads(F, a, i), ~Reads(f, a, i)
       PROVE  i >= a + n /\ \A j \in Nat : Reads(f, a, j) => j < i
  <2>1. i - a + 1 \in 1..Len(F) /\ i >= a /\ F[i - a + 1].lack = 0
    BY <1>1, <1>10 DEF Reads
  <2>2. CASE i - a + 1 > Len(f)
    BY <1>1, <2>1, <2>2 DEF Reads
  <2>3. CASE i - a + 1 <= Len(f)
    <3>1. i - a + 1 \in 1..Len(f) /\ i \in a..(a + Len(f) - 1)
      BY <1>1, <2>1, <2>3
    <3>2. f[i - a + 1] # F[i - a + 1]
      BY <1>10, <2>1, <3>1 DEF Reads
    <3>3. i - a + 1 = Len(f) /\ i - a + 1 > n /\ f[i - a + 1].lack > 0
      BY <1>2, <3>1, <3>2
    <3>4. \A j \in Nat : Reads(f, a, j) => j # i /\ j <= a + Len(f) - 1
      BY <1>1, <1>10 DEF Reads
    <3> QED
      BY <1>1, <3>1, <3>3, <3>4
  <2> QED
    BY <1>1, <2>1, <2>2, <2>3
<1>11. Gets(gs) \subseteq Gets(fs)
  <2> SUFFICES ASSUME NEW i \in Gets(gs) PROVE i \in Gets(fs)
    OBVIOUS
  <2>1. PICK k \in DOMAIN fs : Reads(gs[k], k, i) /\ i \in Nat
    BY <1>7, <1>8
  <2>2. Reads(fs[k], k, i)
    BY <1>8, <1>9, <2>1 DEF F
  <2> QED
    BY <1>7, <2>1, <2>2
<1>12. ASSUME NEW i \in Gets(fs), i \notin Gets(gs)
       PROVE  i >= a + n /\ \A j \in Gets(gs) : j < i
  <2>1. PICK k \in DOMAIN fs : Reads(fs[k], k, i) /\ i \in Nat
    BY <1>7
  <2>2. k = a /\ ~Reads(f, a, i)
    BY <1>7, <1>8, <1>12, <2>1
  <2>3. Reads(F, a, i)
    BY <2>1, <2>2 DEF F
  <2>4. i >= a + n /\ i >= a /\ \A j \in Nat : Reads(f, a, j) => j < i
    BY <1>1, <1>10, <2>1, <2>2, <2>3
  <2>5. ASSUME NEW j \in Gets(gs) PROVE j < i
    <3>1. PICK l \in DOMAIN gs : Reads(gs[l], l, j) /\ j \in Nat
      BY <1>7
    <3>2. CASE l = a
      BY <1>8, <2>4, <3>1, <3>2
    <3>3. CASE l # a
      <4>1. j < a
        BY <1>6, <3>1, <3>3, ReadBelow
      <4> QED
        BY <1>1, <2>1, <2>4, <3>1, <4>1
    <3> QED
      BY <3>2, <3>3
  <2> QED
    BY <2>4, <2>5
<1> QED
  BY <1>6, <1>11, <1>12

-----------------------------------------------------------------------------
(* What is read last. *)
LEMMA HighestIs ==
  ASSUME NEW S \in SUBSET Nat, NEW m \in S, \A j \in S : j <= m PROVE Highest(S) = m
<1>1. \A h \in S : (\A j \in S : j <= h) => h = m
  OBVIOUS
<1> QED
  BY <1>1 DEF Highest

LEMMA LastReadIs ==
  ASSUME NEW f \in Seq(Cell), NEW k \in Nat \ {0}, InStep(f), From(k, f)
  PROVE  /\ LastRead(f) \in 0..MaxIndex
         /\ Readable(f) = {} => LastRead(f) = 0
         /\ Readable(f) # {} =>
              /\ LastRead(f) \in Readable(f) /\ \A i \in Readable(f) : i <= LastRead(f)
              /\ k <= LastRead(f) /\ LastRead(f) < k + Len(f)
<1>1. /\ ReadTo(f) = {j \in DOMAIN f : f[j].lack = 0}
      /\ Readable(f) = {f[j].index : j \in ReadTo(f)}
  BY ReadInStep DEF Readable
<1>2. DOMAIN f = 1..Len(f) /\ Len(f) \in Nat /\ \A j \in 1..Len(f) : f[j] \in Cell
  OBVIOUS
<1>3. CASE ReadTo(f) = {}
  BY <1>1, <1>3, Typed DEF LastRead
<1>4. CASE ReadTo(f) # {}
  <2>1. PICK m \in ReadTo(f) : \A j \in ReadTo(f) : j <= m
    <3>1. PICK j \in 1..Len(f) : f[j].lack = 0
      BY <1>1, <1>2, <1>4
    <3>2. PICK n \in 1..Len(f) : n = Len(f)
      <4>1. Len(f) \in 1..Len(f)
        BY <1>2, <3>1
      <4> QED
        BY <4>1
    <3>3. CASE f[n].lack = 0
      <4>1. n \in ReadTo(f)
        BY <1>1, <1>2, <3>2, <3>3
      <4>2. \A i \in ReadTo(f) : i <= n
        BY <1>1, <1>2, <3>2
      <4> QED
        BY <4>1, <4>2
    <3>4. CASE f[n].lack # 0
      <4>1. j # n
        BY <3>1, <3>4
      <4>2. n - 1 \in 1..Len(f) /\ n - 1 < n
        BY <3>1, <3>2, <4>1
      <4>3. f[n - 1].lack = 0
        BY <1>2, <3>2, <4>2 DEF InStep
      <4>4. n - 1 \in ReadTo(f) /\ n \notin ReadTo(f)
        BY <1>1, <1>2, <3>4, <4>2, <4>3
      <4>5. \A i \in ReadTo(f) : i \in 1..n /\ i # n
        BY <1>1, <1>2, <3>2, <4>4
      <4>6. \A i \in ReadTo(f) : i <= n - 1
        BY <3>2, <4>5
      <4> QED
        BY <4>4, <4>6
    <3> QED
      BY <3>3, <3>4
  <2>2. LastRead(f) = f[m].index
    <3>1. ReadTo(f) \in SUBSET Nat
      BY <1>1, <1>2
    <3>2. Highest(ReadTo(f)) = m
      BY <2>1, <3>1, HighestIs
    <3> QED
      BY <1>4, <3>2 DEF LastRead
  <2>3. m \in 1..Len(f) /\ f[m].index = k + m - 1 /\ f[m].index \in 1..MaxIndex
    BY <1>1, <1>2, <2>1, Typed DEF From
  <2>4. \A i \in Readable(f) : i <= LastRead(f)
    <3> SUFFICES ASSUME NEW j \in ReadTo(f) PROVE f[j].index <= f[m].index
      BY <1>1, <2>2
    <3>1. j \in 1..Len(f) /\ f[j].index = k + j - 1 /\ j <= m
      BY <1>1, <1>2, <2>1 DEF From
    <3> QED
      BY <2>3, <3>1
  <2>5. LastRead(f) \in Readable(f)
    BY <1>1, <2>1, <2>2
  <2>6. LastRead(f) \in 0..MaxIndex /\ k <= LastRead(f) /\ LastRead(f) < k + Len(f)
    BY <1>2, <2>2, <2>3, Typed
  <2> QED
    BY <2>4, <2>5, <2>6
<1> QED
  BY <1>3, <1>4

-----------------------------------------------------------------------------
(* The invariant. *)
End == active + Len(files[active])

Durable == acked \subseteq Kept /\ \A i \in acked : i < active + synced

Running == {"ready", "appended", "written", "synced"}

(* The buffer runs up to the last zxid, without a gap to what is on disk.  *)
NoGap ==
  /\ \A j \in DOMAIN buf : buf[j] = zxid - Len(buf) + j
  /\ active <= zxid + 1 - Len(buf) /\ zxid + 1 - Len(buf) <= End
  /\ \A i \in acked : i <= zxid

Buffering ==
  /\ stage \notin Running => buf = <<>>
  /\ DOMAIN files = {} => synced = 0 /\ stage = "down"
  /\ stage \in Running => NoGap
  /\ stage \in {"appended", "written", "synced"} => lastIndex = zxid /\ zxid \notin acked
  /\ stage \in {"appended", "written"} => buf # <<>>
  /\ stage \in {"written", "synced"} =>
       Sealed(files[active]) /\ End = zxid + 1 /\ active <= zxid
  /\ stage = "synced" => buf = <<>> /\ synced = Len(files[active])

Inv == TypeOK /\ Segments(files, active) /\ Durable /\ Buffering

IInv == sound \in BOOLEAN /\ (sound => Inv)

WalStep == Promise!Keep \/ Promise!Acknowledge \/ Promise!Lose \/ Promise!Recover

LEMMA ActiveType ==
  ASSUME Inv, DOMAIN files # {}
  PROVE  /\ active \in DOMAIN files /\ active \in 1..(MaxIndex + 1) /\ active \in Nat
         /\ files[active] \in Seq(Cell) /\ Len(files[active]) \in Nat /\ InStep(files[active])
         /\ From(active, files[active])
         /\ synced \in 0..Len(files[active]) /\ End \in Nat
BY Typed DEF Inv, Segments, TypeOK, End

(* A failed flush that its caller does not look at. *)
Applies == UNCHANGED applied \/ Promise!GoOn

LEMMA UnacknowledgedApplies ==
  ASSUME Inv, stage \in {"appended", "written", "synced"}, Unacknowledged
  PROVE  Applies /\ acked' = acked /\ applied' \subseteq Index /\ stage' = "ready"
<1>1. DOMAIN files # {} /\ active \in Nat /\ active >= 1
  BY ActiveType, Typed DEF Inv, Buffering, TypeOK
<1>2. zxid \in 0..MaxIndex /\ acked \subseteq Index /\ applied \subseteq Index /\ MaxIndex \in Nat
  BY Typed DEF Inv, TypeOK
<1>3. zxid \notin acked /\ \A i \in acked : i <= zxid
  BY DEF Inv, Buffering, Running, NoGap
<1>4. zxid # 0
  <2>1. CASE stage = "appended"
    <3>1. buf \in Seq(Index) /\ buf # <<>> /\ active <= zxid + 1 - Len(buf)
      BY <2>1 DEF Inv, TypeOK, Buffering, Running, NoGap
    <3>2. Len(buf) \in Nat /\ Len(buf) >= 1
      BY <3>1, EmptySeq
    <3> QED
      BY <1>1, <1>2, <3>1, <3>2
  <2>2. CASE stage \in {"written", "synced"}
    BY <1>1, <1>2, <2>2 DEF Inv, Buffering
  <2> QED
    BY <2>1, <2>2
<1>5. zxid \in Index /\ zxid \in Nat \ {0}
  BY <1>2, <1>4 DEF Index
<1>6. Promise!After(zxid, acked)
  BY <1>2, <1>3, <1>5 DEF Promise!After, Index
<1>7. CASE applied' = applied
  BY <1>2, <1>7 DEF Applies, Unacknowledged
<1>8. CASE applied' = applied \cup {zxid}
  BY <1>2, <1>5, <1>6, <1>8 DEF Applies, Unacknowledged, Promise!GoOn
<1> QED
  BY <1>7, <1>8 DEF Unacknowledged

(* Only the writer's side moves. *)
LEMMA SameFiles ==
  ASSUME Inv, files' = files, active' = active, synced' = synced, acked' = acked, Applies
  PROVE  Segments(files', active') /\ Durable' /\ Promise!Keep /\ Kept' = Kept
<1>1. Kept' = Kept
  BY KeptIs
<1>2. Segments(files', active') /\ Durable'
  BY <1>1 DEF Inv, Durable
<1> QED
  BY <1>1, <1>2 DEF Promise!Keep, Applies

LEMMA AppendRecordStep == ASSUME Inv, AppendRecord PROVE Inv' /\ WalStep
<1> USE DEF AppendRecord, history
<1>1. DOMAIN files # {}
  BY DEF Inv, TypeOK, Buffering
<1>2. buf \in Seq(Index) /\ zxid \in Nat /\ zxid + 1 \in Index /\ Len(buf) \in Nat /\ stage = "ready"
      /\ zxid + 1 \in 0..MaxIndex
  BY Typed DEF Inv, TypeOK, Index
<1>3. buf' \in Seq(Index) /\ Len(buf') = Len(buf) + 1 /\ buf' # <<>>
      /\ (\A j \in 1..Len(buf) : buf'[j] = buf[j]) /\ buf'[Len(buf) + 1] = zxid + 1
  BY <1>2, AppendProperties
<1>4. TypeOK'
  BY <1>2, <1>3, Typed DEF Inv, TypeOK, Stage
<1>5. Buffering'
  <2>1. NoGap /\ \A i \in acked : i \in Nat
    BY <1>2 DEF Inv, Buffering, Running, TypeOK, Index
  <2>2. \A j \in DOMAIN buf' : buf'[j] = zxid' - Len(buf') + j
    <3> SUFFICES ASSUME NEW j \in 1..(Len(buf) + 1) PROVE buf'[j] = zxid' - Len(buf') + j
      BY <1>2, <1>3
    <3>1. CASE j = Len(buf) + 1
      BY <1>2, <1>3, <3>1
    <3>2. CASE j \in 1..Len(buf)
      <4>1. buf'[j] = zxid - Len(buf) + j
        BY <1>2, <1>3, <2>1, <3>2 DEF NoGap
      <4> QED
        BY <1>2, <1>3, <3>2, <4>1
    <3> QED
      BY <1>2, <3>1, <3>2
  <2>3. End' = End /\ zxid' + 1 - Len(buf') = zxid + 1 - Len(buf)
    BY <1>2, <1>3 DEF End
  <2>4. active' <= zxid' + 1 - Len(buf') /\ zxid' + 1 - Len(buf') <= End'
    BY <2>1, <2>3 DEF NoGap
  <2>5. (\A i \in acked' : i <= zxid') /\ zxid' \notin acked'
    BY <1>2, <2>1 DEF NoGap
  <2>6. NoGap'
    BY <2>2, <2>4, <2>5 DEF NoGap
  <2> QED
    BY <1>1, <1>3, <2>5, <2>6 DEF Buffering, Running
<1> QED
  BY <1>4, <1>5, SameFiles DEF Inv, WalStep, Applies

-----------------------------------------------------------------------------
(* A write, whole or cut off.  When anything of it reaches the file and    *)
(* the file stays in step, the buffer began where the file ended.          *)
LEMMA WriteMeets ==
  ASSUME Inv, stage = "appended", NEW f, LeftOf(f, WithBuffer, Len(files[active])), InStep(f)
  PROVE  /\ f \in Seq(Cell) /\ From(active, f) /\ Len(files[active]) <= Len(f)
         /\ \A i \in 1..Len(files[active]) : f[i] = files[active][i]
         /\ Len(f) > Len(files[active]) => End + Len(buf) = zxid + 1
<1> DEFINE F == files[active]
<1>1. /\ F \in Seq(Cell) /\ Len(F) \in Nat /\ active \in Nat /\ InStep(F) /\ From(active, F)
      /\ buf \in Seq(Index) /\ buf # <<>> /\ zxid \in Nat /\ NoGap
  <2>1. DOMAIN files # {}
    BY DEF Inv, Buffering
  <2> QED
    BY <2>1, ActiveType DEF Inv, TypeOK, Buffering, Running
<1>2. Len(buf) \in Nat /\ Len(buf) >= 1 /\ DOMAIN buf = 1..Len(buf)
  BY <1>1, EmptySeq
<1>3. PICK w \in Seq(Cell) : /\ w = WithBuffer /\ Len(w) = Len(F) + Len(buf)
                             /\ \A i \in 1..Len(F) : w[i] = F[i]
                             /\ \A i \in 1..Len(buf) : w[Len(F) + i] = [index |-> buf[i], lack |-> 0]
  BY <1>1, Buffered DEF WithBuffer
<1>4. \A i \in 1..Len(buf) : buf[i] = zxid - Len(buf) + i
  BY <1>1, <1>2 DEF NoGap
<1>5. active <= zxid + 1 - Len(buf) /\ zxid + 1 - Len(buf) <= active + Len(F)
  BY <1>1 DEF NoGap, End
<1> HIDE DEF F
<1>6. /\ f \in Seq(Cell) /\ Len(f) \in Nat /\ Len(F) <= Len(f) /\ Len(f) <= Len(w)
      /\ DOMAIN f = 1..Len(f)
      /\ \A i \in 1..Len(f) : f[i].index = w[i].index /\ (f[i] # w[i] => i > Len(F))
  BY <1>1, <1>3 DEF LeftOf, F
<1> DEFINE m == Len(F)
           b == Len(buf)
<1>13. m \in Nat /\ b \in Nat /\ b >= 1 /\ Len(f) \in Nat /\ active \in Nat /\ zxid \in Nat
       /\ active <= zxid + 1 - b /\ zxid + 1 - b <= active + m /\ Len(f) <= m + b
  BY <1>1, <1>2, <1>3, <1>5, <1>6
<1>7. \A i \in 1..Len(F) : i \in 1..Len(f) /\ f[i] = F[i]
  BY <1>1, <1>3, <1>6
<1>8. \A i \in 1..Len(F) : F[i].index = active + i - 1
  BY <1>1 DEF From
<1>9. \A i \in 1..Len(f) : i > Len(F) => f[i].index = zxid - Len(buf) + (i - Len(F))
  <2> SUFFICES ASSUME NEW i \in 1..Len(f), i > Len(F)
               PROVE  f[i].index = zxid - Len(buf) + (i - Len(F))
    OBVIOUS
  <2>1. PICK j \in 1..Len(buf) : i = Len(F) + j
    <3> HIDE DEF m, b
    <3>1. i > m
      BY DEF m
    <3>2. i - m \in 1..b /\ i = m + (i - m)
      BY <1>13, <3>1
    <3> QED
      BY <3>2 DEF m, b
  <2>2. f[i].index = w[i].index /\ w[i] = [index |-> buf[j], lack |-> 0]
    BY <1>3, <1>6, <2>1
  <2>3. f[i].index = buf[j]
    BY <2>2
  <2> QED
    BY <1>1, <1>2, <1>4, <2>1, <2>3
<1>10. Len(f) > Len(F) => active + Len(F) + Len(buf) = zxid + 1
  <2> SUFFICES ASSUME Len(f) > Len(F) PROVE active + Len(F) + Len(buf) = zxid + 1
    OBVIOUS
  <2>1. CASE Len(F) = 0
    BY <1>1, <1>2, <1>5, <2>1
  <2>2. CASE Len(F) # 0
    <3>1. m \in 1..m /\ m \in 1..Len(f) /\ m + 1 \in 1..Len(f) /\ m < m + 1
      <4> HIDE DEF m
      <4> QED
        BY <1>6, <1>13, <2>2 DEF m
    <3>2. f[m].index < f[m + 1].index
      BY <1>6, <3>1 DEF InStep
    <3>3. f[m].index = active + m - 1
      BY <1>7, <1>8, <3>1
    <3>4. f[m + 1].index = zxid - b + (m + 1 - m)
      BY <1>9, <1>13, <3>1
    <3> HIDE DEF m, b
    <3>5. zxid + 1 - b = active + m
      BY <1>13, <3>2, <3>3, <3>4
    <3>6. active + m + b = zxid + 1
      BY <1>13, <3>5
    <3> QED
      BY <3>6 DEF m, b
  <2> QED
    BY <2>1, <2>2
<1>11. From(active, f)
  <2> SUFFICES ASSUME NEW i \in 1..Len(f) PROVE f[i].index = active + i - 1
    BY <1>6 DEF From
  <2>1. CASE i <= Len(F)
    BY <1>1, <1>7, <1>8, <2>1
  <2>2. CASE i > Len(F)
    <3>1. active + Len(F) + Len(buf) = zxid + 1
      BY <1>1, <1>6, <1>10, <2>2
    <3>2. f[i].index = zxid - Len(buf) + (i - Len(F))
      BY <1>9, <2>2
    <3>3. f[i].index = zxid - b + (i - m) /\ active + m + b = zxid + 1
      BY <3>1, <3>2
    <3> HIDE DEF m, b
    <3> QED
      BY <1>13, <3>3
  <2> QED
    BY <1>1, <2>1, <2>2
<1> QED
  BY <1>6, <1>7, <1>10, <1>11 DEF F, End

LEMMA WriteKeeps ==
  ASSUME Inv, stage = "appended", NEW f, LeftOf(f, WithBuffer, Len(files[active])), InStep(f),
         files' = [files EXCEPT ![active] = f],
         active' = active, synced' = synced, acked' = acked, Applies
  PROVE  /\ Segments(files', active') /\ Durable' /\ Promise!Keep
         /\ DOMAIN files' = DOMAIN files /\ files'[active] = f
         /\ synced' \in 0..Len(f) /\ Len(f) \in Nat /\ End' >= End
<1>1. DOMAIN files # {}
  BY DEF Inv, Buffering
<1>2. /\ active \in DOMAIN files /\ active \in Nat /\ Len(files[active]) \in Nat
      /\ synced \in 0..Len(files[active])
  BY <1>1, ActiveType
<1>3. /\ f \in Seq(Cell) /\ From(active, f) /\ Len(files[active]) <= Len(f)
      /\ \A i \in 1..Len(files[active]) : f[i] = files[active][i]
  BY WriteMeets
<1>4. /\ Segments(files', active)
      /\ Gets(files) \subseteq Gets(files')
      /\ \A i \in Gets(files') \ Gets(files) : i \in Nat \ {0} /\ \A j \in Gets(files) : j < i
  BY <1>2, <1>3, Grown DEF Inv
<1>5. Kept = Gets(files) /\ Kept' = Gets(files')
  BY KeptIs
<1>6. Promise!Keep
  BY <1>4, <1>5 DEF Promise!Keep, Promise!After, Applies
<1>7. Durable'
  BY <1>4, <1>5 DEF Inv, Durable
<1>8. DOMAIN files' = DOMAIN files /\ files'[active] = f /\ Len(f) \in Nat
  BY <1>2, <1>3
<1>9. synced' \in 0..Len(f) /\ End' >= End
  BY <1>2, <1>3, <1>8 DEF End
<1> QED
  BY <1>4, <1>6, <1>7, <1>8, <1>9

LEMMA WithBufferType ==
  ASSUME Inv, stage = "appended"
  PROVE  /\ WithBuffer \in Seq(Cell) /\ Len(WithBuffer) = Len(files[active]) + Len(buf)
         /\ Len(files[active]) \in 0..Len(WithBuffer) /\ Len(buf) \in Nat /\ Len(buf) >= 1
         /\ WithBuffer[Len(WithBuffer)].lack = 0
<1>1. DOMAIN files # {} /\ buf # <<>> /\ buf \in Seq(Index)
  BY DEF Inv, Buffering, TypeOK
<1>2. files[active] \in Seq(Cell) /\ Len(files[active]) \in Nat
  BY <1>1, ActiveType
<1>3. Len(buf) \in Nat /\ Len(buf) >= 1
  BY <1>1, EmptySeq
<1>4. WithBuffer \in Seq(Cell) /\ Len(WithBuffer) = Len(files[active]) + Len(buf)
      /\ \A i \in 1..Len(buf) : WithBuffer[Len(files[active]) + i] = [index |-> buf[i], lack |-> 0]
  BY <1>1, <1>2, Buffered DEF WithBuffer
<1>5. WithBuffer[Len(files[active]) + Len(buf)].lack = 0
  <2>1. Len(buf) \in 1..Len(buf)
    BY <1>3
  <2>2. WithBuffer[Len(files[active]) + Len(buf)] = [index |-> buf[Len(buf)], lack |-> 0]
    BY <1>4, <2>1
  <2> QED
    BY <2>2
<1> QED
  BY <1>2, <1>3, <1>4, <1>5

LEMMA WriteAllStep == ASSUME Inv, WriteAll, sound' PROVE Inv' /\ WalStep
<1> USE DEF WriteAll, writer
<1>1. PICK w \in Seq(Cell) : w = WithBuffer
  BY WithBufferType
<1>2. /\ stage = "appended" /\ InStep(w) /\ files' = [files EXCEPT ![active] = w] /\ active' = active
      /\ synced' = synced /\ acked' = acked /\ Applies /\ buf' = buf /\ zxid' = zxid
  BY <1>1 DEF Leaves, Applies
<1>3. LeftOf(w, WithBuffer, Len(files[active]))
  BY <1>1, WithBufferType, <1>2 DEF LeftOf
<1>4. /\ Segments(files', active') /\ Durable' /\ Promise!Keep
      /\ DOMAIN files' = DOMAIN files /\ files'[active] = w
      /\ synced' \in 0..Len(w) /\ Len(w) \in Nat /\ End' >= End
  BY <1>2, <1>3, WriteKeeps
<1>5. DOMAIN files # {} /\ active \in Nat /\ active \in DOMAIN files /\ Len(files[active]) \in Nat
      /\ End \in Nat
  BY <1>2, ActiveType DEF Inv, Buffering
<1>6. TypeOK'
  BY <1>2, <1>4, <1>5 DEF Inv, TypeOK, Segments, Stage
<1>7. Len(w) = Len(files[active]) + Len(buf) /\ Len(buf) \in Nat /\ Len(buf) >= 1 /\ w[Len(w)].lack = 0
  BY <1>1, <1>2, WithBufferType
<1>8. End + Len(buf) = zxid + 1
  BY <1>2, <1>3, <1>5, <1>7, WriteMeets
<1>9. Sealed(w)
  <2> SUFFICES ASSUME NEW i \in 1..Len(w) PROVE w[i].lack = 0
    BY DEF Sealed
  <2>1. CASE i = Len(w)
    BY <1>7, <2>1
  <2>2. CASE i # Len(w)
    <3>1. i < Len(w) /\ Len(w) \in 1..Len(w)
      BY <1>4, <2>2
    <3> QED
      BY <1>2, <3>1 DEF InStep
  <2> QED
    BY <2>1, <2>2
<1>10. End' = End + Len(buf)
  BY <1>2, <1>4, <1>5, <1>7 DEF End
<1>11. zxid \in Nat /\ active <= End
  BY <1>5 DEF Inv, TypeOK, End
<1>12. Buffering'
  <2>1. NoGap
    BY <1>2 DEF Inv, Buffering, Running
  <2>2. active <= zxid
    BY <1>5, <1>7, <1>8, <1>11
  <2>3. NoGap'
    BY <1>2, <1>5, <1>7, <1>8, <1>10, <1>11, <2>1 DEF NoGap
  <2> QED
    BY <1>2, <1>4, <1>5, <1>8, <1>9, <1>10, <2>2, <2>3 DEF Inv, Buffering, Running
<1> QED
  BY <1>4, <1>6, <1>12 DEF Inv, WalStep

(* A write that fails, or that a crash interrupts. *)
LEMMA PartKeeps ==
  ASSUME Inv, stage = "appended", sound', (UNCHANGED <<files, sound>>) \/ PartWritten,
         active' = active, synced' = synced, acked' = acked, Applies
  PROVE  /\ Segments(files', active') /\ Durable' /\ Promise!Keep
         /\ DOMAIN files' = DOMAIN files /\ synced' \in 0..Len(files'[active']) /\ End' >= End
         /\ active' \in DOMAIN files'
<1>1. DOMAIN files # {}
  BY DEF Inv, Buffering
<1>2. active \in DOMAIN files /\ synced \in 0..Len(files[active]) /\ End \in Nat
  BY <1>1, ActiveType
<1>3. CASE UNCHANGED <<files, sound>>
  <2>1. Segments(files', active') /\ Durable' /\ Promise!Keep
    BY <1>3, SameFiles
  <2> QED
    BY <1>2, <1>3, <2>1 DEF End
<1>4. CASE PartWritten
  <2>1. PICK f \in Remnants(WithBuffer, Len(files[active])) : Leaves(f)
    BY <1>4 DEF PartWritten
  <2>2. LeftOf(f, WithBuffer, Len(files[active]))
    BY WithBufferType, RemnantsAreLeft
  <2>3. InStep(f) /\ files' = [files EXCEPT ![active] = f]
    BY <2>1 DEF Leaves
  <2> QED
    BY <1>2, <2>2, <2>3, WriteKeeps
<1> QED
  BY <1>3, <1>4

LEMMA WriteFailsStep == ASSUME Inv, WriteFails, sound' PROVE Inv' /\ WalStep
<1> USE DEF WriteFails, writer
<1>1. Applies /\ acked' = acked /\ applied' \subseteq Index /\ stage' = "ready"
  BY UnacknowledgedApplies
<1>2. /\ Segments(files', active') /\ Durable' /\ Promise!Keep
      /\ DOMAIN files' = DOMAIN files /\ synced' \in 0..Len(files'[active']) /\ End' >= End
      /\ active' \in DOMAIN files'
  BY <1>1, PartKeeps
<1>3. TypeOK'
  BY <1>1, <1>2 DEF Inv, TypeOK, Segments, Stage
<1>4. End \in Nat /\ End' \in Nat /\ Len(buf) \in Nat /\ zxid \in Nat
  <2>1. DOMAIN files # {}
    BY DEF Inv, Buffering
  <2>2. End' \in Nat
    BY <1>2, Typed DEF End, Segments
  <2> QED
    BY <2>1, <2>2, ActiveType DEF Inv, TypeOK
<1>5. Buffering'
  <2>1. NoGap /\ DOMAIN files # {}
    BY DEF Inv, Buffering, Running
  <2>2. NoGap'
    BY <1>1, <1>2, <1>4, <2>1 DEF NoGap
  <2> QED
    BY <1>1, <1>2, <2>1, <2>2 DEF Inv, Buffering, Running
<1> QED
  BY <1>2, <1>3, <1>5 DEF Inv, WalStep

-----------------------------------------------------------------------------
(* Syncing. *)
LEMMA ServingType ==
  ASSUME Inv, stage \in Running
  PROVE  /\ DOMAIN files # {} /\ NoGap /\ active \in DOMAIN files /\ active \in Nat /\ active >= 1
         /\ Len(files[active]) \in Nat /\ End \in Nat /\ zxid \in Nat /\ synced \in 0..Len(files[active])
         /\ acked \subseteq Nat /\ Len(buf) \in Nat
<1>1. DOMAIN files # {}
  BY DEF Inv, Buffering, Running
<1> QED
  BY <1>1, ActiveType DEF Inv, Buffering, TypeOK, Index

LEMMA SyncDataStep == ASSUME Inv, SyncData PROVE Inv' /\ WalStep
<1> USE DEF SyncData, history
<1>1. /\ DOMAIN files # {} /\ NoGap /\ active \in Nat /\ Len(files[active]) \in Nat /\ zxid \in Nat
      /\ End = zxid + 1 /\ active <= zxid /\ synced \in 0..Len(files[active]) /\ acked \subseteq Nat
      /\ Sealed(files[active]) /\ lastIndex = zxid /\ zxid \notin acked
  BY ServingType DEF Inv, Buffering, Running
<1>2. TypeOK'
  BY <1>1 DEF Inv, TypeOK, Stage
<1>3. Kept' = Kept
  BY KeptIs
<1>4. Durable'
  <2> SUFFICES ASSUME NEW i \in acked PROVE i < active + Len(files[active])
    BY <1>3 DEF Inv, Durable
  <2>1. i \in Nat /\ i < active + synced
    BY <1>1 DEF Inv, Durable
  <2> QED
    BY <1>1, <2>1
<1>5. Buffering'
  <2>1. Len(buf') = 0 /\ DOMAIN buf' = {} /\ End' = End
    BY DEF End
  <2>2. active <= zxid + 1 /\ \A i \in acked : i <= zxid
    BY <1>1 DEF NoGap
  <2>3. NoGap'
    BY <1>1, <2>1, <2>2 DEF NoGap
  <2> QED
    BY <1>1, <2>1, <2>3 DEF Buffering, Running
<1>6. Promise!Keep
  BY <1>3 DEF Promise!Keep
<1> QED
  BY <1>2, <1>4, <1>5, <1>6 DEF Inv, WalStep

(* The flush fails after the data is written, synced or not. *)
LEMMA FailsStep == ASSUME Inv, SyncFails \/ RotateFails PROVE Inv' /\ WalStep
<1> USE DEF SyncFails, RotateFails, writer
<1>1. Applies /\ acked' = acked /\ applied' \subseteq Index /\ stage' = "ready"
  BY UnacknowledgedApplies
<1>2. stage \in {"written", "synced"} /\ stage' = "ready" /\ files' = files /\ synced' = synced
      /\ active' = active /\ buf' = buf /\ zxid' = zxid /\ acked' = acked
  BY <1>1
<1>3. TypeOK'
  BY <1>1, <1>2 DEF Inv, TypeOK, Stage
<1>4. Buffering'
  <2>1. NoGap /\ DOMAIN files # {}
    BY <1>2, ServingType DEF Running
  <2>2. NoGap'
    BY <1>2, <2>1 DEF NoGap, End
  <2> QED
    BY <1>2, <2>1, <2>2 DEF Buffering, Running
<1> QED
  BY <1>1, <1>2, <1>3, <1>4, SameFiles DEF Inv, WalStep

-----------------------------------------------------------------------------
(* The answer: the record it acknowledges is the last one of the log.      *)
LEMMA AcknowledgeStep ==
  ASSUME Inv, stage = "synced", Acknowledge, Kept' = Kept
  PROVE  /\ Promise!Acknowledge /\ acked' \subseteq Kept' /\ acked' \subseteq Index /\ applied' \subseteq Index
         /\ \A i \in acked' : i \in Nat /\ i <= zxid
<1> USE DEF Acknowledge
<1>1. /\ DOMAIN files # {} /\ NoGap /\ active \in Nat /\ active >= 1 /\ active \in DOMAIN files
      /\ Len(files[active]) \in Nat /\ zxid \in Nat /\ acked \subseteq Nat
      /\ active + Len(files[active]) = zxid + 1 /\ active <= zxid
      /\ Sealed(files[active]) /\ zxid \notin acked
  BY ServingType DEF Inv, Buffering, Running, End
<1>2. Kept = {i \in Nat : \E k \in DOMAIN files : Reads(files[k], k, i)}
  BY KeptIs, GetsIs DEF Inv
<1>3. zxid \in Kept
  <2>1. zxid \in active..(active + Len(files[active]) - 1)
    BY <1>1
  <2>2. zxid - active + 1 \in 1..Len(files[active])
    BY <1>1
  <2>3. files[active][zxid - active + 1].lack = 0
    <3>1. files[active] \in Seq(Cell)
      BY <1>1, ActiveType
    <3> QED
      BY <1>1, <2>2, <3>1 DEF Sealed
  <2>4. Reads(files[active], active, zxid)
    BY <2>1, <2>3 DEF Reads
  <2> QED
    BY <1>1, <1>2, <2>4
<1>4. \A i \in Kept : i \in Nat /\ i <= zxid
  <2> SUFFICES ASSUME NEW i \in Kept PROVE i \in Nat /\ i <= zxid
    OBVIOUS
  <2>1. PICK k \in DOMAIN files : Reads(files[k], k, i) /\ i \in Nat
    BY <1>2
  <2>2. i < active + Len(files[active])
    BY <2>1, ReadBelow DEF Inv
  <2> QED
    BY <1>1, <2>1, <2>2
<1>5. \A i \in acked : i \in Nat /\ i <= zxid /\ i # zxid
  BY <1>1 DEF NoGap
<1>6. Promise!After(zxid, Kept \ {zxid}) /\ Promise!After(zxid, acked)
  BY <1>1, <1>4, <1>5 DEF Promise!After
<1>7. Promise!Acknowledge
  BY <1>3, <1>6 DEF Promise!Acknowledge
<1>8. zxid \in Index
  BY <1>1 DEF Inv, TypeOK, Index
<1>9. acked' \subseteq Kept' /\ acked' \subseteq Index /\ applied' \subseteq Index
  BY <1>3, <1>8 DEF Inv, Durable, TypeOK
<1> QED
  BY <1>1, <1>5, <1>7, <1>9

LEMMA FlushDoneStep == ASSUME Inv, FlushDone PROVE Inv' /\ WalStep
<1> USE DEF FlushDone, writer
<1>1. Kept' = Kept
  BY KeptIs
<1>2. /\ Promise!Acknowledge /\ acked' \subseteq Kept' /\ acked' \subseteq Index /\ applied' \subseteq Index
      /\ (\A i \in acked' : i \in Nat /\ i <= zxid) /\ stage' = "ready"
  BY <1>1, AcknowledgeStep DEF Acknowledge
<1>3. /\ DOMAIN files # {} /\ NoGap /\ active \in Nat /\ Len(files[active]) \in Nat /\ zxid \in Nat
      /\ active + Len(files[active]) = zxid + 1 /\ synced = Len(files[active])
  BY ServingType DEF Inv, Buffering, Running, End
<1>4. TypeOK'
  BY <1>2 DEF Inv, TypeOK, Stage
<1>5. Durable'
  BY <1>2, <1>3 DEF Durable
<1>6. Buffering'
  <2>1. NoGap'
    BY <1>2, <1>3 DEF NoGap, End
  <2> QED
    BY <1>2, <1>3, <2>1 DEF Buffering, Running
<1> QED
  BY <1>2, <1>4, <1>5, <1>6 DEF Inv, WalStep

LEMMA RotateStep == ASSUME Inv, Rotate PROVE Inv' /\ WalStep
<1> USE DEF Rotate
<1>1. /\ DOMAIN files # {} /\ active \in DOMAIN files /\ active \in Nat /\ Len(files[active]) \in Nat
      /\ zxid \in Nat /\ active + Len(files[active]) = zxid + 1 /\ active <= zxid /\ Sealed(files[active])
      /\ lastIndex = zxid /\ buf = <<>> /\ zxid <= MaxIndex
  BY ServingType DEF Inv, Buffering, Running, End, TypeOK
<1>2. PICK e : e = lastIndex + 1
  OBVIOUS
<1>3. e = active + Len(files[active]) /\ e <= MaxIndex + 1 /\ e = zxid + 1 /\ e \in Nat
      /\ files' = Put(files, e, <<>>) /\ active' = e /\ synced' = 0
  BY <1>1, <1>2, Typed
<1>4. files[active] # <<>>
  BY <1>1
<1>5. /\ Segments(files', e) /\ Gets(files') = Gets(files) /\ e \in DOMAIN files' /\ files'[e] = <<>>
  BY <1>1, <1>3, <1>4, SegmentAdded DEF Inv
<1>6. Kept' = Kept
  BY <1>5, KeptIs
<1>7. /\ Promise!Acknowledge /\ acked' \subseteq Kept' /\ acked' \subseteq Index /\ applied' \subseteq Index
      /\ (\A i \in acked' : i \in Nat /\ i <= zxid) /\ stage' = "ready"
  BY <1>6, AcknowledgeStep DEF Acknowledge
<1>8. Len(files'[active']) = 0 /\ active' \in DOMAIN files'
  BY <1>3, <1>5
<1>9. TypeOK'
  BY <1>3, <1>5, <1>7, <1>8 DEF Inv, TypeOK, Stage, Segments
<1>10. Durable'
  <2>1. active' + synced' = zxid + 1
    BY <1>1, <1>3
  <2>2. \A i \in acked' : i < active' + synced'
    BY <1>1, <1>7, <2>1
  <2> QED
    BY <1>7, <2>2 DEF Durable
<1>11. Buffering'
  <2>1. Len(buf') = 0 /\ DOMAIN buf' = {} /\ zxid' = zxid /\ End' = zxid + 1 + 0
    BY <1>1, <1>3, <1>8 DEF End
  <2>2. NoGap'
    BY <1>1, <1>3, <1>7, <2>1 DEF NoGap
  <2> QED
    BY <1>7, <1>8, <2>2 DEF Buffering, Running
<1> QED
  BY <1>3, <1>5, <1>7, <1>9, <1>10, <1>11 DEF Inv, WalStep

-----------------------------------------------------------------------------
(* Stopping. *)
LEMMA CrashStep == ASSUME Inv, Crash, sound' PROVE Inv' /\ WalStep
<1> USE DEF Crash
<1>1. stage # "down" /\ DOMAIN files # {}
  BY DEF Inv, Buffering
<1>2. /\ Segments(files', active') /\ Durable' /\ Promise!Keep
      /\ DOMAIN files' = DOMAIN files /\ synced' \in 0..Len(files'[active'])
      /\ active' \in DOMAIN files'
  <2>1. CASE stage = "appended"
    BY <2>1, PartKeeps DEF Applies
  <2>2. CASE UNCHANGED <<files, sound>>
    BY <1>1, <2>2, SameFiles, ActiveType DEF Applies
  <2> QED
    BY <2>1, <2>2
<1>3. TypeOK'
  <2>1. buf' \in Seq(Index)
    OBVIOUS
  <2> QED
    BY <1>2, <2>1 DEF Inv, TypeOK, Segments, Stage
<1>4. Buffering'
  BY <1>1, <1>2 DEF Buffering, Running
<1> QED
  BY <1>2, <1>3, <1>4 DEF Inv, WalStep

LEMMA PowerLossStep == ASSUME Inv, PowerLoss, sound' PROVE Inv' /\ WalStep
<1> USE DEF PowerLoss
<1>1. /\ active \in DOMAIN files /\ active \in Nat /\ files[active] \in Seq(Cell)
      /\ Len(files[active]) \in Nat /\ synced \in 0..Len(files[active])
  BY ActiveType
<1>2. PICK f \in Remnants(files[active], synced) : Leaves(f)
  OBVIOUS
<1>3. LeftOf(f, files[active], synced)
  BY <1>1, RemnantsAreLeft
<1>4. files' = [files EXCEPT ![active] = f]
  BY <1>2 DEF Leaves
<1>5. /\ Segments(files', active)
      /\ Gets(files') \subseteq Gets(files)
      /\ \A i \in Gets(files) \ Gets(files') : i >= active + synced /\ \A j \in Gets(files') : j < i
  BY <1>1, <1>3, <1>4, Shortened DEF Inv
<1>6. Kept = Gets(files) /\ Kept' = Gets(files')
  BY KeptIs
<1>7. acked \subseteq Kept'
  <2> SUFFICES ASSUME NEW i \in acked PROVE i \in Gets(files')
    BY <1>6
  <2>1. i \in Gets(files) /\ i < active + synced /\ i \in Nat
    BY <1>6 DEF Inv, Durable, TypeOK, Index
  <2>2. ~(i >= active + synced)
    BY <1>1, <2>1
  <2> QED
    BY <1>5, <2>1, <2>2
<1>8. Promise!Lose
  BY <1>5, <1>6, <1>7 DEF Promise!Lose, Promise!After
<1>9. Durable'
  BY <1>7 DEF Inv, Durable
<1>10. DOMAIN files' = DOMAIN files /\ files'[active] = f /\ synced' \in 0..Len(f)
  BY <1>1, <1>3, <1>4 DEF LeftOf
<1>11. TypeOK'
  <2>1. buf' \in Seq(Index)
    OBVIOUS
  <2> QED
    BY <1>1, <1>5, <1>10, <2>1 DEF Inv, TypeOK, Segments, Stage
<1>12. Buffering'
  BY <1>10 DEF Buffering, Running
<1> QED
  BY <1>5, <1>8, <1>9, <1>11, <1>12 DEF Inv, WalStep

-----------------------------------------------------------------------------
(* Starting. *)
LEMMA EmptyKept ==
  ASSUME NEW fs, \A k \in DOMAIN fs : fs[k] = <<>> PROVE Gets(fs) = {}
<1>1. \A k \in DOMAIN fs : Readable(fs[k]) = {}
  BY DEF Readable, ReadTo
<1>2. \A x \in UNION {Readable(fs[k]) : k \in DOMAIN fs} : FALSE
  BY <1>1
<1> QED
  BY <1>2 DEF Gets

LEMMA CreateFirstStep == ASSUME Inv, CreateFirst PROVE Inv' /\ WalStep
<1> USE DEF CreateFirst, history
<1>1. DOMAIN files' = {1} /\ files'[1] = <<>> /\ active' = 1 /\ synced' = 0 /\ stage' = "opened"
      /\ Len(files'[1]) = 0
  BY DEF Inv, Buffering, Put
<1>2. Kept = {} /\ Kept' = {}
  <2>1. Gets(files) = {} /\ Gets(files') = {}
    BY <1>1, EmptyKept
  <2> QED
    BY <2>1, KeptIs
<1>3. acked = {}
  BY <1>2 DEF Inv, Durable
<1>4. Segments(files', active')
  <2>1. <<>> \in Seq(Cell) /\ InStep(<<>>) /\ From(1, <<>>)
    BY DEF InStep, From
  <2>2. 1 \in 1..(MaxIndex + 1) /\ 1 <= 1
    BY Typed
  <2>3. files'[1] \in Seq(Cell) /\ InStep(files'[1]) /\ From(1, files'[1])
    BY <1>1, <2>1, Zenon
  <2> QED
    BY <1>1, <2>2, <2>3 DEF Segments
<1>5. TypeOK'
  BY <1>1, <1>4, Typed DEF Inv, TypeOK, Segments, Stage
<1>6. buf = <<>>
  BY DEF Inv, Buffering, Running
<1>7. Durable' /\ Buffering' /\ Promise!Keep
  BY <1>1, <1>2, <1>3, <1>6 DEF Durable, Buffering, Running, Promise!Keep
<1> QED
  BY <1>4, <1>5, <1>7 DEF Inv, WalStep

(* The directory's last segment is the one that was written to last. *)
LEMMA OpenLastStep == ASSUME Inv, OpenLast PROVE Inv' /\ WalStep
<1> USE DEF OpenLast, OpenSegment, history
<1>1. PICK k \in DOMAIN files : (\A j \in DOMAIN files : j <= k) /\ OpenSegment(k)
  OBVIOUS
<1>2. /\ active \in DOMAIN files /\ active \in Nat /\ files[active] \in Seq(Cell)
      /\ Len(files[active]) \in Nat /\ InStep(files[active]) /\ From(active, files[active])
      /\ active \in Nat \ {0}
  BY <1>1, ActiveType
<1>3. k = active
  <2>1. k \in Nat /\ k <= active /\ active <= k
    BY <1>1, <1>2, Typed DEF Inv, Segments
  <2> QED
    BY <1>2, <2>1
<1>4. ~Corrupt(files[k])
  BY <1>2, <1>3, ReadInStep
<1>5. /\ stage \in {"down", "failed"} /\ active' = active /\ written' = Len(files[active])
      /\ lastIndex' = LastRead(files[active]) /\ synced' = synced /\ stage' = "opened"
      /\ files' = files /\ buf' = buf /\ zxid' = zxid /\ acked' = acked /\ applied' = applied
  BY <1>1, <1>3, <1>4
<1>6. lastIndex' \in 0..MaxIndex
  BY <1>2, <1>5, LastReadIs
<1>7. TypeOK'
  BY <1>2, <1>5, <1>6 DEF Inv, TypeOK, Stage
<1>8. Buffering'
  BY <1>2, <1>5 DEF Inv, Buffering, Running
<1> QED
  BY <1>5, <1>7, <1>8, SameFiles DEF Inv, WalStep, Applies

(* The server comes up with the last zxid of the log, and no record of the *)
(* log is behind it.                                                       *)
LEMMA ReplayEnds ==
  ASSUME Inv, DOMAIN files # {},
         NEW z, z = IF NonEmpty = {} THEN 0 ELSE LastRead(files[Highest(NonEmpty)])
  PROVE  z \in 0..MaxIndex /\ active <= z + 1 /\ z + 1 <= End /\ \A i \in Kept : i \in Nat /\ i <= z
<1>1. /\ active \in DOMAIN files /\ active \in Nat \ {0} /\ files[active] \in Seq(Cell)
      /\ Len(files[active]) \in Nat /\ InStep(files[active]) /\ From(active, files[active])
  BY ActiveType
<1>2. \A k \in DOMAIN files : /\ k \in Nat \ {0} /\ k <= active /\ files[k] \in Seq(Cell)
                             /\ InStep(files[k]) /\ From(k, files[k])
                             /\ Readable(files[k]) = {i \in Nat : Reads(files[k], k, i)}
  BY Typed, ReadInStep DEF Inv, Segments
<1>3. Kept = {i \in Nat : \E k \in DOMAIN files : Reads(files[k], k, i)}
  BY KeptIs, GetsIs DEF Inv
<1>4. NonEmpty \in SUBSET Nat /\ NonEmpty \subseteq DOMAIN files
  BY <1>2 DEF NonEmpty
<1>5. CASE Readable(files[active]) # {}
  <2>1. active \in NonEmpty /\ \A j \in NonEmpty : j <= active
    BY <1>1, <1>2, <1>4, <1>5 DEF NonEmpty
  <2>2. Highest(NonEmpty) = active
    BY <1>4, <2>1, HighestIs
  <2>3. z = LastRead(files[active])
    BY <2>1, <2>2
  <2>4. /\ z \in 0..MaxIndex /\ active <= z /\ z < active + Len(files[active])
        /\ \A i \in Readable(files[active]) : i <= z
    BY <1>1, <1>5, <2>3, LastReadIs
  <2>5. ASSUME NEW i \in Kept PROVE i \in Nat /\ i <= z
    <3>1. PICK k \in DOMAIN files : Reads(files[k], k, i) /\ i \in Nat
      BY <1>3
    <3>2. CASE k = active
      BY <1>2, <2>4, <3>1, <3>2
    <3>3. CASE k # active
      <4>1. i < active
        BY <3>1, <3>3, ReadBelow DEF Inv
      <4> QED
        BY <1>1, <2>4, <3>1, <4>1
    <3> QED
      BY <3>2, <3>3
  <2> QED
    BY <1>1, <2>4, <2>5, Typed DEF End
<1>6. CASE Readable(files[active]) = {}
  <2>1. ASSUME NEW i \in Kept PROVE i \in Nat /\ i < active
    <3>1. PICK k \in DOMAIN files : Reads(files[k], k, i) /\ i \in Nat
      BY <1>3
    <3>2. k # active
      BY <1>2, <1>6, <3>1
    <3> QED
      BY <3>1, <3>2, ReadBelow DEF Inv
  <2>2. z = active - 1 /\ z \in 0..MaxIndex
    <3>1. CASE active = 1
      <4>1. NonEmpty = {}
        <5>1. \A k \in DOMAIN files : k = active
          BY <1>1, <1>2, <3>1
        <5> QED
          BY <1>6, <5>1 DEF NonEmpty
      <4> QED
        BY <3>1, <4>1, Typed
    <3>2. CASE active # 1
      <4>1. PICK j \in DOMAIN files : j < active /\ j + Len(files[j]) = active
        BY <1>1, <3>2 DEF Inv, Segments
      <4>2. Sealed(files[j]) /\ j \in Nat \ {0} /\ files[j] \in Seq(Cell) /\ Len(files[j]) \in Nat
            /\ InStep(files[j]) /\ From(j, files[j])
        BY <1>1, <1>2, <4>1 DEF Inv, Segments
      <4>3. active - 1 \in Readable(files[j])
        <5>1. active - 1 \in j..(j + Len(files[j]) - 1) /\ active - 1 \in Nat
              /\ active - 1 - j + 1 \in 1..Len(files[j])
          BY <1>1, <4>1, <4>2
        <5>2. files[j][active - 1 - j + 1].lack = 0
          BY <4>2, <5>1 DEF Sealed
        <5>3. Reads(files[j], j, active - 1)
          BY <5>1, <5>2 DEF Reads
        <5> QED
          BY <1>2, <5>1, <5>3
      <4>4. j \in NonEmpty
        BY <4>3 DEF NonEmpty
      <4>5. \A l \in NonEmpty : l <= j
        <5> SUFFICES ASSUME NEW l \in NonEmpty, l > j PROVE FALSE
          BY <1>2, <1>4, <4>2
        <5>1. l \in DOMAIN files /\ l # active /\ l \in Nat /\ l <= active
          BY <1>2, <1>4, <1>6 DEF NonEmpty
        <5>2. j + Len(files[j]) <= l
          BY <4>2, <5>1 DEF Inv, Segments
        <5> QED
          BY <1>1, <4>1, <5>1, <5>2
      <4>6. Highest(NonEmpty) = j
        BY <1>4, <4>4, <4>5, HighestIs
      <4>7. z = LastRead(files[j])
        BY <4>4, <4>6
      <4>8. /\ LastRead(files[j]) \in 0..MaxIndex /\ active - 1 <= LastRead(files[j])
            /\ LastRead(files[j]) < j + Len(files[j])
        BY <4>2, <4>3, LastReadIs
      <4> QED
        BY <1>1, <4>1, <4>2, <4>7, <4>8, Typed
    <3> QED
      BY <3>1, <3>2
  <2>3. z + 1 = active /\ active <= End /\ active <= active
    BY <1>1, <2>2 DEF End
  <2>4. ASSUME NEW i \in Kept PROVE i \in Nat /\ i <= z
    <3>1. i \in Nat /\ i < active /\ active \in Nat
      BY <1>1, <2>1
    <3> QED
      BY <2>2, <3>1
  <2> QED
    BY <2>2, <2>3, <2>4
<1> QED
  BY <1>5, <1>6

LEMMA ReplayStep == ASSUME Inv, Replay PROVE Inv' /\ WalStep
<1> USE DEF Replay, writer
<1>1. DOMAIN files # {} /\ stage = "opened"
  BY DEF Inv, Buffering
<1>2. \A k \in DOMAIN files : ~Corrupt(files[k])
  BY GetsIs DEF Inv
<1>3. /\ zxid' = (IF NonEmpty = {} THEN 0 ELSE LastRead(files[Highest(NonEmpty)]))
      /\ applied' = UNION {Readable(files[k]) : k \in DOMAIN files} /\ stage' = "ready"
  BY <1>2
<1>4. /\ zxid' \in 0..MaxIndex /\ active <= zxid' + 1 /\ zxid' + 1 <= End
      /\ \A i \in Kept : i \in Nat /\ i <= zxid'
  BY <1>1, <1>3, ReplayEnds
<1>5. applied' = Kept /\ Kept' = Kept
  BY <1>2, <1>3, KeptIs DEF Kept
<1>6. Kept \subseteq Index
  <2> SUFFICES ASSUME NEW i \in Kept PROVE i \in Index
    OBVIOUS
  <2>1. PICK k \in DOMAIN files : Reads(files[k], k, i) /\ i \in Nat
    BY KeptIs, GetsIs DEF Inv
  <2>2. i >= 1 /\ i <= MaxIndex
    BY <2>1, ReadBelow DEF Inv
  <2> QED
    BY <2>1, <2>2, Typed DEF Index
<1>7. TypeOK'
  BY <1>1, <1>3, <1>4, <1>5, <1>6 DEF Inv, TypeOK, Stage
<1>8. Durable'
  BY <1>5 DEF Inv, Durable
<1>9. Buffering'
  <2>1. buf = <<>> /\ Len(buf) = 0 /\ DOMAIN buf = {} /\ End' = End
    BY <1>1 DEF Inv, Buffering, Running, End
  <2>2. \A i \in acked : i <= zxid'
    BY <1>4 DEF Inv, Durable
  <2>3. zxid' + 1 - Len(buf) = zxid' + 1
    BY <1>4, <2>1, Typed
  <2>4. NoGap'
    BY <1>4, <2>1, <2>2, <2>3 DEF NoGap
  <2> QED
    BY <1>1, <1>3, <2>4 DEF Buffering, Running
<1>10. Promise!Recover
  BY <1>5 DEF Promise!Recover
<1> QED
  BY <1>7, <1>8, <1>9, <1>10 DEF Inv, WalStep

-----------------------------------------------------------------------------
(* Together. *)
LEMMA InitInv == ASSUME Init PROVE IInv /\ Promise!Init
<1> USE DEF Init
<1>1. DOMAIN files = {}
  OBVIOUS
<1>2. Kept = {}
  BY <1>1, EmptyKept, KeptIs
<1>3. TypeOK
  BY <1>1, Typed DEF TypeOK, Stage
<1>4. Segments(files, active)
  BY <1>1 DEF Segments
<1>5. Durable /\ Buffering
  BY <1>1, <1>2 DEF Durable, Buffering, Running
<1> QED
  BY <1>2, <1>3, <1>4, <1>5 DEF IInv, Inv, Promise!Init

LEMMA SoundLasts ==
  ASSUME Next, sound \in BOOLEAN PROVE sound' \in BOOLEAN /\ (sound' => sound)
<1>1. CASE UNCHANGED sound
  BY <1>1
<1>2. CASE \E f : Leaves(f)
  <2>1. PICK f : sound' = (sound /\ InStep(f))
    BY <1>2, Zenon DEF Leaves
  <2>2. (sound /\ InStep(f)) \in BOOLEAN
    BY Zenon
  <2>3. sound' \in BOOLEAN
    BY <2>1, <2>2, Zenon
  <2> QED
    BY <2>1, <2>3, Zenon
<1>3. CASE AppendRecord \/ SyncData \/ SyncFails \/ FlushDone \/ Rotate \/ RotateFails \/ CreateFirst
           \/ OpenLast \/ Replay
  BY <1>1, <1>3 DEF AppendRecord, SyncData, SyncFails, FlushDone, Rotate, RotateFails, CreateFirst,
     OpenLast, OpenSegment, Replay, Acknowledge, Unacknowledged, history
<1>4. CASE WriteAll \/ WriteFails \/ Crash \/ PowerLoss
  BY <1>1, <1>2, <1>4, Zenon DEF WriteAll, WriteFails, Crash, PowerLoss, PartWritten
<1> QED
  BY <1>3, <1>4 DEF Next

LEMMA SoundStep == ASSUME Inv, Next, sound' PROVE Inv' /\ WalStep
BY AppendRecordStep, WriteAllStep, WriteFailsStep, SyncDataStep, FailsStep, FlushDoneStep, RotateStep,
   CrashStep, PowerLossStep, CreateFirstStep, OpenLastStep, ReplayStep DEF Next

LEMMA NextInv == ASSUME IInv, [Next]_vars PROVE IInv'
<1>1. CASE UNCHANGED vars
  <2>1. Kept' = Kept
    BY <1>1, KeptIs DEF vars
  <2>2. sound' = sound /\ (Inv => Inv')
    BY <1>1, <2>1 DEF vars, Inv, TypeOK, Durable, Buffering, NoGap, End
  <2> QED
    BY <2>2 DEF IInv
<1>2. CASE Next
  BY <1>2, SoundLasts, SoundStep DEF IInv
<1> QED
  BY <1>1, <1>2

LEMMA SpecInv == Spec => []IInv
<1>1. Init => IInv
  BY InitInv
<1>2. IInv /\ [Next]_vars => IInv'
  BY NextInv
<1> QED
  BY <1>1, <1>2, PTL DEF Spec

(* A segment's name tells the range it covers: whatever fails and wherever *)
(* the process or the machine stops, its records ascend without a gap from *)
(* its name to the next segment's, so that replay reads them in the order  *)
(* they were written and rotation never empties a file.                    *)
THEOREM SegmentsAlwaysInOrder == Spec => []SegmentsInOrder
<1>1. IInv => SegmentsInOrder
  BY DEF IInv, Inv, Segments, SegmentsInOrder, From
<1> QED
  BY <1>1, SpecInv, PTL

(* The changelog implements the write-ahead log: appending, syncing,       *)
(* rotating, failing, stopping and starting are its steps, or none of it.  *)
THEOREM ChangelogImplementsWal == Spec => ImplementsWal
<1>1. Init => Promise!Init
  BY InitInv
<1>2. IInv /\ [Next]_vars => [Promise!Next]_Promise!vars
  <2> SUFFICES ASSUME IInv, [Next]_vars PROVE [Promise!Next]_Promise!vars
    OBVIOUS
  <2>1. CASE UNCHANGED vars
    BY <2>1, KeptIs DEF vars, Promise!vars
  <2>2. CASE Next /\ ~sound'
    BY <2>2, SoundLasts DEF IInv, Promise!Next, Promise!Off
  <2>3. CASE Next /\ sound'
    BY <2>3, SoundLasts, SoundStep DEF IInv, WalStep, Promise!Next, Promise!Keeping
  <2> QED
    BY <2>1, <2>2, <2>3
<1> QED
  BY <1>1, <1>2, SpecInv, PTL DEF Spec, ImplementsWal, Promise!Spec

-----------------------------------------------------------------------------
(* Types, sound or not. *)
LEMMA HasHighest ==
  ASSUME NEW S \in SUBSET Nat, IsFiniteSet(S), S # {}
  PROVE  Highest(S) \in S
<1> DEFINE Above(x) == {j \in S : x <= j}
           T == {Above(x) : x \in S}
<1>1. T \subseteq FiniteSubsetsOf(S) /\ T # {}
  <2>1. \A x \in S : Above(x) \subseteq S /\ IsFiniteSet(Above(x))
    BY FS_Subset
  <2> QED
    BY <2>1 DEF FiniteSubsetsOf
<1>2. IsWellFoundedOn(StrictSubsetOrdering(S), FiniteSubsetsOf(S))
  BY FS_StrictSubsetOrderingWellFounded
<1>3. PICK X \in T : \A Y \in T : <<Y, X>> \notin StrictSubsetOrdering(S)
  BY <1>1, <1>2, WFMin
<1>4. PICK m \in S : X = Above(m)
  OBVIOUS
<1>5. ASSUME NEW j \in S, ~(j <= m) PROVE FALSE
  <2>1. m < j /\ m \in Nat /\ j \in Nat
    BY <1>5
  <2>2. \A x \in Above(j) : x \in Above(m)
    BY <2>1
  <2>3. m \in Above(m) /\ m \notin Above(j)
    BY <2>1
  <2>4. <<Above(j), X>> \in StrictSubsetOrdering(S)
    BY <1>4, <2>2, <2>3 DEF StrictSubsetOrdering
  <2> QED
    BY <1>3, <2>4
<1>6. \A j \in S : j <= m
  BY <1>5
<1> QED
  BY <1>6, HighestIs

LEMMA LastReadType == ASSUME NEW f \in Seq(Cell) PROVE LastRead(f) \in 0..MaxIndex
<1>1. CASE ReadTo(f) = {}
  BY <1>1, Typed DEF LastRead
<1>2. CASE ReadTo(f) # {}
  <2>1. ReadTo(f) \subseteq 1..Len(f) /\ ReadTo(f) \in SUBSET Nat /\ Len(f) \in Nat
    BY DEF ReadTo
  <2>2. IsFiniteSet(1..Len(f))
    BY <2>1, FS_Interval
  <2>3. IsFiniteSet(ReadTo(f))
    BY <2>1, <2>2, FS_Subset
  <2>4. Highest(ReadTo(f)) \in 1..Len(f)
    BY <1>2, <2>1, <2>3, HasHighest
  <2>5. PICK h \in 1..Len(f) : h = Highest(ReadTo(f))
    BY <2>4
  <2>6. f[h] \in Cell
    OBVIOUS
  <2> QED
    BY <1>2, <2>5, <2>6, Typed DEF LastRead
<1> QED
  BY <1>1, <1>2

LEMMA ReadableType == ASSUME NEW f \in Seq(Cell) PROVE Readable(f) \subseteq Index
<1>1. \A j \in DOMAIN f : f[j] \in Cell
  OBVIOUS
<1> QED
  BY <1>1 DEF Readable, ReadTo, Cell

Types ==
  /\ TypeOK
  /\ DOMAIN files = {} => synced = 0
  /\ stage \in {"appended", "written", "synced"} => zxid # 0

(* What a write, a failure or a power loss does to the active segment. *)
LEMMA LeavesTypes ==
  ASSUME Types, NEW f \in Seq(Cell), Leaves(f), active \in DOMAIN files, active' = active,
         synced' = synced, synced <= Len(f), stage' \in Stage
  PROVE  /\ DOMAIN files' \subseteq 1..(MaxIndex + 1) /\ \A k \in DOMAIN files' : files'[k] \in Seq(Cell)
         /\ DOMAIN files' # {} /\ active' \in DOMAIN files' /\ synced' \in 0..Len(files'[active'])
<1>1. DOMAIN files' = DOMAIN files /\ files'[active] = f
      /\ \A k \in DOMAIN files \ {active} : files'[k] = files[k]
  BY DEF Leaves
<1>2. synced \in Nat /\ Len(f) \in Nat
  BY DEF Types, TypeOK
<1>3. DOMAIN files \subseteq 1..(MaxIndex + 1) /\ \A k \in DOMAIN files : files[k] \in Seq(Cell)
  BY DEF Types, TypeOK
<1>4. \A k \in DOMAIN files' : files'[k] \in Seq(Cell)
  BY <1>1, <1>3
<1>5. synced' \in 0..Len(files'[active'])
  BY <1>1, <1>2
<1> QED
  BY <1>1, <1>3, <1>4, <1>5

LEMMA PartTypes ==
  ASSUME Types, stage = "appended", (UNCHANGED <<files, sound>>) \/ PartWritten \/ Leaves(WithBuffer),
         active' = active, synced' = synced, stage' \in Stage
  PROVE  /\ DOMAIN files' \subseteq 1..(MaxIndex + 1) /\ \A k \in DOMAIN files' : files'[k] \in Seq(Cell)
         /\ DOMAIN files' # {} /\ active' \in DOMAIN files' /\ synced' \in 0..Len(files'[active'])
<1>1. /\ active \in DOMAIN files /\ files[active] \in Seq(Cell) /\ buf \in Seq(Index)
      /\ synced \in 0..Len(files[active]) /\ Len(files[active]) \in Nat /\ Len(buf) \in Nat
  BY DEF Types, TypeOK
<1>2. WithBuffer \in Seq(Cell) /\ Len(WithBuffer) = Len(files[active]) + Len(buf)
  BY <1>1, Buffered DEF WithBuffer
<1>3. CASE UNCHANGED <<files, sound>>
  BY <1>1, <1>3 DEF Types, TypeOK
<1>4. CASE Leaves(WithBuffer)
  <2>1. synced <= Len(WithBuffer)
    BY <1>1, <1>2
  <2> QED
    BY <1>1, <1>2, <1>4, <2>1, LeavesTypes
<1>5. CASE PartWritten
  <2>1. PICK f \in Remnants(WithBuffer, Len(files[active])) : Leaves(f)
    BY <1>5 DEF PartWritten
  <2>2. Len(files[active]) \in 0..Len(WithBuffer)
    BY <1>1, <1>2
  <2>3. LeftOf(f, WithBuffer, Len(files[active]))
    BY <1>2, <2>2, RemnantsAreLeft
  <2>4. f \in Seq(Cell) /\ Len(f) \in Nat /\ Len(files[active]) <= Len(f)
    BY <2>3 DEF LeftOf
  <2>5. synced <= Len(f)
    BY <1>1, <2>4
  <2> QED
    BY <1>1, <2>1, <2>4, <2>5, LeavesTypes
<1> QED
  BY <1>3, <1>4, <1>5

LEMMA UnacknowledgedTypes ==
  ASSUME Types, stage \in {"appended", "written", "synced"}, Unacknowledged
  PROVE  applied' \subseteq Index
<1>1. zxid \in Index
  BY Typed DEF Types, TypeOK, Index
<1> QED
  BY <1>1 DEF Unacknowledged, Types, TypeOK

LEMMA RequestTypes ==
  ASSUME Types,
         AppendRecord \/ WriteAll \/ WriteFails \/ SyncData \/ SyncFails \/ FlushDone \/ RotateFails
  PROVE  Types'
<1> USE DEF Stage, writer, history
<1>1. CASE AppendRecord
  <2>1. zxid + 1 \in Index /\ zxid + 1 \in 0..MaxIndex /\ buf \in Seq(Index) /\ written + 1 \in Nat
    BY <1>1, Typed DEF AppendRecord, Types, TypeOK, Index
  <2>2. buf' \in Seq(Index)
    BY <1>1, <2>1, AppendProperties DEF AppendRecord
  <2> QED
    BY <1>1, <2>1, <2>2 DEF AppendRecord, Types, TypeOK
<1>2. CASE WriteAll
  <2>1. /\ DOMAIN files' \subseteq 1..(MaxIndex + 1) /\ \A k \in DOMAIN files' : files'[k] \in Seq(Cell)
        /\ DOMAIN files' # {} /\ active' \in DOMAIN files' /\ synced' \in 0..Len(files'[active'])
    BY <1>2, PartTypes DEF WriteAll
  <2> QED
    BY <1>2, <2>1 DEF WriteAll, Types, TypeOK
<1>3. CASE WriteFails
  <2>1. /\ DOMAIN files' \subseteq 1..(MaxIndex + 1) /\ \A k \in DOMAIN files' : files'[k] \in Seq(Cell)
        /\ DOMAIN files' # {} /\ active' \in DOMAIN files' /\ synced' \in 0..Len(files'[active'])
    BY <1>3, PartTypes DEF WriteFails, Unacknowledged
  <2>2. applied' \subseteq Index
    BY <1>3, UnacknowledgedTypes DEF WriteFails
  <2> QED
    BY <1>3, <2>1, <2>2 DEF WriteFails, Unacknowledged, Types, TypeOK
<1>4. CASE SyncData
  <2>1. active \in DOMAIN files /\ Len(files[active]) \in Nat /\ buf' \in Seq(Index)
    BY <1>4 DEF SyncData, Types, TypeOK
  <2> QED
    BY <1>4, <2>1 DEF SyncData, Types, TypeOK
<1>5. CASE SyncFails \/ RotateFails
  <2>1. applied' \subseteq Index
    BY <1>5, UnacknowledgedTypes DEF SyncFails, RotateFails
  <2> QED
    BY <1>5, <2>1 DEF SyncFails, RotateFails, Unacknowledged, Types, TypeOK
<1>6. CASE FlushDone
  <2>1. zxid \in Index
    BY <1>6 DEF FlushDone, Types, TypeOK, Index
  <2> QED
    BY <1>6, <2>1 DEF FlushDone, Acknowledge, Types, TypeOK
<1> QED
  BY <1>1, <1>2, <1>3, <1>4, <1>5, <1>6

LEMMA OtherTypes ==
  ASSUME Types, Rotate \/ Crash \/ PowerLoss \/ CreateFirst \/ OpenLast \/ Replay
  PROVE  Types'
<1> USE DEF Stage, writer, history
<1>1. CASE Rotate
  <2>1. zxid \in Index /\ lastIndex + 1 \in 1..(MaxIndex + 1)
    BY <1>1, Typed DEF Rotate, Types, TypeOK, Index
  <2>2. PICK e : e = lastIndex + 1
    OBVIOUS
  <2>3. /\ DOMAIN files' = DOMAIN files \cup {e} /\ files'[e] = <<>>
        /\ \A k \in DOMAIN files \ {e} : files'[k] = files[k]
    BY <1>1, <2>2 DEF Rotate, Put
  <2>4. <<>> \in Seq(Cell) /\ Len(files'[e]) = 0
    BY <2>3
  <2>5. \A k \in DOMAIN files' : files'[k] \in Seq(Cell)
    BY <2>3, <2>4 DEF Types, TypeOK
  <2>6. DOMAIN files' \subseteq 1..(MaxIndex + 1) /\ active' \in DOMAIN files'
        /\ synced' \in 0..Len(files'[active'])
    BY <1>1, <2>1, <2>2, <2>3, <2>4 DEF Rotate, Types, TypeOK
  <2> QED
    BY <1>1, <2>1, <2>5, <2>6 DEF Rotate, Acknowledge, Types, TypeOK
<1>2. CASE Crash
  <2>1. buf' \in Seq(Index)
    BY <1>2 DEF Crash
  <2>2. /\ DOMAIN files' \subseteq 1..(MaxIndex + 1) /\ \A k \in DOMAIN files' : files'[k] \in Seq(Cell)
        /\ DOMAIN files' # {} /\ active' \in DOMAIN files' /\ synced' \in 0..Len(files'[active'])
    <3>1. CASE UNCHANGED files
      BY <1>2, <3>1 DEF Crash, Types, TypeOK
    <3>2. CASE stage = "appended"
      BY <1>2, <3>2, PartTypes DEF Crash
    <3> QED
      BY <1>2, <3>1, <3>2 DEF Crash
  <2> QED
    BY <1>2, <2>1, <2>2 DEF Crash, Types, TypeOK
<1>3. CASE PowerLoss
  <2>1. PICK f \in Remnants(files[active], synced) : Leaves(f)
    BY <1>3 DEF PowerLoss
  <2>2. active \in DOMAIN files /\ files[active] \in Seq(Cell) /\ synced \in 0..Len(files[active])
    BY <1>3 DEF PowerLoss, Types, TypeOK
  <2>3. f \in Seq(Cell) /\ synced <= Len(f)
    BY <2>2, RemnantsAreLeft DEF LeftOf
  <2>4. /\ DOMAIN files' \subseteq 1..(MaxIndex + 1) /\ \A k \in DOMAIN files' : files'[k] \in Seq(Cell)
        /\ DOMAIN files' # {} /\ active' \in DOMAIN files' /\ synced' \in 0..Len(files'[active'])
    BY <1>3, <2>1, <2>2, <2>3, LeavesTypes DEF PowerLoss
  <2>5. buf' \in Seq(Index)
    BY <1>3 DEF PowerLoss
  <2> QED
    BY <1>3, <2>4, <2>5 DEF PowerLoss, Types, TypeOK
<1>4. CASE CreateFirst
  <2>1. DOMAIN files' = {1} /\ files'[1] = <<>> /\ active' = 1 /\ synced' = 0 /\ stage' = "opened"
        /\ Len(files'[1]) = 0
    BY <1>4 DEF CreateFirst, Put, Types
  <2>2. <<>> \in Seq(Cell) /\ 1 \in 1..(MaxIndex + 1)
    BY Typed
  <2>3. files'[1] \in Seq(Cell)
    BY <2>1, <2>2, Zenon
  <2> QED
    BY <1>4, <2>1, <2>2, <2>3, Typed DEF CreateFirst, Types, TypeOK
<1>5. CASE OpenLast
  <2>1. PICK k \in DOMAIN files : OpenSegment(k)
    BY <1>5 DEF OpenLast
  <2>2. files[k] \in Seq(Cell) /\ Len(files[k]) \in Nat /\ LastRead(files[k]) \in 0..MaxIndex
    BY LastReadType DEF Types, TypeOK
  <2>3. CASE Corrupt(files[k])
    <3>1. /\ stage' = "failed" /\ UNCHANGED <<synced, active, written, lastIndex>>
          /\ UNCHANGED <<files, buf, zxid, history>>
      BY <2>1, <2>3 DEF OpenSegment
    <3> QED
      BY <3>1 DEF Types, TypeOK, history, Stage
  <2>4. CASE ~Corrupt(files[k])
    <3>1. /\ active' = k /\ written' = Len(files[k]) /\ lastIndex' = LastRead(files[k])
          /\ synced' = (IF k = active THEN synced ELSE Len(files[k]))
          /\ stage' = "opened" /\ UNCHANGED <<files, buf, zxid, history>>
      BY <2>1, <2>4 DEF OpenSegment
    <3>2. synced' \in 0..Len(files[active'])
      BY <2>2, <3>1 DEF Types, TypeOK
    <3> QED
      BY <2>2, <3>1, <3>2 DEF Types, TypeOK, history, Stage
  <2> QED
    BY <2>3, <2>4
<1>6. CASE Replay
  <2>1. \A k \in DOMAIN files : files[k] \in Seq(Cell) /\ Readable(files[k]) \subseteq Index
    BY ReadableType DEF Types, TypeOK
  <2>2. UNION {Readable(files[k]) : k \in DOMAIN files} \subseteq Index
    BY <2>1
  <2>3. NonEmpty # {} => LastRead(files[Highest(NonEmpty)]) \in 0..MaxIndex
    <3>1. NonEmpty \in SUBSET (1..(MaxIndex + 1)) /\ NonEmpty \subseteq DOMAIN files
      BY DEF NonEmpty, Types, TypeOK
    <3>2. IsFiniteSet(1..(MaxIndex + 1)) /\ NonEmpty \in SUBSET Nat
      BY <3>1, FS_Interval, Typed
    <3>3. IsFiniteSet(NonEmpty)
      BY <3>1, <3>2, FS_Subset
    <3>4. NonEmpty # {} => Highest(NonEmpty) \in DOMAIN files
      BY <3>1, <3>2, <3>3, HasHighest
    <3> QED
      BY <2>1, <3>4, LastReadType
  <2> QED
    BY <1>6, <2>2, <2>3, Typed DEF Replay, Types, TypeOK
<1> QED
  BY <1>1, <1>2, <1>3, <1>4, <1>5, <1>6

(* Whatever the log has become, torn and written over included, a server   *)
(* that runs has the segment it writes to, and what is synced lies within  *)
(* it: no failed write, rotation or start leaves the writer without one.   *)
THEOREM LogTypeCorrect == Spec => []TypeOK
<1>1. Init => Types
  BY Typed DEF Init, Types, TypeOK, Stage
<1>2. Types /\ [Next]_vars => Types'
  <2>1. ASSUME Types, UNCHANGED vars PROVE Types'
    BY <2>1 DEF vars, Types, TypeOK
  <2> QED
    BY <2>1, RequestTypes, OtherTypes DEF Next
<1>3. Types => TypeOK
  BY DEF Types
<1> QED
  BY <1>1, <1>2, <1>3, PTL DEF Spec
=============================================================================
