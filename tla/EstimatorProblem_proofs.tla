------------------------ MODULE EstimatorProblem_proofs ------------------------
(***************************************************************************)
(* Proofs about EstimatorProblem: for all distances of knots and orders of *)
(* the splines, all lengths of windows, whatever stamps the measurements   *)
(* have, and however many windows there are.                               *)
(*                                                                         *)
(* The argument goes from the inside out.  A meta of one time or two holds *)
(* the knots of these times, each once, where SplineIndex says they are;   *)
(* so the blocks of a factor are what its declaration and its reads say    *)
(* (Fit), and the blocks the splines have (Sound); so problems are made of *)
(* sound factors (ProblemSound), whatever was measured.  What the model's  *)
(* windows add to that is the range of the times and what the splines and  *)
(* filters have become: the rest of the inductive invariant.               *)
(***************************************************************************)
EXTENDS EstimatorProblem, SequenceTheorems, FiniteSetTheorems, WellFoundedInduction, TLAPS

\* m knots of spline s in a row.
Run(s, i, m) == [j \in 1 .. m |-> Knot(s, i + j - 1)]

\* Whatever a factor may be given.
Blocks == (Splines \X Nat) \union {Ba, Bv, Gravity}

\* No block is there twice.
Distinct(q) == \A i, j \in 1 .. Len(q) : q[i] = q[j] => i = j

\* Whether r reads from the blocks what it means to.
Finds(blocks, r) ==
  /\ r.at \in Nat /\ r.want \in Seq(Blocks) /\ Len(r.want) \in Nat
  /\ r.at + Len(r.want) <= Len(blocks)
  /\ \A k \in 1 .. Len(r.want) : blocks[r.at + k] = r.want[k]

\* The knots a spline is evaluated from at time t.
KnotsFor(s, t) == ComputeTIndex(s, t) .. ComputeTIndex(s, t) + Order - 1

\* The blocks of the knots of spline s for the times T.
KnotsAt(s, T) == UNION {{Knot(s, k) : k \in KnotsFor(s, t)} : t \in T}

\* What the blocks of a meta of spline s must be for the times T.
MetaFor(s, meta, T) ==
  LET q == KnotsData(s, meta)
  IN /\ q \in Seq({s} \X Nat) /\ NumParameters(meta) = Len(q) /\ Distinct(q)
     /\ \A t \in T : Finds(q, ReadSpline(SplineIndex(s, meta, t), s, t))
     /\ ToSet(q) = KnotsAt(s, T)

\* The sizes the blocks have.
SizesOf(blocks) == [i \in DOMAIN blocks |-> SizeOf[blocks[i][1]]]

\* Blocks, each handed over once, of the sizes declared, with what is to be read.
Fit(blocks, declared, reads) ==
  /\ blocks \in Seq(Blocks) /\ Distinct(blocks)
  /\ declared = SizesOf(blocks)
  /\ \A r \in reads : Finds(blocks, r)

\* The knots among the blocks are knots their splines have.
Within(n, blocks) == \A b \in blocks : b[1] \in Splines => b[2] \in 0 .. n[b[1]] - 1

\* What a problem over splines of n[s] knots may hold.
Sound(f, n) == Fit(f.blocks, f.declared, f.reads) /\ Within(n, ToSet(f.blocks))

-------------------------------------------------------------------------------
(* What the folds come to, for the lengths there are: induction over data  *)
(* is not needed.                                                          *)

\* The subsets of the indices of one or two elements.
LEMMA FewElements ==
  /\ \A S \in SUBSET {1, 2} : S = {} \/ S = {1} \/ S = {2} \/ S = {1, 2}
  /\ Max({1}) = 1 /\ Max({2}) = 2 /\ Max({1, 2}) = 2
  /\ {1} \ {1} = {} /\ {2} \ {2} = {} /\ {1, 2} \ {2} = {1}
  /\ {1} # {} /\ {2} # {} /\ {1, 2} # {} /\ {1} # {2} /\ {1} # {1, 2} /\ {2} # {1, 2}
<1>1. Max({1}) = 1 /\ Max({2}) = 2 /\ Max({1, 2}) = 2
  BY DEF Max
<1>2. \A S \in SUBSET {1, 2} : S = {} \/ S = {1} \/ S = {2} \/ S = {1, 2}
  OBVIOUS
<1> QED
  BY <1>1, <1>2

\* The number of blocks of a meta of at most two segments.
LEMMA NumParametersOf ==
  ASSUME NEW q, DOMAIN q = {} \/ DOMAIN q = {1} \/ DOMAIN q = {1, 2}
  PROVE  /\ DOMAIN q = {} => NumParameters(q) = 0
         /\ DOMAIN q = {1} => NumParameters(q) = 0 + q[1].n
         /\ DOMAIN q = {1, 2} => NumParameters(q) = 0 + q[1].n + q[2].n
<1> DEFINE D == DOMAIN q
           Op(v, i) == v + q[i].n
           B == 0
           G(h) == [S \in SUBSET D |-> IF S = {} THEN B ELSE Op(h[S \ {Max(S)}], Max(S))]
           f == [S \in SUBSET D |-> IF S = {} THEN B
                                    ELSE IF S = {1, 2} THEN Op(Op(B, 1), 2)
                                    ELSE Op(B, Max(S))]
           g == CHOOSE h : h = G(h)
<1>1. NumParameters(q) = g[D]
  BY DEF NumParameters, FoldLeft, MapThenFoldSet
<1> HIDE DEF D, Op, B
<1>2. \A S \in SUBSET D : f[S] = IF S = {} THEN B ELSE Op(f[S \ {Max(S)}], Max(S))
  <2> TAKE S \in SUBSET D
  <2>1. S \ {Max(S)} \in SUBSET D /\ (S = {} \/ S = {1} \/ S = {2} \/ S = {1, 2})
    BY FewElements DEF D
  <2>2. CASE S = {1, 2}
    BY <2>1, <2>2, FewElements
  <2>3. CASE S \in {{1}, {2}}
    BY <2>1, <2>3, FewElements
  <2> QED
    BY <2>1, <2>2, <2>3
<1>3. g = G(g)
  <2>1. f = G(f)
    BY <1>2, Zenon
  <2> QED
    BY <2>1
<1> HIDE DEF g
<1>4. /\ g[{}] = B
      /\ 1 \in D => g[{1}] = Op(g[{}], 1)
      /\ {1, 2} \in SUBSET D => g[{1, 2}] = Op(g[{1}], 2)
  <2>1. \A S \in SUBSET D : g[S] = IF S = {} THEN B ELSE Op(g[S \ {Max(S)}], Max(S))
    BY <1>3
  <2>2. g[{}] = B
    BY <2>1
  <2>3. 1 \in D => g[{1}] = Op(g[{}], 1)
    BY <2>1, FewElements
  <2>4. {1, 2} \in SUBSET D => g[{1, 2}] = Op(g[{1}], 2)
    BY <2>1, FewElements
  <2> QED
    BY <2>2, <2>3, <2>4
<1> QED
  BY <1>1, <1>4 DEF D, Op, B

\* The blocks of a meta of at most two segments.
LEMMA KnotsDataOf ==
  ASSUME NEW s, NEW q, DOMAIN q = {} \/ DOMAIN q = {1} \/ DOMAIN q = {1, 2}
  PROVE  /\ DOMAIN q = {1} => KnotsData(s, q) = << >> \o [j \in 1 .. q[1].n |-> Knot(s, q[1].first + j - 1)]
         /\ DOMAIN q = {1, 2} => KnotsData(s, q) = (<< >> \o [j \in 1 .. q[1].n |-> Knot(s, q[1].first + j - 1)])
                                    \o [j \in 1 .. q[2].n |-> Knot(s, q[2].first + j - 1)]
<1> DEFINE D == DOMAIN q
           Op(v, i) == v \o [j \in 1 .. q[i].n |-> Knot(s, q[i].first + j - 1)]
           B == << >>
           G(h) == [S \in SUBSET D |-> IF S = {} THEN B ELSE Op(h[S \ {Max(S)}], Max(S))]
           f == [S \in SUBSET D |-> IF S = {} THEN B
                                    ELSE IF S = {1, 2} THEN Op(Op(B, 1), 2)
                                    ELSE Op(B, Max(S))]
           g == CHOOSE h : h = G(h)
<1>1. KnotsData(s, q) = g[D]
  BY DEF KnotsData, FoldLeft, MapThenFoldSet
<1> HIDE DEF D, Op, B
<1>2. \A S \in SUBSET D : f[S] = IF S = {} THEN B ELSE Op(f[S \ {Max(S)}], Max(S))
  <2> TAKE S \in SUBSET D
  <2>1. S \ {Max(S)} \in SUBSET D /\ (S = {} \/ S = {1} \/ S = {2} \/ S = {1, 2})
    BY FewElements DEF D
  <2>2. CASE S = {1, 2}
    BY <2>1, <2>2, FewElements
  <2>3. CASE S \in {{1}, {2}}
    BY <2>1, <2>3, FewElements
  <2> QED
    BY <2>1, <2>2, <2>3
<1>3. g = G(g)
  <2>1. f = G(f)
    BY <1>2, Zenon
  <2> QED
    BY <2>1
<1> HIDE DEF g
<1>4. /\ g[{}] = B
      /\ 1 \in D => g[{1}] = Op(g[{}], 1)
      /\ {1, 2} \in SUBSET D => g[{1, 2}] = Op(g[{1}], 2)
  <2>1. \A S \in SUBSET D : g[S] = IF S = {} THEN B ELSE Op(g[S \ {Max(S)}], Max(S))
    BY <1>3
  <2>2. g[{}] = B
    BY <2>1
  <2>3. 1 \in D => g[{1}] = Op(g[{}], 1)
    BY <2>1, FewElements
  <2>4. {1, 2} \in SUBSET D => g[{1, 2}] = Op(g[{1}], 2)
    BY <2>1, FewElements
  <2> QED
    BY <2>2, <2>3, <2>4
<1> QED
  BY <1>1, <1>4 DEF D, Op, B

\* The meta of at most two times.
LEMMA SplineMetaOf ==
  ASSUME NEW s, NEW q, DOMAIN q = {} \/ DOMAIN q = {1} \/ DOMAIN q = {1, 2}
  PROVE  /\ DOMAIN q = {1} => SplineMeta(s, q) = AddSegment(s, << >>, q[1])
         /\ DOMAIN q = {1, 2} => SplineMeta(s, q) = AddSegment(s, AddSegment(s, << >>, q[1]), q[2])
<1> DEFINE D == DOMAIN q
           Op(v, i) == AddSegment(s, v, q[i])
           B == << >>
           G(h) == [S \in SUBSET D |-> IF S = {} THEN B ELSE Op(h[S \ {Max(S)}], Max(S))]
           f == [S \in SUBSET D |-> IF S = {} THEN B
                                    ELSE IF S = {1, 2} THEN Op(Op(B, 1), 2)
                                    ELSE Op(B, Max(S))]
           g == CHOOSE h : h = G(h)
<1>1. SplineMeta(s, q) = g[D]
  BY DEF SplineMeta, FoldLeft, MapThenFoldSet
<1> HIDE DEF D, Op, B
<1>2. \A S \in SUBSET D : f[S] = IF S = {} THEN B ELSE Op(f[S \ {Max(S)}], Max(S))
  <2> TAKE S \in SUBSET D
  <2>1. S \ {Max(S)} \in SUBSET D /\ (S = {} \/ S = {1} \/ S = {2} \/ S = {1, 2})
    BY FewElements DEF D
  <2>2. CASE S = {1, 2}
    BY <2>1, <2>2, FewElements
  <2>3. CASE S \in {{1}, {2}}
    BY <2>1, <2>3, FewElements
  <2> QED
    BY <2>1, <2>2, <2>3
<1>3. g = G(g)
  <2>1. f = G(f)
    BY <1>2, Zenon
  <2> QED
    BY <2>1
<1> HIDE DEF g
<1>4. /\ g[{}] = B
      /\ 1 \in D => g[{1}] = Op(g[{}], 1)
      /\ {1, 2} \in SUBSET D => g[{1, 2}] = Op(g[{1}], 2)
  <2>1. \A S \in SUBSET D : g[S] = IF S = {} THEN B ELSE Op(g[S \ {Max(S)}], Max(S))
    BY <1>3
  <2>2. g[{}] = B
    BY <2>1
  <2>3. 1 \in D => g[{1}] = Op(g[{}], 1)
    BY <2>1, FewElements
  <2>4. {1, 2} \in SUBSET D => g[{1, 2}] = Op(g[{1}], 2)
    BY <2>1, FewElements
  <2> QED
    BY <2>2, <2>3, <2>4
<1> QED
  BY <1>1, <1>4 DEF D, Op, B

-------------------------------------------------------------------------------
(* Metas of one or two times.                                              *)

USE DEF Knot, Read

\* The constants of the splines, in one place.
LEMMA SplineConstants ==
  /\ \A s \in Splines : KnotDist[s] \in Nat \ {0}
  /\ KnotDist["grav"] = KnotDist["so3"] /\ KnotDist["so3"] % KnotDist["vel"] = 0
  /\ Order \in Nat /\ Order > 1
BY SplineAssumption

\* A time that is not negative has a first knot, and later ones no earlier one.
LEMMA Indices ==
  ASSUME NEW s \in Splines, NEW t \in Nat
  PROVE  /\ ComputeTIndex(s, t) \in Nat
         /\ \A u \in Nat : t <= u => ComputeTIndex(s, t) <= ComputeTIndex(s, u)
<1>1. KnotDist[s] \in Nat \ {0}
  BY SplineConstants
<1>2. \A d \in Nat \ {0} : t \div d \in Nat /\ \A u \in Nat : t <= u => t \div d <= u \div d
  OBVIOUS
<1> QED
  BY <1>1, <1>2 DEF ComputeTIndex

\* What a meta is made of.
Segment == [first : Nat, n : Nat]

\* The numbers of a segment.
LEMMA SegmentNumbers ==
  ASSUME NEW meta \in Seq(Segment), NEW j \in 1 .. Len(meta)
  PROVE  meta[j].first \in Nat /\ meta[j].n \in Nat
<1>1. meta[j] \in Segment
  BY ElementOfSeq
<1> QED
  BY <1>1 DEF Segment

\* Where the knots of a time begin, in a meta of one segment or two.
LEMMA SplineIndexIn ==
  ASSUME NEW s, NEW t, ComputeTIndex(s, t) \in Nat, NEW meta \in Seq(Segment), Len(meta) \in {1, 2}
  PROVE  LET i == ComputeTIndex(s, t)
             Holds(seg) == i \in seg.first .. seg.first + seg.n - Order
         IN /\ Holds(meta[1]) => SplineIndex(s, meta, t) = i - meta[1].first
            /\ Len(meta) = 2 /\ ~ Holds(meta[1]) /\ Holds(meta[2]) =>
                 SplineIndex(s, meta, t) = meta[1].n + i - meta[2].first
<1> DEFINE i == ComputeTIndex(s, t)
           Holds(seg) == i \in seg.first .. seg.first + seg.n - Order
           I == {j \in 1 .. Len(meta) : Holds(meta[j])}
           k == IF I # {} THEN Min(I) ELSE 0
<1>1. SplineIndex(s, meta, t) = NumParameters(SubSeq(meta, 1, k - 1)) + i - meta[k].first
  BY DEF SplineIndex, SelectInSeq
<1>2. i \in Nat /\ meta[1].first \in Nat /\ meta[1].n \in Nat
  BY SegmentNumbers
<1>3. Len(meta) = 2 => meta[2].first \in Nat
  BY SegmentNumbers
<1> HIDE DEF i, Holds
<1>4. SubSeq(meta, 1, 0) = << >> /\ NumParameters(<< >>) = 0
  BY SubSeqEmpty, NumParametersOf
<1>5. NumParameters(SubSeq(meta, 1, 1)) = meta[1].n
  <2>1. /\ SubSeq(meta, 1, 1) \in Seq(Segment) /\ Len(SubSeq(meta, 1, 1)) = 1
        /\ SubSeq(meta, 1, 1)[1] = meta[1]
    <3>1. \A j \in 1 .. 1 : meta[j] \in Segment
      OBVIOUS
    <3> QED
      BY <3>1, SubSeqProperties
  <2>2. DOMAIN SubSeq(meta, 1, 1) = {1}
    BY <2>1
  <2>3. NumParameters(SubSeq(meta, 1, 1)) = 0 + meta[1].n
    BY <2>1, <2>2, NumParametersOf
  <2> QED
    BY <1>2, <2>3
<1>6. Min({1}) = 1 /\ Min({2}) = 2 /\ Min({1, 2}) = 1
  BY DEF Min
<1>7. ASSUME Holds(meta[1])
      PROVE  SplineIndex(s, meta, t) = i - meta[1].first
  <2>1. I = {1} \/ I = {1, 2}
    BY <1>7
  <2> HIDE DEF I
  <2>2. k = 1
    BY <1>6, <2>1
  <2>3. k - 1 = 0
    BY <2>2
  <2> HIDE DEF k
  <2>4. SplineIndex(s, meta, t) = 0 + i - meta[1].first
    BY <1>1, <1>4, <2>2, <2>3
  <2> QED
    BY <1>2, <2>4
<1>8. ASSUME Len(meta) = 2, ~ Holds(meta[1]), Holds(meta[2])
      PROVE  SplineIndex(s, meta, t) = meta[1].n + i - meta[2].first
  <2>1. I = {2}
    BY <1>8
  <2> HIDE DEF I
  <2>2. k = 2
    BY <1>6, <2>1
  <2>3. k - 1 = 1
    BY <2>2
  <2> HIDE DEF k
  <2> QED
    BY <1>1, <1>2, <1>3, <1>5, <2>2, <2>3
<1> QED
  BY <1>7, <1>8 DEF i, Holds

\* The knots of a run.
LEMMA RunIs ==
  ASSUME NEW s, NEW i \in Nat, NEW m \in Nat
  PROVE  /\ Run(s, i, m) \in Seq({s} \X Nat) /\ Len(Run(s, i, m)) = m
         /\ \A j \in 1 .. m : Run(s, i, m)[j] = <<s, i + j - 1>>
         /\ Distinct(Run(s, i, m))
<1>1. Run(s, i, m) \in Seq({s} \X Nat) /\ Len(Run(s, i, m)) = m
  BY DEF Run
<1>2. \A j \in 1 .. m : Run(s, i, m)[j] = <<s, i + j - 1>>
  BY DEF Run
<1>3. Distinct(Run(s, i, m))
  BY <1>1, <1>2 DEF Distinct
<1> QED
  BY <1>1, <1>2, <1>3

\* The blocks of a run.
LEMMA RunHas ==
  ASSUME NEW s, NEW i \in Nat, NEW m \in Nat, NEW b
  PROVE  b \in ToSet(Run(s, i, m)) <=> \E k \in i .. i + m - 1 : b = <<s, k>>
<1>1. Len(Run(s, i, m)) = m /\ \A j \in 1 .. m : Run(s, i, m)[j] = <<s, i + j - 1>>
  BY RunIs
<1>2. b \in ToSet(Run(s, i, m)) <=> \E j \in 1 .. m : b = <<s, i + j - 1>>
  BY <1>1 DEF ToSet, Run
<1>3. /\ \A k \in i .. i + m - 1 : k - i + 1 \in 1 .. m /\ i + (k - i + 1) - 1 = k
      /\ \A j \in 1 .. m : i + j - 1 \in i .. i + m - 1
  OBVIOUS
<1> QED
  BY <1>2, <1>3

\* A meta of one segment hands over that run of knots; one of two, both.
LEMMA Segments ==
  ASSUME NEW s, NEW meta \in Seq(Segment)
  PROVE  /\ Len(meta) = 1 =>
              /\ NumParameters(meta) = meta[1].n
              /\ KnotsData(s, meta) = Run(s, meta[1].first, meta[1].n)
         /\ Len(meta) = 2 =>
              /\ NumParameters(meta) = meta[1].n + meta[2].n
              /\ KnotsData(s, meta) = Run(s, meta[1].first, meta[1].n)
                                        \o Run(s, meta[2].first, meta[2].n)
<1> SUFFICES ASSUME DOMAIN meta = {1} \/ DOMAIN meta = {1, 2}
             PROVE  /\ DOMAIN meta = {1} =>
                         /\ NumParameters(meta) = meta[1].n
                         /\ KnotsData(s, meta) = Run(s, meta[1].first, meta[1].n)
                    /\ DOMAIN meta = {1, 2} =>
                         /\ NumParameters(meta) = meta[1].n + meta[2].n
                         /\ KnotsData(s, meta) = Run(s, meta[1].first, meta[1].n)
                                                   \o Run(s, meta[2].first, meta[2].n)
  <2>1. /\ Len(meta) = 1 => DOMAIN meta = {1}
        /\ Len(meta) = 2 => DOMAIN meta = {1, 2}
    OBVIOUS
  <2> QED
    BY <2>1
<1>1. /\ meta[1].first \in Nat /\ meta[1].n \in Nat
      /\ DOMAIN meta = {1, 2} => meta[2].n \in Nat
  <2>1. DOMAIN meta = 1 .. Len(meta)
    OBVIOUS
  <2> QED
    BY <2>1, SegmentNumbers
<1>2. << >> \o Run(s, meta[1].first, meta[1].n) = Run(s, meta[1].first, meta[1].n)
  BY <1>1, RunIs, ConcatEmptySeq
<1>3. CASE DOMAIN meta = {1}
  <2>1. NumParameters(meta) = 0 + meta[1].n
    BY <1>3, NumParametersOf
  <2>2. KnotsData(s, meta) = << >> \o Run(s, meta[1].first, meta[1].n)
    BY <1>3, KnotsDataOf, Zenon DEF Run
  <2> QED
    BY <1>1, <1>2, <1>3, <2>1, <2>2
<1>4. CASE DOMAIN meta = {1, 2}
  <2>1. NumParameters(meta) = 0 + meta[1].n + meta[2].n
    BY <1>4, NumParametersOf
  <2>2. KnotsData(s, meta) = (<< >> \o Run(s, meta[1].first, meta[1].n))
                                \o Run(s, meta[2].first, meta[2].n)
    BY <1>4, KnotsDataOf DEF Run
  <2>3. NumParameters(meta) = meta[1].n + meta[2].n /\ DOMAIN meta # {1}
    BY <1>1, <1>4, <2>1
  <2>4. KnotsData(s, meta) = Run(s, meta[1].first, meta[1].n) \o Run(s, meta[2].first, meta[2].n)
    BY <1>2, <2>2
  <2> QED
    BY <2>3, <2>4
<1> QED
  BY <1>3, <1>4

\* Blocks that hold the knots for a time from a position on are read there.
LEMMA RunFinds ==
  ASSUME NEW s \in Splines, NEW t \in Nat, NEW at \in Nat, NEW q,
         at + Order <= Len(q),
         \A j \in 1 .. Order : q[at + j] = <<s, ComputeTIndex(s, t) + j - 1>>
  PROVE  Finds(q, ReadSpline(at, s, t))
<1>1. ComputeTIndex(s, t) \in Nat /\ Order \in Nat
  BY Indices, SplineConstants
<1>2. ReadSpline(at, s, t) = [at |-> at, want |-> Run(s, ComputeTIndex(s, t), Order)]
  BY DEF ReadSpline, Run
<1>3. /\ Len(Run(s, ComputeTIndex(s, t), Order)) = Order
      /\ \A j \in 1 .. Order : Run(s, ComputeTIndex(s, t), Order)[j] = <<s, ComputeTIndex(s, t) + j - 1>>
  BY <1>1, RunIs, Zenon
<1> DEFINE r == ReadSpline(at, s, t)
<1>4. r.at = at /\ r.want = Run(s, ComputeTIndex(s, t), Order)
  BY <1>2
<1> HIDE DEF r
<1>5. r.want \in Seq(Blocks)
  <2>1. Run(s, ComputeTIndex(s, t), Order) \in Seq({s} \X Nat)
    BY <1>1, RunIs
  <2>2. {s} \X Nat \subseteq Blocks
    BY DEF Blocks
  <2> QED
    BY <1>4, <2>1, <2>2, SeqMonotonic
<1>6. Finds(q, r)
  BY <1>1, <1>3, <1>4, <1>5 DEF Finds
<1> QED
  BY <1>6 DEF r

\* The blocks for some times, one by one.
LEMMA InKnotsAt ==
  ASSUME NEW s, NEW T, NEW b
  PROVE  b \in KnotsAt(s, T) <=> \E t \in T : \E k \in KnotsFor(s, t) : b = <<s, k>>
BY DEF KnotsAt

\* The knots for two times.
LEMMA KnotsAtTwo ==
  ASSUME NEW s, NEW t, NEW u
  PROVE  \A b : b \in KnotsAt(s, {t, u}) <=> b \in KnotsAt(s, {t}) \/ b \in KnotsAt(s, {u})
BY DEF KnotsAt

\* The run for a time has the knots for it.
LEMMA RunKnots ==
  ASSUME NEW s \in Splines, NEW t \in Nat
  PROVE  ToSet(Run(s, ComputeTIndex(s, t), Order)) = KnotsAt(s, {t})
<1>1. \A b : b \in KnotsAt(s, {t}) <=> \E k \in KnotsFor(s, t) : b = <<s, k>>
  BY DEF KnotsAt
<1>2. \A b : b \in ToSet(Run(s, ComputeTIndex(s, t), Order)) <=> \E k \in KnotsFor(s, t) : b = <<s, k>>
  BY Indices, SplineConstants, RunHas DEF KnotsFor
<1> QED
  BY <1>1, <1>2

\* A run that has the knots for a time is read from the place of the first.
LEMMA RunReads ==
  ASSUME NEW s \in Splines, NEW t \in Nat, NEW a \in Nat, NEW m \in Nat,
         a <= ComputeTIndex(s, t), ComputeTIndex(s, t) + Order <= a + m
  PROVE  Finds(Run(s, a, m), ReadSpline(ComputeTIndex(s, t) - a, s, t))
<1> DEFINE i == ComputeTIndex(s, t)
           at == i - a
<1>1. i \in Nat /\ Order \in Nat
  BY Indices, SplineConstants
<1> HIDE DEF i
<1>2. at \in Nat /\ at + Order <= m
  BY <1>1 DEF i
<1>3. Len(Run(s, a, m)) = m /\ \A j \in 1 .. m : Run(s, a, m)[j] = <<s, a + j - 1>>
  BY RunIs
<1>4. \A j \in 1 .. Order : at + j \in 1 .. m /\ a + (at + j) - 1 = i + j - 1
  BY <1>1, <1>2
<1> HIDE DEF at
<1>5. \A j \in 1 .. Order : Run(s, a, m)[at + j] = <<s, i + j - 1>>
  BY <1>3, <1>4
<1>6. Finds(Run(s, a, m), ReadSpline(at, s, t))
  BY <1>2, <1>3, <1>5, RunFinds DEF i
<1> QED
  BY <1>6 DEF at, i

-------------------------------------------------------------------------------
(* Blocks one behind the other.                                            *)

\* The set of a sequence, by its places.
LEMMA SetOf ==
  ASSUME NEW S, NEW q \in Seq(S), NEW b
  PROVE  b \in ToSet(q) <=> \E k \in 1 .. Len(q) : b = q[k]
BY LenProperties DEF ToSet

\* Two sequences with nothing in common, joined.
LEMMA Joined ==
  ASSUME NEW S, NEW p \in Seq(S), NEW q \in Seq(S), Distinct(p), Distinct(q),
         \A b \in ToSet(p) : b \notin ToSet(q)
  PROVE  /\ p \o q \in Seq(S) /\ Len(p \o q) = Len(p) + Len(q) /\ Distinct(p \o q)
         /\ ToSet(p \o q) = ToSet(p) \union ToSet(q)
<1> DEFINE m == Len(p)
           n == Len(q)
           w == p \o q
<1>1. /\ m \in Nat /\ n \in Nat /\ w \in Seq(S) /\ Len(w) = m + n
      /\ \A k \in 1 .. m + n : w[k] = IF k <= m THEN p[k] ELSE q[k - m]
  BY ConcatProperties, LenProperties
<1>2. \A b : /\ b \in ToSet(p) <=> \E k \in 1 .. m : b = p[k]
             /\ b \in ToSet(q) <=> \E k \in 1 .. n : b = q[k]
  BY SetOf
<1> HIDE DEF m, n, w
<1>3. \A b : b \in ToSet(w) <=> \E k \in 1 .. m + n : b = w[k]
  <2> TAKE b
  <2>1. b \in ToSet(w) <=> \E k \in 1 .. Len(w) : b = w[k]
    BY <1>1, SetOf
  <2> QED
    BY <1>1, <2>1
<1>4. \A k \in 1 .. m : k \in 1 .. m + n /\ w[k] = p[k]
  BY <1>1
<1>5. \A k \in 1 .. n : m + k \in 1 .. m + n /\ w[m + k] = q[k]
  <2> TAKE k \in 1 .. n
  <2>1. m + k \in 1 .. m + n /\ ~ (m + k <= m) /\ m + k - m = k
    BY <1>1
  <2> QED
    BY <1>1, <2>1
<1>6. \A k \in 1 .. m + n : k \in 1 .. m \/ (k - m \in 1 .. n /\ m + (k - m) = k)
  BY <1>1
<1>7. \A b : b \in ToSet(w) <=> b \in ToSet(p) \/ b \in ToSet(q)
  BY <1>2, <1>3, <1>4, <1>5, <1>6
<1>8. \A i, j \in 1 .. m : p[i] = p[j] => i = j
  BY DEF Distinct, m
<1>9. \A i, j \in 1 .. n : q[i] = q[j] => i = j
  BY DEF Distinct, n
<1>10. \A i \in 1 .. m, j \in 1 .. n : p[i] # q[j]
  BY <1>2
<1>11. ASSUME NEW i \in 1 .. m + n, NEW j \in 1 .. m + n, w[i] = w[j]
       PROVE  i = j
  <2>1. CASE i \in 1 .. m /\ j \in 1 .. m
    BY <1>4, <1>8, <1>11, <2>1
  <2>2. CASE i - m \in 1 .. n /\ j - m \in 1 .. n
    <3>1. w[i] = q[i - m] /\ w[j] = q[j - m]
      BY <1>1, <2>2
    <3>2. i - m = j - m
      BY <1>9, <1>11, <2>2, <3>1
    <3> QED
      BY <1>1, <3>2
  <2>3. CASE i \in 1 .. m /\ j - m \in 1 .. n
    BY <1>1, <1>10, <1>11, <2>3
  <2>4. CASE i - m \in 1 .. n /\ j \in 1 .. m
    BY <1>1, <1>10, <1>11, <2>4
  <2> QED
    BY <1>6, <2>1, <2>2, <2>3, <2>4
<1>12. Distinct(w)
  BY <1>1, <1>11 DEF Distinct
<1> QED
  BY <1>1, <1>7, <1>12 DEF m, n, w

\* What is found in the first blocks or in the second, further on, is found.
LEMMA JoinedFinds ==
  ASSUME NEW S, NEW p \in Seq(S), NEW q \in Seq(S), NEW r
  PROVE  /\ Finds(p, r) => Finds(p \o q, r)
         /\ Finds(q, r) => Finds(p \o q, Read(Len(p) + r.at, r.want))
<1> DEFINE m == Len(p)
           n == Len(q)
           w == p \o q
<1>1. /\ m \in Nat /\ n \in Nat /\ w \in Seq(S) /\ Len(w) = m + n
      /\ \A k \in 1 .. m + n : w[k] = IF k <= m THEN p[k] ELSE q[k - m]
  BY ConcatProperties, LenProperties
<1>2. ASSUME Finds(p, r)
      PROVE  Finds(w, r)
  <2>1. /\ r.at \in Nat /\ Len(r.want) \in Nat /\ r.at + Len(r.want) <= m
        /\ r.want \in Seq(Blocks)
        /\ \A k \in 1 .. Len(r.want) : p[r.at + k] = r.want[k]
    BY <1>2 DEF Finds
  <2> HIDE DEF m, n, w
  <2>2. \A k \in 1 .. Len(r.want) : r.at + k \in 1 .. m + n /\ r.at + k <= m
    BY <1>1, <2>1
  <2>3. \A k \in 1 .. Len(r.want) : w[r.at + k] = r.want[k]
    BY <1>1, <2>1, <2>2
  <2>4. r.at + Len(r.want) <= Len(w)
    BY <1>1, <2>1
  <2> QED
    BY <2>1, <2>3, <2>4 DEF Finds
<1>3. ASSUME Finds(q, r)
      PROVE  Finds(w, Read(m + r.at, r.want))
  <2>1. /\ r.at \in Nat /\ Len(r.want) \in Nat /\ r.at + Len(r.want) <= n
        /\ r.want \in Seq(Blocks)
        /\ \A k \in 1 .. Len(r.want) : q[r.at + k] = r.want[k]
    BY <1>3 DEF Finds
  <2> HIDE DEF m, n, w
  <2> DEFINE v == Read(m + r.at, r.want)
  <2>2. v.at = m + r.at /\ v.want = r.want
    OBVIOUS
  <2>3. \A k \in 1 .. Len(r.want) : w[m + r.at + k] = r.want[k]
    <3> TAKE k \in 1 .. Len(r.want)
    <3> DEFINE x == m + r.at + k
    <3>3. \A a, l, e, g \in Nat : \A i \in 1 .. l :
            a + l <= g => e + a + i \in 1 .. e + g /\ ~ (e + a + i <= e) /\ (e + a + i) - e = a + i
      OBVIOUS
    <3>1. x \in 1 .. m + n /\ ~ (x <= m) /\ x - m = r.at + k
      <4> DEFINE a == r.at
                 l == Len(r.want)
      <4>1. a \in Nat /\ l \in Nat /\ a + l <= n /\ k \in 1 .. l /\ m \in Nat /\ n \in Nat
        BY <1>1, <2>1
      <4> HIDE DEF a, l
      <4>2. m + a + k \in 1 .. m + n /\ ~ (m + a + k <= m) /\ (m + a + k) - m = a + k
        BY <3>3, <4>1
      <4> QED
        BY <4>2 DEF a
    <3> HIDE DEF x
    <3>2. w[x] = q[r.at + k]
      BY <1>1, <3>1
    <3> QED
      BY <2>1, <3>2 DEF x
  <2>4. m + r.at \in Nat /\ m + r.at + Len(r.want) <= m + n
    BY <1>1, <2>1
  <2> HIDE DEF v
  <2>5. Finds(w, v)
    BY <1>1, <2>1, <2>2, <2>3, <2>4 DEF Finds
  <2> QED
    BY <2>5 DEF v
<1> QED
  BY <1>2, <1>3 DEF m, w

\* Two runs of knots that share none, one behind the other.
LEMMA TwoRuns ==
  ASSUME NEW s, NEW c \in Nat, NEW d \in Nat, NEW m \in Nat, c + m <= d
  PROVE  /\ Run(s, c, m) \o Run(s, d, m) \in Seq({s} \X Nat)
         /\ Len(Run(s, c, m) \o Run(s, d, m)) = m + m /\ Distinct(Run(s, c, m) \o Run(s, d, m))
         /\ \A x : x \in ToSet(Run(s, c, m) \o Run(s, d, m))
                   <=> x \in ToSet(Run(s, c, m)) \/ x \in ToSet(Run(s, d, m))
<1> DEFINE a == Run(s, c, m)
           b == Run(s, d, m)
           S == {s} \X Nat
<1>1. a \in Seq(S) /\ b \in Seq(S) /\ Distinct(a) /\ Distinct(b) /\ Len(a) = m /\ Len(b) = m
  BY RunIs
<1>2. \A x \in ToSet(a) : x \notin ToSet(b)
  <2> TAKE x \in ToSet(a)
  <2>1. \E k \in c .. c + m - 1 : x = <<s, k>>
    BY RunHas
  <2>2. x \in ToSet(b) => \E k \in d .. d + m - 1 : x = <<s, k>>
    BY RunHas
  <2> QED
    BY <2>1, <2>2
<1> HIDE DEF a, b, S
<1>3. /\ a \o b \in Seq(S) /\ Len(a \o b) = Len(a) + Len(b) /\ Distinct(a \o b)
      /\ ToSet(a \o b) = ToSet(a) \union ToSet(b)
  BY <1>1, <1>2, Joined
<1> QED
  BY <1>1, <1>3 DEF a, b, S

\* The knots of two times that share some are one run.
LEMMA SharedKnots ==
  ASSUME NEW s \in Splines, NEW t \in Nat, NEW u \in Nat, NEW m \in Nat, t <= u,
         ComputeTIndex(s, u) < ComputeTIndex(s, t) + Order,
         m = ComputeTIndex(s, u) + Order - ComputeTIndex(s, t)
  PROVE  ToSet(Run(s, ComputeTIndex(s, t), m)) = KnotsAt(s, {t, u})
<1> DEFINE i == ComputeTIndex(s, t)
           j == ComputeTIndex(s, u)
<1>1. i \in Nat /\ j \in Nat /\ i <= j /\ Order \in Nat
  BY Indices, SplineConstants
<1>2. \A k : k \in i .. i + m - 1 <=> k \in KnotsFor(s, t) \/ k \in KnotsFor(s, u)
  BY <1>1 DEF KnotsFor
<1>3. \A b : b \in ToSet(Run(s, i, m)) <=> \E k \in i .. i + m - 1 : b = <<s, k>>
  BY <1>1, RunHas
<1> HIDE DEF i, j
<1>4. \A b : b \in KnotsAt(s, {t, u}) <=> \E k : (k \in KnotsFor(s, t) \/ k \in KnotsFor(s, u)) /\ b = <<s, k>>
  BY DEF KnotsAt, Knot
<1>5. ToSet(Run(s, i, m)) = KnotsAt(s, {t, u})
  BY <1>2, <1>3, <1>4
<1> QED
  BY <1>5 DEF i

-------------------------------------------------------------------------------
(* The blocks of a meta are for its times.                                 *)

\* One time: its knots.
LEMMA MetaOfOne ==
  ASSUME NEW s \in Splines, NEW t \in Nat
  PROVE  MetaFor(s, SplineMeta(s, <<t>>), {t})
<1> DEFINE i == ComputeTIndex(s, t)
           p == [first |-> i, n |-> Order]
           meta == SplineMeta(s, <<t>>)
<1>1. i \in Nat /\ Order \in Nat
  BY Indices, SplineConstants
<1>2. meta = <<p>>
  <2>1. meta = AddSegment(s, << >>, t)
    BY SplineMetaOf
  <2> QED
    BY <2>1 DEF AddSegment
<1>3. p \in Segment /\ p.first = i /\ p.n = Order
  BY <1>1 DEF Segment
<1> HIDE DEF p, meta, i
<1>4. meta \in Seq(Segment) /\ Len(meta) = 1 /\ meta[1] = p
  BY <1>2, <1>3
<1>5. NumParameters(meta) = Order /\ KnotsData(s, meta) = Run(s, i, Order)
  BY <1>3, <1>4, Segments
<1>6. SplineIndex(s, meta, t) = i - i
  <2>1. i \in meta[1].first .. meta[1].first + meta[1].n - Order
    BY <1>1, <1>3, <1>4
  <2>2. SplineIndex(s, meta, t) = i - meta[1].first
    BY <1>1, <1>4, <2>1, SplineIndexIn DEF i
  <2> QED
    BY <1>3, <1>4, <2>2
<1>7. Finds(Run(s, i, Order), ReadSpline(i - i, s, t))
  BY <1>1, RunReads DEF i
<1>8. ToSet(Run(s, i, Order)) = KnotsAt(s, {t})
  BY RunKnots DEF i
<1>9. /\ Run(s, i, Order) \in Seq({s} \X Nat) /\ Len(Run(s, i, Order)) = Order
      /\ Distinct(Run(s, i, Order))
  BY <1>1, RunIs
<1>10. MetaFor(s, meta, {t})
  BY <1>5, <1>6, <1>7, <1>8, <1>9 DEF MetaFor
<1> QED
  BY <1>10 DEF meta

\* Two times in order: two runs of knots, or one when they share any.
LEMMA MetaOfTwo ==
  ASSUME NEW s \in Splines, NEW t \in Nat, NEW u \in Nat, t <= u
  PROVE  MetaFor(s, SplineMeta(s, <<t, u>>), {t, u})
<1> DEFINE i == ComputeTIndex(s, t)
           j == ComputeTIndex(s, u)
           p == [first |-> i, n |-> Order]
           meta == SplineMeta(s, <<t, u>>)
<1>1. i \in Nat /\ j \in Nat /\ i <= j /\ Order \in Nat /\ Order > 1
  BY Indices, SplineConstants
<1>2. p \in Segment /\ p.first = i /\ p.n = Order
  BY <1>1 DEF Segment
<1>3. meta = AddSegment(s, <<p>>, u)
  <2>1. AddSegment(s, << >>, t) = <<p>>
    BY DEF AddSegment
  <2>2. meta = AddSegment(s, AddSegment(s, << >>, t), u)
    BY SplineMetaOf
  <2> QED
    BY <2>1, <2>2
<1> HIDE DEF p, meta
<1>4. <<p>> \in Seq(Segment) /\ Len(<<p>>) = 1 /\ <<p>>[1] = p
  BY <1>2
<1>5. CASE j >= i + Order
  <2> DEFINE r == [first |-> j, n |-> Order]
             a == Run(s, i, Order)
             b == Run(s, j, Order)
  <2>1. r \in Segment /\ r.first = j /\ r.n = Order
    BY <1>1 DEF Segment
  <2>2. meta = Append(<<p>>, r)
    BY <1>2, <1>3, <1>4, <1>5 DEF AddSegment
  <2> HIDE DEF r, i, j
  <2>3. meta \in Seq(Segment) /\ Len(meta) = 2 /\ meta[1] = p /\ meta[2] = r
    BY <1>4, <2>1, <2>2
  <2>4. NumParameters(meta) = Order + Order /\ KnotsData(s, meta) = a \o b
    BY <1>2, <2>1, <2>3, Segments
  <2>5. SplineIndex(s, meta, t) = i - i /\ SplineIndex(s, meta, u) = Order + (j - j)
    <3>1. i \in i .. i + Order - Order /\ j \notin i .. i + Order - Order /\ j \in j .. j + Order - Order
      BY <1>1, <1>5
    <3>2. SplineIndex(s, meta, t) = i - meta[1].first
      BY <1>1, <1>2, <2>3, <3>1, SplineIndexIn DEF i
    <3>3. SplineIndex(s, meta, u) = meta[1].n + j - meta[2].first
      BY <1>1, <1>2, <2>1, <2>3, <3>1, SplineIndexIn DEF j
    <3> QED
      BY <1>1, <1>2, <2>1, <2>3, <3>2, <3>3
  <2>6. /\ a \in Seq({s} \X Nat) /\ Len(a) = Order /\ Distinct(a)
        /\ b \in Seq({s} \X Nat) /\ Len(b) = Order /\ Distinct(b)
    BY <1>1, RunIs
  <2>7. ToSet(a) = KnotsAt(s, {t}) /\ ToSet(b) = KnotsAt(s, {u})
    BY RunKnots DEF i, j
  <2>8. Finds(a, ReadSpline(i - i, s, t)) /\ Finds(b, ReadSpline(j - j, s, u))
    BY <1>1, RunReads DEF i, j
  <2>9. /\ a \o b \in Seq({s} \X Nat) /\ Len(a \o b) = Order + Order /\ Distinct(a \o b)
        /\ \A x : x \in ToSet(a \o b) <=> x \in ToSet(a) \/ x \in ToSet(b)
    <3>1. i + Order <= j
      BY <1>1, <1>5
    <3> QED
      BY <1>1, <3>1, TwoRuns
  <2> HIDE DEF a, b
  <2>10. ToSet(a \o b) = KnotsAt(s, {t, u})
    <3>1. \A x : x \in KnotsAt(s, {t, u}) <=> x \in KnotsAt(s, {t}) \/ x \in KnotsAt(s, {u})
      BY KnotsAtTwo
    <3> QED
      BY <2>7, <2>9, <3>1
  <2>11. Finds(a \o b, ReadSpline(i - i, s, t))
    BY <2>6, <2>8, JoinedFinds
  <2>12. Finds(a \o b, ReadSpline(Order + (j - j), s, u))
    <3> DEFINE v == ReadSpline(j - j, s, u)
    <3>1. Read(Order + v.at, v.want) = ReadSpline(Order + (j - j), s, u)
      BY DEF ReadSpline
    <3> HIDE DEF v
    <3>2. Finds(a \o b, Read(Len(a) + v.at, v.want))
      BY <2>6, <2>8, JoinedFinds DEF v
    <3> QED
      BY <2>6, <3>1, <3>2
  <2>14. MetaFor(s, meta, {t, u})
    BY <2>4, <2>5, <2>9, <2>10, <2>11, <2>12 DEF MetaFor
  <2> QED
    BY <2>14 DEF meta
<1>6. CASE j < i + Order
  <2> DEFINE m == j + Order - i
             a == Run(s, i, m)
             r == [p EXCEPT !.n = m]
  <2>1. m \in Nat /\ m >= Order
    BY <1>1
  <2>2. r \in Segment /\ r.first = i /\ r.n = m
    BY <1>2, <2>1 DEF Segment
  <2>3. meta = [<<p>> EXCEPT ![1] = r]
    <3>1. Max({Order, m}) = m
      BY <1>1 DEF Max
    <3>2. ~ (Len(<<p>>) = 0 \/ j >= <<p>>[Len(<<p>>)].first + <<p>>[Len(<<p>>)].n)
      BY <1>1, <1>2, <1>4, <1>6
    <3> HIDE DEF j
    <3>3. meta = [<<p>> EXCEPT ![Len(<<p>>)].n = Max({@, j + Order - <<p>>[Len(<<p>>)].first})]
      BY <1>3, <3>2, Zenon DEF AddSegment, j
    <3>4. meta = [<<p>> EXCEPT ![1] = [<<p>>[1] EXCEPT !.n = Max({<<p>>[1].n, j + Order - <<p>>[1].first})]]
      BY <1>4, <3>3, Zenon
    <3> QED
      BY <1>2, <1>4, <3>1, <3>4
  <2> HIDE DEF r, i, j
  <2>4. meta \in Seq(Segment) /\ Len(meta) = 1 /\ meta[1] = r
    BY <1>4, <2>2, <2>3
  <2>5. NumParameters(meta) = m /\ KnotsData(s, meta) = a
    BY <2>2, <2>4, Segments
  <2>6. SplineIndex(s, meta, t) = i - i /\ SplineIndex(s, meta, u) = j - i
    <3>1. i \in i .. i + m - Order /\ j \in i .. i + m - Order
      BY <1>1
    <3>2. SplineIndex(s, meta, t) = i - meta[1].first
      BY <1>1, <2>2, <2>4, <3>1, SplineIndexIn DEF i
    <3>3. SplineIndex(s, meta, u) = j - meta[1].first
      BY <1>1, <2>2, <2>4, <3>1, SplineIndexIn DEF j
    <3> QED
      BY <2>2, <2>4, <3>2, <3>3
  <2>7. a \in Seq({s} \X Nat) /\ Len(a) = m /\ Distinct(a)
    <3> HIDE DEF m
    <3> QED
      BY <1>1, <2>1, RunIs
  <2>8. Finds(a, ReadSpline(i - i, s, t)) /\ Finds(a, ReadSpline(j - i, s, u))
    <3>1. i + Order <= i + m /\ j + Order <= i + m
      BY <1>1
    <3> HIDE DEF m
    <3> QED
      BY <1>1, <2>1, <3>1, RunReads DEF i, j
  <2>9. ToSet(a) = KnotsAt(s, {t, u})
    <3>1. ToSet(Run(s, i, m)) = KnotsAt(s, {t, u})
      BY <1>6, <2>1, SharedKnots DEF i, j
    <3> QED
      BY <3>1
  <2> HIDE DEF m, a
  <2>10. MetaFor(s, meta, {t, u})
    BY <2>5, <2>6, <2>7, <2>8, <2>9 DEF MetaFor
  <2> QED
    BY <2>10 DEF meta
<1> QED
  BY <1>1, <1>5, <1>6

-------------------------------------------------------------------------------
(* Factors of the shapes the Estimator puts together.                      *)

\* Blocks that fit, one behind the other, fit: what is read in the second ones
\* is read after all of the first ones.
LEMMA FitJoined ==
  ASSUME NEW p, NEW q, NEW dp, NEW dq, NEW rp, NEW rq, Fit(p, dp, rp), Fit(q, dq, rq),
         \A b \in ToSet(p) : b \notin ToSet(q)
  PROVE  /\ Fit(p \o q, dp \o dq, rp \union {Read(Len(p) + r.at, r.want) : r \in rq})
         /\ Len(p \o q) = Len(p) + Len(q)
         /\ ToSet(p \o q) = ToSet(p) \union ToSet(q)
<1>1. p \in Seq(Blocks) /\ q \in Seq(Blocks) /\ Distinct(p) /\ Distinct(q)
  BY DEF Fit
<1>2. /\ p \o q \in Seq(Blocks) /\ Len(p \o q) = Len(p) + Len(q) /\ Distinct(p \o q)
      /\ ToSet(p \o q) = ToSet(p) \union ToSet(q)
  BY <1>1, Joined
<1>3. dp \o dq = SizesOf(p \o q)
  <2> DEFINE S == {SizeOf[b[1]] : b \in Blocks}
  <2>1. \A w \in Seq(Blocks) :
          /\ SizesOf(w) \in Seq(S) /\ Len(SizesOf(w)) = Len(w)
          /\ \A k \in 1 .. Len(w) : SizesOf(w)[k] = SizeOf[w[k][1]]
    <3> TAKE w \in Seq(Blocks)
    <3>1. Len(w) \in Nat /\ DOMAIN w = 1 .. Len(w) /\ \A k \in 1 .. Len(w) : w[k] \in Blocks
      BY LenProperties, ElementOfSeq
    <3>2. SizesOf(w) = [k \in 1 .. Len(w) |-> SizeOf[w[k][1]]]
      BY <3>1 DEF SizesOf
    <3> HIDE DEF S
    <3>3. \A k \in 1 .. Len(w) : SizeOf[w[k][1]] \in S
      BY <3>1 DEF S
    <3> QED
      BY <3>1, <3>2, <3>3
  <2> HIDE DEF S
  <2>2. dp = SizesOf(p) /\ dq = SizesOf(q)
    BY DEF Fit
  <2>3. Len(p) \in Nat /\ Len(q) \in Nat
    BY <1>1
  <2>4. /\ dp \o dq \in Seq(S) /\ Len(dp \o dq) = Len(p) + Len(q)
        /\ \A k \in 1 .. Len(p) + Len(q) :
             (dp \o dq)[k] = IF k <= Len(p) THEN dp[k] ELSE dq[k - Len(p)]
    <3>1. dp \in Seq(S) /\ dq \in Seq(S) /\ Len(dp) = Len(p) /\ Len(dq) = Len(q)
      BY <1>1, <2>1, <2>2
    <3>2. /\ dp \o dq \in Seq(S) /\ Len(dp \o dq) = Len(dp) + Len(dq)
          /\ \A k \in 1 .. Len(dp) + Len(dq) :
               (dp \o dq)[k] = IF k <= Len(dp) THEN dp[k] ELSE dq[k - Len(dp)]
      BY <3>1, ConcatProperties
    <3> QED
      BY <3>1, <3>2, Zenon
  <2>5. \A k \in 1 .. Len(p) + Len(q) :
          (p \o q)[k] = IF k <= Len(p) THEN p[k] ELSE q[k - Len(p)]
    BY <1>1, ConcatProperties
  <2>6. SizesOf(p \o q) \in Seq(S) /\ Len(SizesOf(p \o q)) = Len(p) + Len(q)
    BY <1>2, <2>1
  <2>7. ASSUME NEW k \in 1 .. Len(p) + Len(q)
        PROVE  (dp \o dq)[k] = SizesOf(p \o q)[k]
    <3>1. SizesOf(p \o q)[k] = SizeOf[(p \o q)[k][1]]
      BY <1>2, <2>1
    <3>2. CASE k <= Len(p)
      <4>1. k \in 1 .. Len(p)
        BY <2>3, <3>2
      <4> QED
        BY <1>1, <2>1, <2>2, <2>4, <2>5, <3>1, <3>2, <4>1
    <3>3. CASE ~ (k <= Len(p))
      <4>1. k - Len(p) \in 1 .. Len(q)
        BY <2>3, <3>3
      <4> QED
        BY <1>1, <2>1, <2>2, <2>4, <2>5, <3>1, <3>3, <4>1
    <3> QED
      BY <3>2, <3>3
  <2> QED
    BY <2>4, <2>6, <2>7, SeqEqual
<1>4. \A r \in rp \union {Read(Len(p) + r.at, r.want) : r \in rq} : Finds(p \o q, r)
  <2>1. \A r \in rp : Finds(p \o q, r)
    BY <1>1, JoinedFinds DEF Fit
  <2>2. \A r \in rq : Finds(p \o q, Read(Len(p) + r.at, r.want))
    BY <1>1, JoinedFinds DEF Fit
  <2> HIDE DEF Read
  <2> QED
    BY <2>1, <2>2
<1> QED
  BY <1>2, <1>3, <1>4 DEF Fit

\* The blocks of a meta fit what its splines read at its times.
LEMMA FitMeta ==
  ASSUME NEW s \in Splines, NEW meta, NEW T, MetaFor(s, meta, T)
  PROVE  /\ Fit(KnotsData(s, meta), Sizes(SizeOf[s], meta),
                {ReadSpline(SplineIndex(s, meta, t), s, t) : t \in T})
         /\ Len(KnotsData(s, meta)) = NumParameters(meta) /\ NumParameters(meta) \in Nat
         /\ ToSet(KnotsData(s, meta)) = KnotsAt(s, T)
<1> DEFINE q == KnotsData(s, meta)
<1>1. /\ q \in Seq({s} \X Nat) /\ NumParameters(meta) = Len(q) /\ Distinct(q)
      /\ \A t \in T : Finds(q, ReadSpline(SplineIndex(s, meta, t), s, t))
      /\ ToSet(q) = KnotsAt(s, T)
  BY DEF MetaFor
<1> HIDE DEF q
<1>2. Len(q) \in Nat /\ DOMAIN q = 1 .. Len(q) /\ \A k \in 1 .. Len(q) : q[k][1] = s
  <2>1. \A k \in 1 .. Len(q) : q[k] \in {s} \X Nat
    BY <1>1, ElementOfSeq
  <2> QED
    BY <1>1, <2>1, LenProperties
<1>3. q \in Seq(Blocks)
  <2>1. {s} \X Nat \subseteq Blocks
    BY DEF Blocks
  <2> QED
    BY <1>1, <2>1, SeqMonotonic
<1>4. Sizes(SizeOf[s], meta) = SizesOf(q)
  BY <1>1, <1>2 DEF Sizes, SizesOf
<1> QED
  BY <1>1, <1>2, <1>3, <1>4 DEF Fit, q

\* The blocks of metas of two splines, one behind the other.
LEMMA FitMetas ==
  ASSUME NEW s \in Splines, NEW meta, NEW T, MetaFor(s, meta, T),
         NEW s2 \in Splines, NEW meta2, NEW T2, MetaFor(s2, meta2, T2), s # s2
  PROVE  LET q == KnotsData(s, meta) \o KnotsData(s2, meta2)
         IN /\ Fit(q, Sizes(SizeOf[s], meta) \o Sizes(SizeOf[s2], meta2),
                   {ReadSpline(SplineIndex(s, meta, t), s, t) : t \in T}
                     \union {ReadSpline(NumParameters(meta) + SplineIndex(s2, meta2, t), s2, t) : t \in T2})
            /\ Len(q) = NumParameters(meta) + NumParameters(meta2) /\ Len(q) \in Nat
            /\ \A b : b \in ToSet(q) <=> b \in KnotsAt(s, T) \/ b \in KnotsAt(s2, T2)
<1> DEFINE p == KnotsData(s, meta)
           p2 == KnotsData(s2, meta2)
           R == {ReadSpline(SplineIndex(s, meta, t), s, t) : t \in T}
           R2 == {ReadSpline(SplineIndex(s2, meta2, t), s2, t) : t \in T2}
           N == NumParameters(meta)
<1>1. Fit(p, Sizes(SizeOf[s], meta), R) /\ Len(p) = N /\ N \in Nat /\ ToSet(p) = KnotsAt(s, T)
  BY FitMeta
<1>2. /\ Fit(p2, Sizes(SizeOf[s2], meta2), R2) /\ ToSet(p2) = KnotsAt(s2, T2)
      /\ Len(p2) = NumParameters(meta2) /\ NumParameters(meta2) \in Nat
  BY FitMeta
<1>3. {Read(N + r.at, r.want) : r \in R2}
        = {ReadSpline(N + SplineIndex(s2, meta2, t), s2, t) : t \in T2}
  <2>1. \A t \in T2 : LET r == ReadSpline(SplineIndex(s2, meta2, t), s2, t)
                      IN Read(N + r.at, r.want) = ReadSpline(N + SplineIndex(s2, meta2, t), s2, t)
    BY DEF ReadSpline
  <2> HIDE DEF Read
  <2> QED
    BY <2>1
<1> HIDE DEF p, p2, R, R2, N
<1>4. \A b \in ToSet(p) : b \notin ToSet(p2)
  BY <1>1, <1>2, InKnotsAt
<1>5. /\ Fit(p \o p2, Sizes(SizeOf[s], meta) \o Sizes(SizeOf[s2], meta2),
             R \union {Read(Len(p) + r.at, r.want) : r \in R2})
      /\ Len(p \o p2) = Len(p) + Len(p2)
      /\ ToSet(p \o p2) = ToSet(p) \union ToSet(p2)
  BY <1>1, <1>2, <1>4, FitJoined
<1>6. Len(p \o p2) = N + NumParameters(meta2) /\ Len(p \o p2) \in Nat
  BY <1>1, <1>2, <1>5
<1>7. R \union {Read(Len(p) + r.at, r.want) : r \in R2}
        = R \union {ReadSpline(N + SplineIndex(s2, meta2, t), s2, t) : t \in T2}
  BY <1>1, <1>3
<1>8. \A b : b \in ToSet(p \o p2) <=> b \in KnotsAt(s, T) \/ b \in KnotsAt(s2, T2)
  BY <1>1, <1>2, <1>5
<1> QED
  BY <1>1, <1>2, <1>5, <1>6, <1>7, <1>8 DEF p, p2, R, N

\* The same, for metas of several times.
LEMMA FitMetasFinds ==
  ASSUME NEW s \in Splines, NEW meta, NEW T, MetaFor(s, meta, T),
         NEW s2 \in Splines, NEW meta2, NEW T2, MetaFor(s2, meta2, T2), s # s2
  PROVE  LET q == KnotsData(s, meta) \o KnotsData(s2, meta2)
         IN /\ Fit(q, Sizes(SizeOf[s], meta) \o Sizes(SizeOf[s2], meta2), {})
            /\ \A t \in T : Finds(q, ReadSpline(SplineIndex(s, meta, t), s, t))
            /\ \A t \in T2 : Finds(q, ReadSpline(NumParameters(meta) + SplineIndex(s2, meta2, t), s2, t))
            /\ \A b : b \in ToSet(q) <=> b \in KnotsAt(s, T) \/ b \in KnotsAt(s2, T2)
BY FitMetas DEF Fit

-------------------------------------------------------------------------------
(* Vectors, tails and single knots.                                        *)

\* A vector by itself.
LEMMA FitVector ==
  ASSUME NEW v \in {Ba, Bv, Gravity}
  PROVE  /\ Fit(<<v>>, <<SizeOf[v[1]]>>, {Read(0, <<v>>)})
         /\ Len(<<v>>) = 1 /\ \A b : b \in ToSet(<<v>>) <=> b = v
<1>1. <<v>> \in Seq(Blocks) /\ Len(<<v>>) = 1 /\ <<v>>[1] = v
  BY DEF Blocks
<1>2. Distinct(<<v>>)
  BY <1>1 DEF Distinct
<1>3. <<SizeOf[v[1]]>> = SizesOf(<<v>>)
  BY DEF SizesOf
<1>4. Finds(<<v>>, Read(0, <<v>>))
  BY <1>1 DEF Finds
<1>5. \A b : b \in ToSet(<<v>>) <=> b = v
  BY DEF ToSet
<1> QED
  BY <1>1, <1>2, <1>3, <1>4, <1>5 DEF Fit

\* The two vectors of the accelerometer factor.
LEMMA FitVectors ==
  /\ Fit(<<Ba, Gravity>>, <<3, 3>>, {Read(0, <<Ba>>), Read(1, <<Gravity>>)})
  /\ Len(<<Ba, Gravity>>) = 2 /\ \A b : b \in ToSet(<<Ba, Gravity>>) <=> b \in {Ba, Gravity}
<1>1. <<Ba, Gravity>> \in Seq(Blocks) /\ Len(<<Ba, Gravity>>) = 2
  BY DEF Blocks
<1>2. Distinct(<<Ba, Gravity>>)
  BY DEF Distinct, Ba, Gravity
<1>3. <<3, 3>> = SizesOf(<<Ba, Gravity>>)
  BY DEF SizesOf, Ba, Gravity, SizeOf
<1>4. Finds(<<Ba, Gravity>>, Read(0, <<Ba>>)) /\ Finds(<<Ba, Gravity>>, Read(1, <<Gravity>>))
  <2>1. <<Ba>> \in Seq(Blocks) /\ <<Gravity>> \in Seq(Blocks)
    BY DEF Blocks
  <2> QED
    BY <2>1 DEF Finds
<1>5. \A b : b \in ToSet(<<Ba, Gravity>>) <=> b \in {Ba, Gravity}
  BY DEF ToSet
<1> QED
  BY <1>1, <1>2, <1>3, <1>4, <1>5 DEF Fit

\* Three knots in a row, of a tail.
LEMMA FitTail ==
  ASSUME NEW s \in Splines, NEW c \in Nat
  PROVE  /\ Fit(Run(s, c, 3), <<SizeOf[s], SizeOf[s], SizeOf[s]>>, TailFactor(s, c))
         /\ \A b : b \in ToSet(Run(s, c, 3)) <=> \E k \in c .. c + 2 : b = <<s, k>>
<1> DEFINE q == Run(s, c, 3)
<1>1. /\ q \in Seq({s} \X Nat) /\ Len(q) = 3 /\ Distinct(q)
      /\ \A j \in 1 .. 3 : q[j] = <<s, c + j - 1>>
  BY RunIs
<1>2. TailFactor(s, c) = {Read(0, q)}
  BY DEF TailFactor, Run
<1>3. \A b : b \in ToSet(q) <=> \E k \in c .. c + 2 : b = <<s, k>>
  <2>1. c + 3 - 1 = c + 2
    OBVIOUS
  <2> QED
    BY <2>1, RunHas
<1> HIDE DEF q
<1>4. q \in Seq(Blocks)
  <2>1. {s} \X Nat \subseteq Blocks
    BY DEF Blocks
  <2> QED
    BY <1>1, <2>1, SeqMonotonic
<1>5. <<SizeOf[s], SizeOf[s], SizeOf[s]>> = SizesOf(q)
  <2>1. DOMAIN q = 1 .. 3 /\ \A j \in 1 .. 3 : q[j][1] = s
    BY <1>1, <1>4, LenProperties
  <2>2. SizesOf(q) = [j \in 1 .. 3 |-> SizeOf[s]]
    BY <2>1 DEF SizesOf
  <2> QED
    BY <2>2
<1>6. Finds(q, Read(0, q))
  <2> DEFINE r == Read(0, q)
  <2>1. r.at = 0 /\ r.want = q
    OBVIOUS
  <2> HIDE DEF r
  <2>2. Len(r.want) = 3 /\ \A k \in 1 .. 3 : r.at + k = k
    BY <1>1, <2>1
  <2>3. \A k \in 1 .. 3 : q[r.at + k] = r.want[k]
    BY <2>1, <2>2
  <2>4. r.at \in Nat /\ r.at + 3 <= Len(q)
    BY <1>1, <2>1
  <2>5. Finds(q, r)
    BY <1>4, <2>1, <2>2, <2>3, <2>4 DEF Finds
  <2> QED
    BY <2>5 DEF r
<1> QED
  BY <1>1, <1>2, <1>3, <1>4, <1>5, <1>6 DEF Fit, q

\* The three blocks of a rotation refinement.
LEMMA FitRefine ==
  ASSUME NEW idx \in Nat
  PROVE  LET q == <<Knot("so3", idx), Knot("grav", idx), Gravity>>
         IN /\ Fit(q, <<4, 3, 3>>, RotRefineFactor(idx))
            /\ \A b : b \in ToSet(q) <=> b \in {Knot("so3", idx), Knot("grav", idx), Gravity}
<1> DEFINE q == <<Knot("so3", idx), Knot("grav", idx), Gravity>>
<1>1. q \in Seq(Blocks)
  BY DEF Blocks, Splines
<1>2. Distinct(q)
  BY DEF Distinct, Gravity
<1>3. <<4, 3, 3>> = SizesOf(q)
  BY DEF SizesOf, Gravity, SizeOf
<1>4. \A r \in RotRefineFactor(idx) : Finds(q, r)
  <2>0. \A b \in Blocks : <<b>> \in Seq(Blocks)
    OBVIOUS
  <2>4. Knot("so3", idx) \in Blocks /\ Knot("grav", idx) \in Blocks /\ Gravity \in Blocks
    BY DEF Blocks, Splines, Knot
  <2>1. Finds(q, Read(0, <<Knot("so3", idx)>>))
    BY <2>0, <2>4 DEF Finds
  <2>2. Finds(q, Read(1, <<Knot("grav", idx)>>))
    BY <2>0, <2>4 DEF Finds
  <2>3. Finds(q, Read(2, <<Gravity>>))
    BY <2>0, <2>4 DEF Finds
  <2> HIDE DEF q, Read
  <2> QED
    BY <2>1, <2>2, <2>3 DEF RotRefineFactor
<1>5. \A b : b \in ToSet(q) <=> b \in {Knot("so3", idx), Knot("grav", idx), Gravity}
  BY DEF ToSet
<1> QED
  BY <1>1, <1>2, <1>3, <1>4, <1>5 DEF Fit

-------------------------------------------------------------------------------
(* What each Add* adds.                                                    *)

\* Blocks for the knots of one time, and of two splines at one time.
LEMMA FitOne ==
  ASSUME NEW s \in Splines, NEW t \in Nat
  PROVE  LET meta == SplineMeta(s, <<t>>)
         IN /\ Fit(KnotsData(s, meta), Sizes(SizeOf[s], meta), {ReadSpline(SplineIndex(s, meta, t), s, t)})
            /\ ToSet(KnotsData(s, meta)) = KnotsAt(s, {t})
<1> DEFINE meta == SplineMeta(s, <<t>>)
           T == {t}
           R == {ReadSpline(SplineIndex(s, meta, u), s, u) : u \in T}
<1>1. MetaFor(s, meta, T)
  BY MetaOfOne
<1>3. R = {ReadSpline(SplineIndex(s, meta, t), s, t)}
  OBVIOUS
<1> HIDE DEF meta, T
<1>2. Fit(KnotsData(s, meta), Sizes(SizeOf[s], meta), R) /\ ToSet(KnotsData(s, meta)) = KnotsAt(s, T)
  BY <1>1, FitMeta
<1> QED
  BY <1>2, <1>3 DEF meta, T

\* Blocks for the knots of two splines at one time, one after the other.
LEMMA FitBoth ==
  ASSUME NEW s \in Splines, NEW s2 \in Splines, s # s2, NEW t \in Nat
  PROVE  LET meta  == SplineMeta(s, <<t>>)
             meta2 == SplineMeta(s2, <<t>>)
             q     == KnotsData(s, meta) \o KnotsData(s2, meta2)
         IN /\ Fit(q, Sizes(SizeOf[s], meta) \o Sizes(SizeOf[s2], meta2),
                   {ReadSpline(SplineIndex(s, meta, t), s, t),
                    ReadSpline(NumParameters(meta) + SplineIndex(s2, meta2, t), s2, t)})
            /\ Len(q) = NumParameters(meta) + NumParameters(meta2) /\ Len(q) \in Nat
            /\ \A b : b \in ToSet(q) <=> b \in KnotsAt(s, {t}) \/ b \in KnotsAt(s2, {t})
<1> DEFINE meta == SplineMeta(s, <<t>>)
           meta2 == SplineMeta(s2, <<t>>)
           q == KnotsData(s, meta) \o KnotsData(s2, meta2)
           R == {ReadSpline(SplineIndex(s, meta, u), s, u) : u \in {t}}
           R2 == {ReadSpline(NumParameters(meta) + SplineIndex(s2, meta2, u), s2, u) : u \in {t}}
<1>1. MetaFor(s, meta, {t}) /\ MetaFor(s2, meta2, {t})
  BY MetaOfOne
<1> HIDE DEF meta, meta2
<1>2. /\ Fit(q, Sizes(SizeOf[s], meta) \o Sizes(SizeOf[s2], meta2), R \union R2)
      /\ Len(q) = NumParameters(meta) + NumParameters(meta2) /\ Len(q) \in Nat
      /\ \A b : b \in ToSet(q) <=> b \in KnotsAt(s, {t}) \/ b \in KnotsAt(s2, {t})
  BY <1>1, FitMetas
<1>3. R \union R2 = {ReadSpline(SplineIndex(s, meta, t), s, t),
                     ReadSpline(NumParameters(meta) + SplineIndex(s2, meta2, t), s2, t)}
  OBVIOUS
<1> HIDE DEF q, R, R2
<1> QED
  BY <1>2, <1>3 DEF meta, meta2, q

\* A time in the range of a spline is evaluated from knots the spline has.
LEMMA KnotsInRange ==
  ASSUME NEW s \in Splines, NEW n \in [Splines -> Nat], NEW t \in Int, InRange(s, n, t)
  PROVE  t \in Nat /\ \A b \in KnotsAt(s, {t}) : b[1] = s /\ b[2] \in 0 .. n[b[1]] - 1
<1> DEFINE d == KnotDist[s]
           i == ComputeTIndex(s, t)
<1>1. d \in Nat \ {0} /\ Order \in Nat /\ n[s] \in Nat
  BY SplineConstants
<1>2. t \in Nat /\ t < (n[s] - Order + 1) * d
  BY DEF InRange, MaxTimeOf
<1>3. i \in Nat
  BY <1>2, Indices
<1>4. i < n[s] - Order + 1
  <2>1. \A e \in Nat \ {0}, m \in Int, u \in Nat : u < m * e => u \div e < m
    OBVIOUS
  <2>2. n[s] - Order + 1 \in Int
    BY <1>1
  <2> QED
    BY <1>1, <1>2, <2>1, <2>2 DEF ComputeTIndex
<1> HIDE DEF i, d
<1>5. \A k \in i .. i + Order - 1 : k \in Nat /\ k < n[s]
  BY <1>1, <1>3, <1>4
<1>6. \A b \in KnotsAt(s, {t}) : \E k \in i .. i + Order - 1 : b = <<s, k>>
  BY DEF KnotsAt, KnotsFor, i
<1>7. ASSUME NEW b \in KnotsAt(s, {t})
      PROVE  b[1] = s /\ b[2] \in 0 .. n[b[1]] - 1
  <2>1. PICK k \in i .. i + Order - 1 : b = <<s, k>>
    BY <1>6
  <2>2. b[1] = s /\ b[2] = k
    BY <2>1
  <2>3. b[2] \in 0 .. n[s] - 1
    BY <1>1, <1>5, <2>2
  <2> QED
    BY <2>2, <2>3
<1> QED
  BY <1>2, <1>7

\* The vectors are not knots.
LEMMA VectorNames ==
  /\ Ba[1] = "ba" /\ Bv[1] = "bv" /\ Gravity[1] = "gravity"
  /\ \A s \in Splines : s \notin {"ba", "bv", "gravity"}
BY DEF Ba, Bv, Gravity, Splines

\* What of an added factor is needed later: it is sound, and sets a manifold
\* for whatever it moves on a sphere.
Added(f, kind, n) ==
  f.kind = kind /\ Sound(f, n) /\ \A b \in ToSet(f.blocks) : b[1] \in {"so3", "grav", "gravity"} => b \in f.onManifold

\* A rotation rate: the rotation knots of its time, which are free.
LEMMA OfGyro ==
  ASSUME NEW n \in [Splines -> Nat], NEW t \in Int, NEW opt, "SO3" \in opt,
         NEW f \in AddGyroMeasurementWithConstBias(n, t, opt)
  PROVE  /\ InRange("so3", n, t) /\ Added(f, "gyro", n) /\ f.fixed = {}
         /\ \A b : b \in ToSet(f.blocks) <=> b \in KnotsAt("so3", {t})
<1> DEFINE meta == SplineMeta("so3", <<t>>)
           q == KnotsData("so3", meta)
<1>1. /\ f = Factor("gyro", Sizes(4, meta), q, IMUGyroFactorWithConstBias(meta, t), ToSet(q),
                    FixUnless("SO3", opt, q))
      /\ InRange("so3", n, t)
  BY DEF AddGyroMeasurementWithConstBias
<1>2. t \in Nat /\ \A b \in KnotsAt("so3", {t}) : b[1] = "so3" /\ b[2] \in 0 .. n[b[1]] - 1
  BY <1>1, KnotsInRange DEF Splines
<1>3. Fit(q, Sizes(4, meta), IMUGyroFactorWithConstBias(meta, t)) /\ ToSet(q) = KnotsAt("so3", {t})
  <2>1. SizeOf["so3"] = 4 /\ "so3" \in Splines
    BY DEF SizeOf, Splines
  <2> QED
    BY <1>2, <2>1, FitOne DEF IMUGyroFactorWithConstBias
<1> HIDE DEF meta, q
<1>4. /\ f.kind = "gyro" /\ f.blocks = q /\ f.declared = Sizes(4, meta)
      /\ f.reads = IMUGyroFactorWithConstBias(meta, t)
      /\ f.onManifold = ToSet(q) /\ f.fixed = {}
  BY <1>1 DEF Factor, FixUnless
<1>5. Within(n, ToSet(q))
  BY <1>2, <1>3 DEF Within
<1> QED
  BY <1>1, <1>3, <1>4, <1>5 DEF Added, Sound

\* A radar target: the rotation and velocity knots of its time.
LEMMA OfRadar ==
  ASSUME NEW n \in [Splines -> Nat], NEW t \in Int, NEW opt, {"SO3", "VEL"} \subseteq opt,
         NEW f \in AddRadarMeasurement(n, t, opt)
  PROVE  /\ InRange("so3", n, t) /\ Added(f, "radar", n) /\ f.fixed = {}
         /\ \A b : b \in ToSet(f.blocks) <=> b \in KnotsAt("so3", {t}) \/ b \in KnotsAt("vel", {t})
<1> DEFINE so3Meta == SplineMeta("so3", <<t>>)
           velMeta == SplineMeta("vel", <<t>>)
           so3 == KnotsData("so3", so3Meta)
           vel == KnotsData("vel", velMeta)
<1>1. /\ f = Factor("radar", Sizes(4, so3Meta) \o Sizes(3, velMeta), so3 \o vel,
                    RadarFactor(so3Meta, velMeta, t), ToSet(so3),
                    FixUnless("SO3", opt, so3) \union FixUnless("VEL", opt, vel))
      /\ InRange("so3", n, t) /\ InRange("vel", n, t)
  BY DEF AddRadarMeasurement
<1>2. /\ t \in Nat
      /\ \A b \in KnotsAt("so3", {t}) : b[1] = "so3" /\ b[2] \in 0 .. n[b[1]] - 1
      /\ \A b \in KnotsAt("vel", {t}) : b[1] = "vel" /\ b[2] \in 0 .. n[b[1]] - 1
  BY <1>1, KnotsInRange DEF Splines
<1>3. /\ Fit(so3 \o vel, Sizes(4, so3Meta) \o Sizes(3, velMeta), RadarFactor(so3Meta, velMeta, t))
      /\ \A b : b \in ToSet(so3 \o vel) <=> b \in KnotsAt("so3", {t}) \/ b \in KnotsAt("vel", {t})
  <2>1. SizeOf["so3"] = 4 /\ SizeOf["vel"] = 3 /\ "so3" \in Splines /\ "vel" \in Splines
    BY DEF SizeOf, Splines
  <2> QED
    BY <1>2, <2>1, FitBoth DEF RadarFactor
<1>4. ToSet(so3) = KnotsAt("so3", {t})
  BY <1>2, FitOne DEF Splines
<1> HIDE DEF so3Meta, velMeta, so3, vel
<1>5. /\ f.kind = "radar" /\ f.blocks = so3 \o vel
      /\ f.declared = Sizes(4, so3Meta) \o Sizes(3, velMeta)
      /\ f.reads = RadarFactor(so3Meta, velMeta, t) /\ f.onManifold = ToSet(so3) /\ f.fixed = {}
  BY <1>1 DEF Factor, FixUnless
<1>6. Within(n, ToSet(so3 \o vel))
  BY <1>2, <1>3 DEF Within
<1>7. \A b \in ToSet(so3 \o vel) : b[1] \in {"so3", "grav", "gravity"} => b \in ToSet(so3)
  BY <1>2, <1>3, <1>4
<1> QED
  BY <1>1, <1>3, <1>5, <1>6, <1>7 DEF Added, Sound

\* An acceleration: the knots of its time, its bias, and the gravity, which is held.
LEMMA OfAcce ==
  ASSUME NEW n \in [Splines -> Nat], NEW t \in Int, NEW opt, {"SO3", "VEL"} \subseteq opt,
         NEW f \in AddAcceMeasurementWithConstBias(n, t, opt)
  PROVE  /\ Added(f, "acce", n) /\ f.fixed \subseteq {Ba, Gravity} /\ Ba \in ToSet(f.blocks)
         /\ Gravity \in f.fixed
<1> DEFINE so3Meta == SplineMeta("so3", <<t>>)
           velMeta == SplineMeta("vel", <<t>>)
           so3 == KnotsData("so3", so3Meta)
           vel == KnotsData("vel", velMeta)
           p == so3 \o vel
           q == <<Ba, Gravity>>
           dp == Sizes(4, so3Meta) \o Sizes(3, velMeta)
           rp == {ReadSpline(SplineIndex("so3", so3Meta, t), "so3", t),
                  ReadSpline(NumParameters(so3Meta) + SplineIndex("vel", velMeta, t), "vel", t)}
           rq == {Read(0, <<Ba>>), Read(1, <<Gravity>>)}
           R == rp \union {Read(Len(p) + r.at, r.want) : r \in rq}
<1>1. /\ f = Factor("acce", dp \o <<3, 3>>, p \o q, IMUAcceFactorWithConstBias(so3Meta, velMeta, t),
                    ToSet(so3) \union {Gravity},
                    FixUnless("SO3", opt, so3) \union FixUnless("VEL", opt, vel)
                      \union FixUnless("BA", opt, <<Ba>>) \union {Gravity})
      /\ InRange("so3", n, t) /\ InRange("vel", n, t)
  BY DEF AddAcceMeasurementWithConstBias
<1>2. /\ t \in Nat
      /\ \A b \in KnotsAt("so3", {t}) : b[1] = "so3" /\ b[2] \in 0 .. n[b[1]] - 1
      /\ \A b \in KnotsAt("vel", {t}) : b[1] = "vel" /\ b[2] \in 0 .. n[b[1]] - 1
  BY <1>1, KnotsInRange DEF Splines
<1>3. /\ Fit(p, dp, rp) /\ Len(p) = NumParameters(so3Meta) + NumParameters(velMeta) /\ Len(p) \in Nat
      /\ \A b : b \in ToSet(p) <=> b \in KnotsAt("so3", {t}) \/ b \in KnotsAt("vel", {t})
  <2>1. SizeOf["so3"] = 4 /\ SizeOf["vel"] = 3 /\ "so3" \in Splines /\ "vel" \in Splines
    BY DEF SizeOf, Splines
  <2> QED
    BY <1>2, <2>1, FitBoth
<1>4. ToSet(so3) = KnotsAt("so3", {t})
  BY <1>2, FitOne DEF Splines
<1>5. R = IMUAcceFactorWithConstBias(so3Meta, velMeta, t)
  <2>1. {Read(Len(p) + r.at, r.want) : r \in rq} = {Read(Len(p), <<Ba>>), Read(Len(p) + 1, <<Gravity>>)}
    BY <1>3
  <2> HIDE DEF Read, p, so3Meta, velMeta, rq
  <2> QED
    BY <1>3, <2>1 DEF IMUAcceFactorWithConstBias
<1> HIDE DEF so3Meta, velMeta, so3, vel, p, dp, rp
<1>6. Fit(q, <<3, 3>>, rq) /\ \A b : b \in ToSet(q) <=> b \in {Ba, Gravity}
  BY FitVectors
<1> HIDE DEF q, rq
<1>7. \A b \in ToSet(p) : b \notin ToSet(q)
  BY <1>2, <1>3, <1>6, VectorNames
<1>8. Fit(p \o q, dp \o <<3, 3>>, R) /\ \A b : b \in ToSet(p \o q) <=> b \in ToSet(p) \/ b \in ToSet(q)
  BY <1>3, <1>6, <1>7, FitJoined
<1> HIDE DEF R
<1>9. /\ f.kind = "acce" /\ f.blocks = p \o q /\ f.declared = dp \o <<3, 3>>
      /\ f.reads = R /\ f.onManifold = ToSet(so3) \union {Gravity} /\ f.fixed \subseteq {Ba, Gravity}
      /\ Gravity \in f.fixed
  <2>1. FixUnless("BA", opt, <<Ba>>) \subseteq {Ba}
    BY FitVector DEF FixUnless
  <2> QED
    BY <1>1, <1>5, <2>1 DEF Factor, FixUnless
<1>10. Within(n, ToSet(p \o q))
  <2>1. \A b \in ToSet(q) : b[1] \notin Splines
    BY <1>6, VectorNames
  <2>2. \A b \in ToSet(p) : b[2] \in 0 .. n[b[1]] - 1
    BY <1>2, <1>3
  <2> QED
    BY <1>8, <2>1, <2>2 DEF Within
<1>11. \A b \in ToSet(p \o q) : b[1] \in {"so3", "grav", "gravity"} => b \in f.onManifold
  BY <1>2, <1>3, <1>4, <1>6, <1>8, <1>9, VectorNames
<1> QED
  BY <1>6, <1>8, <1>9, <1>10, <1>11 DEF Added, Sound

\* A leg frame, if its time is in reach of the rotation spline, which the
\* code does not ask.
LEMMA OfLeg ==
  ASSUME NEW n \in [Splines -> Nat], NEW t \in Int, NEW opt, "VEL" \in opt,
         InRange("vel", n, t) => InRange("so3", n, t), NEW f \in AddLegMeasurement(n, t, opt)
  PROVE  /\ InRange("so3", n, t) /\ Added(f, "leg", n) /\ f.fixed = {} /\ Bv \in ToSet(f.blocks)
         /\ \A b \in ToSet(f.blocks) : b[1] # "grav"
         /\ \A b : b \in ToSet(f.blocks) <=>
                b \in KnotsAt("so3", {t}) \/ b \in KnotsAt("vel", {t}) \/ b = Bv
<1> DEFINE so3Meta == SplineMeta("so3", <<t>>)
           velMeta == SplineMeta("vel", <<t>>)
           so3 == KnotsData("so3", so3Meta)
           vel == KnotsData("vel", velMeta)
           p == so3 \o vel
           q == <<Bv>>
           dp == Sizes(4, so3Meta) \o Sizes(3, velMeta)
           rp == {ReadSpline(SplineIndex("so3", so3Meta, t), "so3", t),
                  ReadSpline(NumParameters(so3Meta) + SplineIndex("vel", velMeta, t), "vel", t)}
           rq == {Read(0, <<Bv>>)}
           R == rp \union {Read(Len(p) + r.at, r.want) : r \in rq}
<1>1. /\ f = Factor("leg", dp \o <<2>>, p \o q, LegVelFactor(so3Meta, velMeta, t),
                    ToSet(so3), FixUnless("VEL", opt, vel))
      /\ InRange("so3", n, t) /\ InRange("vel", n, t)
  BY DEF AddLegMeasurement
<1>2. /\ t \in Nat
      /\ \A b \in KnotsAt("so3", {t}) : b[1] = "so3" /\ b[2] \in 0 .. n[b[1]] - 1
      /\ \A b \in KnotsAt("vel", {t}) : b[1] = "vel" /\ b[2] \in 0 .. n[b[1]] - 1
  BY <1>1, KnotsInRange DEF Splines
<1>3. /\ Fit(p, dp, rp) /\ Len(p) = NumParameters(so3Meta) + NumParameters(velMeta) /\ Len(p) \in Nat
      /\ \A b : b \in ToSet(p) <=> b \in KnotsAt("so3", {t}) \/ b \in KnotsAt("vel", {t})
  <2>1. SizeOf["so3"] = 4 /\ SizeOf["vel"] = 3 /\ "so3" \in Splines /\ "vel" \in Splines
    BY DEF SizeOf, Splines
  <2> QED
    BY <1>2, <2>1, FitBoth
<1>4. ToSet(so3) = KnotsAt("so3", {t})
  BY <1>2, FitOne DEF Splines
<1>5. R = LegVelFactor(so3Meta, velMeta, t)
  <2>1. {Read(Len(p) + r.at, r.want) : r \in rq} = {Read(Len(p), <<Bv>>)}
    BY <1>3
  <2> HIDE DEF Read, p, so3Meta, velMeta, rq
  <2> QED
    BY <1>3, <2>1 DEF LegVelFactor
<1> HIDE DEF so3Meta, velMeta, so3, vel, p, dp, rp
<1>6. Fit(q, <<2>>, rq) /\ \A b : b \in ToSet(q) <=> b = Bv
  <2>1. SizeOf[Bv[1]] = 2
    BY DEF SizeOf, Bv
  <2> QED
    BY <2>1, FitVector
<1> HIDE DEF q, rq
<1>7. \A b \in ToSet(p) : b \notin ToSet(q)
  BY <1>2, <1>3, <1>6, VectorNames
<1>8. Fit(p \o q, dp \o <<2>>, R) /\ \A b : b \in ToSet(p \o q) <=> b \in ToSet(p) \/ b \in ToSet(q)
  BY <1>3, <1>6, <1>7, FitJoined
<1> HIDE DEF R
<1>9. /\ f.kind = "leg" /\ f.blocks = p \o q /\ f.declared = dp \o <<2>>
      /\ f.reads = R /\ f.onManifold = ToSet(so3) /\ f.fixed = {}
  BY <1>1, <1>5 DEF Factor, FixUnless
<1>10. Within(n, ToSet(p \o q))
  BY <1>2, <1>3, <1>6, <1>8, VectorNames DEF Within
<1>11. \A b \in ToSet(p \o q) : b[1] \in {"so3", "grav", "gravity"} => b \in f.onManifold
  BY <1>2, <1>3, <1>4, <1>6, <1>8, <1>9, VectorNames
<1>12. \A b \in ToSet(p \o q) : b[1] # "grav"
  BY <1>2, <1>3, <1>6, <1>8, VectorNames DEF Splines
<1>13. \A b : b \in ToSet(p \o q) <=> b \in KnotsAt("so3", {t}) \/ b \in KnotsAt("vel", {t}) \/ b = Bv
  BY <1>3, <1>6, <1>8
<1> QED
  BY <1>1, <1>6, <1>8, <1>9, <1>10, <1>11, <1>12, <1>13 DEF Added, Sound

\* A gravity constraint: its time is in reach of the rotation spline, as the
\* gravity spline is as long.
LEMMA OfGravitySpline ==
  ASSUME NEW n \in [Splines -> Nat], n["grav"] = n["so3"], NEW t \in Int,
         NEW f \in AddGravitySplineConstraint(n, t)
  PROVE  /\ InRange("grav", n, t) /\ Added(f, "gravSpline", n) /\ f.fixed = {}
         /\ \A b : b \in ToSet(f.blocks) <=> b \in KnotsAt("grav", {t}) \/ b \in KnotsAt("so3", {t})
<1> DEFINE so3Meta == SplineMeta("so3", <<t>>)
           gravMeta == SplineMeta("grav", <<t>>)
           so3 == KnotsData("so3", so3Meta)
           grav == KnotsData("grav", gravMeta)
<1>1. /\ f = Factor("gravSpline", Sizes(3, gravMeta) \o Sizes(4, so3Meta), grav \o so3,
                    GravitySplineFactor(gravMeta, so3Meta, t), ToSet(grav) \union ToSet(so3), {})
      /\ InRange("grav", n, t)
  BY DEF AddGravitySplineConstraint
<1>2. /\ t \in Nat
      /\ \A b \in KnotsAt("so3", {t}) : b[1] = "so3" /\ b[2] \in 0 .. n[b[1]] - 1
      /\ \A b \in KnotsAt("grav", {t}) : b[1] = "grav" /\ b[2] \in 0 .. n[b[1]] - 1
  <2>1. InRange("so3", n, t)
    BY <1>1, SplineConstants DEF InRange, MaxTimeOf
  <2> QED
    BY <1>1, <2>1, KnotsInRange DEF Splines
<1>3. /\ Fit(grav \o so3, Sizes(3, gravMeta) \o Sizes(4, so3Meta), GravitySplineFactor(gravMeta, so3Meta, t))
      /\ \A b : b \in ToSet(grav \o so3) <=> b \in KnotsAt("grav", {t}) \/ b \in KnotsAt("so3", {t})
  <2>1. SizeOf["so3"] = 4 /\ SizeOf["grav"] = 3 /\ "so3" \in Splines /\ "grav" \in Splines
    BY DEF SizeOf, Splines
  <2> QED
    BY <1>2, <2>1, FitBoth DEF GravitySplineFactor
<1>4. ToSet(so3) = KnotsAt("so3", {t}) /\ ToSet(grav) = KnotsAt("grav", {t})
  BY <1>2, FitOne DEF Splines
<1> HIDE DEF so3Meta, gravMeta, so3, grav
<1>5. /\ f.kind = "gravSpline" /\ f.blocks = grav \o so3
      /\ f.declared = Sizes(3, gravMeta) \o Sizes(4, so3Meta)
      /\ f.reads = GravitySplineFactor(gravMeta, so3Meta, t)
      /\ f.onManifold = ToSet(grav) \union ToSet(so3) /\ f.fixed = {}
  BY <1>1 DEF Factor
<1>6. Within(n, ToSet(grav \o so3))
  BY <1>2, <1>3 DEF Within
<1>7. \A b \in ToSet(grav \o so3) : b \in f.onManifold
  BY <1>3, <1>4, <1>5
<1> QED
  BY <1>1, <1>3, <1>5, <1>6, <1>7 DEF Added, Sound

\* The gravity between two times, from knots that the two times may share.
LEMMA OfGravityRot ==
  ASSUME NEW n \in [Splines -> Nat], NEW st \in Int, NEW et \in Int, st <= et,
         NEW f \in AddGravityRotConstraint(n, st, et)
  PROVE  /\ InRange("grav", n, st) /\ Added(f, "gravRot", n) /\ f.fixed = {}
         /\ \A b \in ToSet(f.blocks) : b \in KnotsAt("grav", {st}) \/ b[1] = "vel"
         /\ \A b \in ToSet(f.blocks) :
              b \in KnotsAt("grav", {st}) \/ b \in KnotsAt("vel", {st}) \/ b \in KnotsAt("vel", {et})
<1> DEFINE gravMeta == SplineMeta("grav", <<st>>)
           velMeta == SplineMeta("vel", <<st, et>>)
           grav == KnotsData("grav", gravMeta)
           vel == KnotsData("vel", velMeta)
           T == {st}
           T2 == {st, et}
           R == {ReadSpline(SplineIndex("grav", gravMeta, t), "grav", t) : t \in T}
           R2 == {ReadSpline(NumParameters(gravMeta) + SplineIndex("vel", velMeta, t), "vel", t) : t \in T2}
<1>1. /\ f = Factor("gravRot", Sizes(3, gravMeta) \o Sizes(3, velMeta), grav \o vel,
                    GravityUpdateFactor(gravMeta, velMeta, st, et), ToSet(grav), {})
      /\ InRange("grav", n, st) /\ InRange("vel", n, st) /\ InRange("vel", n, et)
  BY DEF AddGravityRotConstraint
<1>2. /\ st \in Nat /\ et \in Nat
      /\ \A b \in KnotsAt("grav", {st}) : b[1] = "grav" /\ b[2] \in 0 .. n[b[1]] - 1
      /\ \A b \in KnotsAt("vel", {st}) : b[1] = "vel" /\ b[2] \in 0 .. n[b[1]] - 1
      /\ \A b \in KnotsAt("vel", {et}) : b[1] = "vel" /\ b[2] \in 0 .. n[b[1]] - 1
  BY <1>1, KnotsInRange DEF Splines
<1>3. \A b : b \in KnotsAt("vel", {st, et}) <=> b \in KnotsAt("vel", {st}) \/ b \in KnotsAt("vel", {et})
  BY KnotsAtTwo
<1>4. R \union R2 = GravityUpdateFactor(gravMeta, velMeta, st, et)
  <2> HIDE DEF gravMeta, velMeta
  <2> QED
    BY DEF GravityUpdateFactor
<1>5. MetaFor("grav", gravMeta, T) /\ MetaFor("vel", velMeta, T2)
  BY <1>2, MetaOfOne, MetaOfTwo DEF Splines
<1> HIDE DEF gravMeta, velMeta, T, T2
<1>6. /\ Fit(grav \o vel, Sizes(3, gravMeta) \o Sizes(3, velMeta), R \union R2)
      /\ \A b : b \in ToSet(grav \o vel) <=> b \in KnotsAt("grav", T) \/ b \in KnotsAt("vel", T2)
  <2>1. SizeOf["vel"] = 3 /\ SizeOf["grav"] = 3 /\ "vel" \in Splines /\ "grav" \in Splines
    BY DEF SizeOf, Splines
  <2>2. /\ Fit(grav \o vel, Sizes(SizeOf["grav"], gravMeta) \o Sizes(SizeOf["vel"], velMeta), {})
        /\ \A t \in T : Finds(grav \o vel, ReadSpline(SplineIndex("grav", gravMeta, t), "grav", t))
        /\ \A t \in T2 : Finds(grav \o vel,
                               ReadSpline(NumParameters(gravMeta) + SplineIndex("vel", velMeta, t), "vel", t))
        /\ \A b : b \in ToSet(grav \o vel) <=> b \in KnotsAt("grav", T) \/ b \in KnotsAt("vel", T2)
    BY <1>5, <2>1, FitMetasFinds
  <2> HIDE DEF grav, vel
  <2> QED
    BY <2>1, <2>2 DEF Fit
<1>7. ToSet(grav) = KnotsAt("grav", T)
  BY <1>5, FitMeta DEF Splines
<1> HIDE DEF grav, vel, R, R2
<1>8. /\ f.kind = "gravRot" /\ f.blocks = grav \o vel
      /\ f.declared = Sizes(3, gravMeta) \o Sizes(3, velMeta)
      /\ f.reads = GravityUpdateFactor(gravMeta, velMeta, st, et)
      /\ f.onManifold = ToSet(grav) /\ f.fixed = {}
  BY <1>1 DEF Factor
<1>11. T = {st} /\ T2 = {st, et}
  BY DEF T, T2
<1>9. Within(n, ToSet(grav \o vel))
  BY <1>2, <1>3, <1>6, <1>11 DEF Within
<1>10. \A b \in ToSet(grav \o vel) : b[1] \in {"so3", "grav", "gravity"} => b \in f.onManifold
  BY <1>2, <1>3, <1>6, <1>7, <1>8, <1>11
<1> QED
  BY <1>1, <1>2, <1>3, <1>4, <1>6, <1>8, <1>9, <1>10, <1>11 DEF Added, Sound

\* A rotation prior, if its second time is in range, which the code does not ask.
LEMMA OfRotPrior ==
  ASSUME NEW n \in [Splines -> Nat], NEW st \in Int, NEW dt \in Nat,
         InRange("so3", n, st), InRange("so3", n, st + dt), NEW f \in AddRotPrior(n, st, dt)
  PROVE  /\ Added(f, "rotPrior", n) /\ f.fixed = {}
         /\ \A b \in ToSet(f.blocks) : b \in KnotsAt("so3", {st}) \/ b \in KnotsAt("so3", {st + dt})
<1> DEFINE et == st + dt
           meta == SplineMeta("so3", <<st, et>>)
           q == KnotsData("so3", meta)
           T == {st, et}
           R == {ReadSpline(SplineIndex("so3", meta, t), "so3", t) : t \in T}
<1>1. f = Factor("rotPrior", Sizes(4, meta), q, RotPriorFactor(meta, st, dt), ToSet(q), {})
  BY DEF AddRotPrior
<1>2. /\ st \in Nat /\ et \in Nat /\ st <= et
      /\ \A b \in KnotsAt("so3", {st}) : b[1] = "so3" /\ b[2] \in 0 .. n[b[1]] - 1
      /\ \A b \in KnotsAt("so3", {et}) : b[1] = "so3" /\ b[2] \in 0 .. n[b[1]] - 1
  <2>1. st \in Nat /\ et \in Int /\ st <= et
    BY DEF InRange
  <2> QED
    BY <2>1, KnotsInRange DEF Splines
<1>3. \A b : b \in KnotsAt("so3", {st, et}) <=> b \in KnotsAt("so3", {st}) \/ b \in KnotsAt("so3", {et})
  BY KnotsAtTwo
<1> HIDE DEF et
<1>4. MetaFor("so3", meta, T)
  BY <1>2, MetaOfTwo DEF Splines
<1> HIDE DEF meta
<1>5. R = RotPriorFactor(meta, st, dt)
  BY DEF RotPriorFactor, et
<1>9. T = {st, et}
  OBVIOUS
<1> HIDE DEF T
<1>6. Fit(q, Sizes(4, meta), R) /\ ToSet(q) = KnotsAt("so3", T)
  <2>1. SizeOf["so3"] = 4 /\ "so3" \in Splines
    BY DEF SizeOf, Splines
  <2> QED
    BY <1>4, <2>1, FitMeta
<1> HIDE DEF q, R
<1>7. /\ f.kind = "rotPrior" /\ f.blocks = q /\ f.declared = Sizes(4, meta) /\ f.reads = R
      /\ f.onManifold = ToSet(q) /\ f.fixed = {}
  BY <1>1, <1>5 DEF Factor
<1>8. Within(n, ToSet(q))
  BY <1>2, <1>3, <1>6, <1>9 DEF Within
<1>10. \A b \in ToSet(q) : b \in KnotsAt("so3", {st}) \/ b \in KnotsAt("so3", {st + dt})
  BY <1>3, <1>6, <1>9 DEF et
<1> QED
  BY <1>6, <1>7, <1>8, <1>10 DEF Added, Sound

\* A rotation refinement by index: only the rotation knot is free.
LEMMA OfRotRefine ==
  ASSUME NEW n \in [Splines -> Nat], n["grav"] = n["so3"], NEW idx \in Nat, idx < n["so3"]
  PROVE  LET f == AddRotRefine(idx)
         IN /\ Added(f, "rotRefine", n)
            /\ \A b \in ToSet(f.blocks) : b \notin f.fixed <=> b[1] = "so3"
            /\ \A b \in f.fixed : b[1] # "so3"
            /\ \A b \in ToSet(f.blocks) : b = Gravity \/ (b[1] \in {"so3", "grav"} /\ b[2] = idx)
<1> DEFINE f == AddRotRefine(idx)
           q == <<Knot("so3", idx), Knot("grav", idx), Gravity>>
<1>1. /\ f.kind = "rotRefine" /\ f.blocks = q /\ f.declared = <<4, 3, 3>>
      /\ f.reads = RotRefineFactor(idx) /\ f.onManifold = {Knot("so3", idx), Knot("grav", idx), Gravity}
      /\ f.fixed = {Knot("grav", idx), Gravity}
  BY DEF AddRotRefine, Factor
<1>2. /\ Fit(q, <<4, 3, 3>>, RotRefineFactor(idx))
      /\ \A b : b \in ToSet(q) <=> b \in {Knot("so3", idx), Knot("grav", idx), Gravity}
  BY FitRefine
<1> HIDE DEF q, f
<1>3. Within(n, ToSet(q))
  <2>1. n["so3"] \in Nat /\ n["grav"] \in Nat
    BY DEF Splines
  <2>2. idx \in 0 .. n["so3"] - 1 /\ idx \in 0 .. n["grav"] - 1
    BY <2>1
  <2> QED
    BY <1>2, <2>2, VectorNames DEF Within
<1>4. \A b \in ToSet(q) : b \notin {Knot("grav", idx), Gravity} <=> b[1] = "so3"
  BY <1>2, VectorNames
<1>5. Added(f, "rotRefine", n) /\ \A b \in ToSet(f.blocks) : b \notin f.fixed <=> b[1] = "so3"
  BY <1>1, <1>2, <1>3, <1>4 DEF Added, Sound
<1>6. \A b \in f.fixed : b[1] # "so3"
  BY <1>1, VectorNames DEF Knot
<1>7. \A b \in ToSet(f.blocks) : b = Gravity \/ (b[1] \in {"so3", "grav"} /\ b[2] = idx)
  BY <1>1, <1>2 DEF Knot
<1> QED
  BY <1>5, <1>6, <1>7 DEF f

\* The factors of one vector.
LEMMA OfVector ==
  ASSUME NEW n, NEW f, NEW v \in {Ba, Bv, Gravity}, f.blocks = <<v>>, f.declared = <<SizeOf[v[1]]>>,
         f.reads = {Read(0, <<v>>)}, v = Gravity => v \in f.onManifold
  PROVE  Added(f, f.kind, n) /\ \A b : b \in ToSet(f.blocks) <=> b = v
<1>1. Fit(<<v>>, <<SizeOf[v[1]]>>, {Read(0, <<v>>)}) /\ \A b : b \in ToSet(<<v>>) <=> b = v
  BY FitVector
<1> HIDE DEF Read
<1>2. \A b \in ToSet(<<v>>) : b[1] \notin Splines /\ (b[1] \in {"so3", "grav", "gravity"} => b \in f.onManifold)
  BY <1>1, VectorNames DEF Splines
<1> QED
  BY <1>1, <1>2 DEF Added, Sound, Within

\* The one factor of the gravity recovery.
LEMMA OfVelPIM ==
  ASSUME NEW n, NEW opt, "GRAVITY" \in opt, NEW f, f = AddVelPIMForGravityRecovery(opt)
  PROVE  Added(f, "velPIM", n) /\ f.fixed = {}
<1>1. /\ f.kind = "velPIM" /\ f.blocks = <<Gravity>> /\ f.declared = <<3>>
      /\ f.reads = {Read(0, <<Gravity>>)} /\ f.onManifold = {Gravity} /\ f.fixed = {}
  BY DEF AddVelPIMForGravityRecovery, GravityFactor, FixUnless, Factor
<1>2. SizeOf[Gravity[1]] = 3
  BY DEF SizeOf, Gravity
<1> HIDE DEF Read
<1>3. Added(f, f.kind, n) /\ \A b : b \in ToSet(f.blocks) <=> b = Gravity
  BY <1>1, <1>2, OfVector
<1> QED
  BY <1>1, <1>3

\* The factor of a system at rest.
LEMMA OfStationary ==
  ASSUME NEW n, NEW f, f = AddStationaryGravity
  PROVE  Added(f, "stationary", n) /\ f.fixed = {}
<1>1. /\ f.kind = "stationary" /\ f.blocks = <<Gravity>> /\ f.declared = <<3>>
      /\ f.reads = {Read(0, <<Gravity>>)} /\ f.onManifold = {Gravity} /\ f.fixed = {}
  BY DEF AddStationaryGravity, GravityStationaryFactor, Factor
<1>2. SizeOf[Gravity[1]] = 3
  BY DEF SizeOf, Gravity
<1> HIDE DEF Read
<1>3. Added(f, f.kind, n) /\ \A b : b \in ToSet(f.blocks) <=> b = Gravity
  BY <1>1, <1>2, OfVector
<1> QED
  BY <1>1, <1>3

\* The prior of the accelerometer bias.
LEMMA OfAcceBiasPriori ==
  ASSUME NEW n, NEW opt, "BA" \in opt, NEW f, f = AddAcceBiasPriori(opt)
  PROVE  Added(f, "baPriori", n) /\ f.fixed = {} /\ \A b : b \in ToSet(f.blocks) <=> b = Ba
<1>1. /\ f.kind = "baPriori" /\ f.blocks = <<Ba>> /\ f.declared = <<3>>
      /\ f.reads = {Read(0, <<Ba>>)} /\ f.onManifold = {} /\ f.fixed = {}
  BY DEF AddAcceBiasPriori, BiasFactor, FixUnless, Factor
<1>2. SizeOf[Ba[1]] = 3 /\ Ba # Gravity
  BY DEF SizeOf, Ba, Gravity
<1> HIDE DEF Read
<1>3. Added(f, f.kind, n) /\ \A b : b \in ToSet(f.blocks) <=> b = Ba
  BY <1>1, <1>2, OfVector
<1> QED
  BY <1>1, <1>3

\* The prior of the velocity bias.
LEMMA OfVelBiasPriori ==
  ASSUME NEW n, NEW opt, "BA" \in opt, NEW f, f = AddVelBiasPriori(opt)
  PROVE  Added(f, "bvPriori", n) /\ f.fixed = {} /\ \A b : b \in ToSet(f.blocks) <=> b = Bv
<1>1. /\ f.kind = "bvPriori" /\ f.blocks = <<Bv>> /\ f.declared = <<2>>
      /\ f.reads = {Read(0, <<Bv>>)} /\ f.onManifold = {} /\ f.fixed = {}
  BY DEF AddVelBiasPriori, VelBiasFactor, FixUnless, Factor
<1>2. SizeOf[Bv[1]] = 2 /\ Bv # Gravity
  BY DEF SizeOf, Bv, Gravity
<1> HIDE DEF Read
<1>3. Added(f, f.kind, n) /\ \A b : b \in ToSet(f.blocks) <=> b = Bv
  BY <1>1, <1>2, OfVector
<1> QED
  BY <1>1, <1>3

\* A tail: three knots in a row that are there.
LEMMA OfTail ==
  ASSUME NEW n \in [Splines -> Nat], NEW s \in Splines, NEW c \in Nat, c + 2 < n[s],
         NEW kind, NEW onManifold, NEW fixed, NEW size, size = SizeOf[s]
  PROVE  LET f == Factor(kind, <<size, size, size>>, Run(s, c, 3), TailFactor(s, c), onManifold, fixed)
         IN /\ f.kind = kind /\ Sound(f, n) /\ f.fixed = fixed /\ f.onManifold = onManifold
            /\ f.blocks = Run(s, c, 3)
            /\ \A b : b \in ToSet(f.blocks) <=> \E k \in c .. c + 2 : b = <<s, k>>
<1> DEFINE q == Run(s, c, 3)
           f == Factor(kind, <<size, size, size>>, q, TailFactor(s, c), onManifold, fixed)
<1>1. /\ f.kind = kind /\ f.blocks = q /\ f.declared = <<size, size, size>>
      /\ f.reads = TailFactor(s, c) /\ f.onManifold = onManifold /\ f.fixed = fixed
  BY DEF Factor
<1>2. /\ Fit(q, <<size, size, size>>, TailFactor(s, c))
      /\ \A b : b \in ToSet(q) <=> \E k \in c .. c + 2 : b = <<s, k>>
  BY FitTail
<1> HIDE DEF f, q
<1>3. Within(n, ToSet(q))
  <2>1. n[s] \in Nat /\ \A k \in c .. c + 2 : k \in 0 .. n[s] - 1
    OBVIOUS
  <2> QED
    BY <1>2, <2>1 DEF Within
<1>4. /\ f.kind = kind /\ Sound(f, n) /\ f.fixed = fixed /\ f.onManifold = onManifold
      /\ f.blocks = q
      /\ \A b : b \in ToSet(f.blocks) <=> \E k \in c .. c + 2 : b = <<s, k>>
  BY <1>1, <1>2, <1>3 DEF Sound
<1> QED
  BY <1>4 DEF f, q

\* The tails take the last Order knots.
LEMMA LastKnots ==
  ASSUME NEW n \in [Splines -> Nat], NEW s \in Splines, Order <= n[s], NEW j \in 0 .. Order - 3
  PROVE  LET c == j + n[s] - Order
         IN c \in Nat /\ c + 2 < n[s] /\ TailKnots(s, n, j) = Run(s, c, 3)
<1>1. Order \in Nat /\ n[s] \in Nat /\ j \in Int
  BY SplineConstants
<1>2. \A i \in 1 .. 3 : j + i - 1 + n[s] - Order = j + n[s] - Order + i - 1
  BY <1>1
<1> DEFINE c == j + n[s] - Order
<1>3. c \in Nat /\ c + 2 < n[s]
  BY <1>1
<1>4. TailKnots(s, n, j) = Run(s, c, 3)
  BY <1>2 DEF TailKnots, Run
<1> QED
  BY <1>3, <1>4

\* The tail of the velocity spline.
LEMMA OfVelTail ==
  ASSUME NEW n \in [Splines -> Nat], Order <= n["vel"], NEW opt, "VEL" \in opt,
         NEW f \in AddVelSplineTailConstraint(n, opt)
  PROVE  /\ Added(f, "velTail", n) /\ f.fixed = {}
         /\ \A b \in ToSet(f.blocks) : b[1] = "vel" /\ b[2] >= n["vel"] - Order
<1>1. PICK j \in 0 .. Order - 3 :
        f = Factor("velTail", <<3, 3, 3>>, TailKnots("vel", n, j), TailFactor("vel", j + n["vel"] - Order),
                   {}, FixUnless("VEL", opt, TailKnots("vel", n, j)))
  BY DEF AddVelSplineTailConstraint
<1> DEFINE c == j + n["vel"] - Order
<1>2. c \in Nat /\ c + 2 < n["vel"] /\ TailKnots("vel", n, j) = Run("vel", c, 3)
  BY LastKnots DEF Splines
<1>7. c >= n["vel"] - Order
  BY SplineConstants DEF Splines
<1>3. f = Factor("velTail", <<3, 3, 3>>, Run("vel", c, 3), TailFactor("vel", c), {}, {})
  BY <1>1, <1>2 DEF FixUnless
<1> HIDE DEF c
<1>4. SizeOf["vel"] = 3 /\ "vel" \in Splines
  BY DEF SizeOf, Splines
<1>5. /\ f.kind = "velTail" /\ Sound(f, n) /\ f.fixed = {}
      /\ \A b : b \in ToSet(f.blocks) <=> \E k \in c .. c + 2 : b = <<"vel", k>>
  BY <1>2, <1>3, <1>4, OfTail
<1>6. \A b \in ToSet(f.blocks) : b[1] = "vel" /\ b[2] \in c .. c + 2
  BY <1>5
<1>8. \A b \in ToSet(f.blocks) : b[2] >= n["vel"] - Order
  BY <1>2, <1>6, <1>7, SplineConstants DEF Splines
<1> QED
  BY <1>5, <1>6, <1>8 DEF Added

\* The tail of the rotation spline sets its manifolds itself.
LEMMA OfSo3Tail ==
  ASSUME NEW n \in [Splines -> Nat], Order <= n["so3"], NEW opt, "SO3" \in opt,
         NEW f \in AddSo3SplineTailConstraint(n, opt)
  PROVE  /\ Added(f, "so3Tail", n) /\ f.fixed = {}
         /\ \A b \in ToSet(f.blocks) : b[1] = "so3" /\ b[2] >= n["so3"] - Order
<1>1. PICK j \in 0 .. Order - 3 :
        f = Factor("so3Tail", <<4, 4, 4>>, TailKnots("so3", n, j), TailFactor("so3", j + n["so3"] - Order),
                   ToSet(TailKnots("so3", n, j)), FixUnless("SO3", opt, TailKnots("so3", n, j)))
  BY DEF AddSo3SplineTailConstraint
<1> DEFINE c == j + n["so3"] - Order
<1>2. c \in Nat /\ c + 2 < n["so3"] /\ TailKnots("so3", n, j) = Run("so3", c, 3)
  BY LastKnots DEF Splines
<1>7. c >= n["so3"] - Order
  BY SplineConstants DEF Splines
<1>3. f = Factor("so3Tail", <<4, 4, 4>>, Run("so3", c, 3), TailFactor("so3", c), ToSet(Run("so3", c, 3)), {})
  BY <1>1, <1>2 DEF FixUnless
<1> HIDE DEF c
<1>4. SizeOf["so3"] = 4 /\ "so3" \in Splines
  BY DEF SizeOf, Splines
<1>5. /\ f.kind = "so3Tail" /\ Sound(f, n) /\ f.fixed = {}
      /\ f.onManifold = ToSet(Run("so3", c, 3)) /\ f.blocks = Run("so3", c, 3)
      /\ \A b : b \in ToSet(f.blocks) <=> \E k \in c .. c + 2 : b = <<"so3", k>>
  BY <1>2, <1>3, <1>4, OfTail
<1>6. \A b \in ToSet(f.blocks) : b[1] = "so3" /\ b[2] \in c .. c + 2
  BY <1>5
<1>8. \A b \in ToSet(f.blocks) : b[2] >= n["so3"] - Order
  BY <1>2, <1>6, <1>7, SplineConstants DEF Splines
<1> QED
  BY <1>5, <1>6, <1>8 DEF Added

\* The tail of the gravity spline does not, and counts on other factors.
LEMMA OfGravTail ==
  ASSUME NEW n \in [Splines -> Nat], NEW c \in Nat, c + 2 < n["grav"], NEW opt, "VEL" \in opt,
         NEW f \in AddGravSplineTailConstraint(c, opt)
  PROVE  /\ f.kind = "gravTail" /\ Sound(f, n) /\ f.fixed = {}
         /\ \A b : b \in ToSet(f.blocks) <=> \E k \in c .. c + 2 : b = <<"grav", k>>
<1>1. f = Factor("gravTail", <<3, 3, 3>>, Run("grav", c, 3), TailFactor("grav", c), {}, {})
  BY DEF AddGravSplineTailConstraint, Run, FixUnless
<1>2. SizeOf["grav"] = 3 /\ "grav" \in Splines
  BY DEF SizeOf, Splines
<1> QED
  BY <1>1, <1>2, OfTail

-------------------------------------------------------------------------------
(* Numbers, and how splines grow.                                          *)

\* Every set of numbers that is not empty has a least one.
LEMMA MinOfNats ==
  ASSUME NEW S \in SUBSET Nat, S # {}
  PROVE  Min(S) \in S /\ \A x \in S : Min(S) <= x
<1> DEFINE R == OpToRel(<, Nat)
<1>1. IsWellFoundedOn(R, Nat)
  BY NatLessThanWellFounded
<1>2. \A x \in Nat, y \in Nat : y < x => <<y, x>> \in R
  BY DEF OpToRel
<1> HIDE DEF R
<1>3. PICK x \in S : \A y \in S : ~ (<<y, x>> \in R)
  BY <1>1, WFMin
<1>4. ASSUME NEW y \in S PROVE x <= y
  <2>1. x \in Nat /\ y \in Nat
    OBVIOUS
  <2>2. ~ (y < x)
    BY <1>2, <1>3, <2>1, Zenon
  <2> QED
    BY <2>1, <2>2
<1> QED
  BY <1>4 DEF Min

\* Every finite one has a largest: one with the fewest above it.
LEMMA MaxOfNats ==
  ASSUME NEW S \in SUBSET Nat, S # {}, IsFiniteSet(S)
  PROVE  Max(S) \in S /\ \A x \in S : x <= Max(S)
<1> DEFINE Above(x) == {y \in S : y > x}
           C == {Cardinality(Above(x)) : x \in S}
<1>1. \A x \in S : IsFiniteSet(Above(x)) /\ Cardinality(Above(x)) \in Nat
  <2> TAKE x \in S
  <2>1. Above(x) \in SUBSET S
    OBVIOUS
  <2> QED
    BY <2>1, FS_Subset, FS_CardinalityType
<1>2. Min(C) \in C /\ \A c \in C : Min(C) <= c
  <2>1. C \in SUBSET Nat /\ C # {}
    BY <1>1
  <2> HIDE DEF C
  <2> QED
    BY <2>1, MinOfNats
<1>3. PICK x \in S : Cardinality(Above(x)) = Min(C)
  BY <1>2
<1>4. ASSUME NEW y \in S, y > x
      PROVE  FALSE
  <2>1. Above(y) \in SUBSET Above(x) /\ y \in Above(x) /\ y \notin Above(y)
    <3>1. x \in Nat /\ y \in Nat /\ \A z \in S : z \in Nat
      OBVIOUS
    <3>2. \A z \in S : z > y => z > x
      BY <1>4, <3>1
    <3>3. ~ (y > y)
      BY <3>1
    <3> QED
      BY <1>4, <3>2, <3>3
  <2>2. Cardinality(Above(y)) <= Cardinality(Above(x)) /\ Above(y) # Above(x)
    BY <1>1, <2>1, FS_Subset
  <2>3. Cardinality(Above(y)) # Cardinality(Above(x))
    BY <1>1, <2>1, <2>2, FS_Subset
  <2>4. Cardinality(Above(x)) <= Cardinality(Above(y))
    BY <1>2, <1>3
  <2> QED
    BY <1>1, <2>2, <2>3, <2>4
<1>5. \A y \in S : x >= y
  BY <1>4
<1> QED
  BY <1>5 DEF Max

\* The larger and the smaller of two.
LEMMA MaxOfTwo ==
  ASSUME NEW a \in Int, NEW b \in Int
  PROVE  /\ Max({a, b}) = IF a >= b THEN a ELSE b
         /\ Min({a, b}) = IF a <= b THEN a ELSE b
<1>1. Max({a, b}) = IF a >= b THEN a ELSE b
  BY DEF Max
<1>2. Min({a, b}) = IF a <= b THEN a ELSE b
  BY DEF Min
<1> QED
  BY <1>1, <1>2

\* New splines: a time in reach of the velocity spline is in reach of the
\* rotation spline.
LEMMA Created ==
  ASSUME NEW end \in Nat, NEW n, n = [s \in Splines |-> CreateSpline(s, end)]
  PROVE  /\ n \in [Splines -> Nat] /\ n["grav"] = n["so3"]
         /\ \A s \in Splines : Order <= n[s]
         /\ \A t \in Int : InRange("vel", n, t) => InRange("so3", n, t)
<1> DEFINE up(s) == (end + KnotDist[s] - 1) \div KnotDist[s]
<1>1. ASSUME NEW s \in Splines
      PROVE  up(s) \in Nat /\ n[s] = IF up(s) >= 1 THEN Order - 1 + up(s) ELSE Order
  <2>1. KnotDist[s] \in Nat \ {0} /\ Order \in Nat
    BY SplineConstants
  <2>2. up(s) \in Nat
    <3>1. \A t \in Nat, d \in Nat \ {0} : (t + d - 1) \div d \in Nat
      OBVIOUS
    <3> QED
      BY <2>1, <3>1
  <2>3. n[s] = Max({Order, Order - 1 + up(s)})
    BY DEF CreateSpline
  <2> HIDE DEF up
  <2> QED
    BY <2>1, <2>2, <2>3, MaxOfTwo
<1>2. \A s \in Splines : n[s] \in Nat /\ Order <= n[s]
  <2> HIDE DEF up
  <2> QED
    BY <1>1, SplineConstants
<1>3. n["grav"] = n["so3"]
  BY SplineConstants DEF CreateSpline, Splines
<1>4. ASSUME NEW t \in Int, InRange("vel", n, t)
      PROVE  InRange("so3", n, t)
  <2> DEFINE dv == KnotDist["vel"]
             ds == KnotDist["so3"]
             uv == up("vel")
             us == up("so3")
             cv == n["vel"] - Order + 1
             cs == n["so3"] - Order + 1
             q == ds \div dv
  <2>1. dv \in Nat \ {0} /\ ds \in Nat \ {0} /\ ds % dv = 0 /\ Order \in Nat
    BY SplineConstants DEF Splines
  <2>2. /\ uv \in Nat /\ cv = IF uv >= 1 THEN uv ELSE 1
        /\ us \in Nat /\ cs = IF us >= 1 THEN us ELSE 1
    <3>1. /\ uv \in Nat /\ n["vel"] = IF uv >= 1 THEN Order - 1 + uv ELSE Order
          /\ us \in Nat /\ n["so3"] = IF us >= 1 THEN Order - 1 + us ELSE Order
      BY <1>1 DEF Splines
    <3> HIDE DEF uv, us
    <3> QED
      BY <2>1, <3>1
  <2>3. q \in Nat /\ ds = dv * q
    BY <2>1
  <2>4. end <= ds * us
    <3>1. \A d \in Nat \ {0} : end <= d * ((end + d - 1) \div d)
      OBVIOUS
    <3> QED
      BY <2>1, <3>1
  <2>5. \A m \in Nat : end <= m * dv => uv <= m
    <3> SUFFICES ASSUME NEW m \in Nat, end <= m * dv PROVE uv < m + 1
      BY <2>2
    <3>1. end + dv - 1 < (m + 1) * dv
      BY <2>1
    <3>2. \A d \in Nat \ {0}, u \in Int, k \in Int : u < k * d => u \div d < k
      OBVIOUS
    <3>3. end + dv - 1 \in Int /\ m + 1 \in Int
      BY <2>1
    <3>4. (end + dv - 1) \div dv < m + 1
      <4> HIDE DEF dv
      <4> QED
        BY <2>1, <3>1, <3>2, <3>3
    <3> QED
      BY <3>4
  <2> HIDE DEF dv, ds, uv, us, cv, cs, q
  <2>6. q >= 1 /\ cs \in Nat \ {0} /\ cv \in Nat \ {0}
    BY <2>1, <2>2, <2>3
  <2>7. end <= ds * cs
    BY <2>1, <2>2, <2>4, <2>6
  <2> DEFINE m == q * cs
  <2>8. m \in Nat \ {0} /\ m * dv = cs * ds
    BY <2>1, <2>3, <2>6
  <2> HIDE DEF m
  <2>9. cv <= m
    BY <2>1, <2>2, <2>5, <2>7, <2>8, <2>6
  <2>10. cv * dv <= cs * ds
    BY <2>1, <2>6, <2>8, <2>9
  <2>11. 0 <= t /\ t < cv * dv
    BY <1>4 DEF InRange, MaxTimeOf, cv, dv
  <2>12. cv * dv \in Int /\ cs * ds \in Int
    BY <2>1, <2>6
  <2>13. 0 <= t /\ t < cs * ds
    BY <2>10, <2>11, <2>12
  <2> QED
    BY <2>13 DEF InRange, MaxTimeOf, cs, ds
<1> QED
  BY <1>2, <1>3, <1>4

\* Splines extended for a window reach all of it.
LEMMA Grown ==
  ASSUME NEW n \in [Splines -> Nat], NEW end \in Nat
  PROVE  LET m == Extended(n, end)
         IN /\ m \in [Splines -> Nat] /\ m["grav"] = m["so3"]
            /\ \A s \in Splines : Order <= m[s] /\ end < MaxTimeOf(s, m[s])
            /\ n["grav"] = n["so3"] => \A s \in Splines : n[s] <= m[s]
<1> DEFINE m == Extended(n, end)
           Like(s) == IF s = "grav" THEN "so3" ELSE s
<1>1. ASSUME NEW s \in Splines
      PROVE  m[s] \in Nat /\ Order <= m[s] /\ end < MaxTimeOf(s, m[s]) /\ n[Like(s)] <= m[s]
  <2> DEFINE d == KnotDist[s]
             k == n[Like(s)]
             q == end \div d
  <2>1. d \in Nat \ {0} /\ k \in Nat /\ Order \in Nat /\ KnotDist[Like(s)] = d
    BY SplineConstants DEF Splines
  <2>2. q \in Nat /\ end < (q + 1) * d
    BY <2>1
  <2>3. m[s] = Max({k, Order + q})
    BY <2>1 DEF Extended, LinearExtendKnotTo
  <2> HIDE DEF q, k, m
  <2>4. m[s] \in Nat /\ Order + q <= m[s] /\ k <= m[s]
    BY <2>1, <2>2, <2>3, MaxOfTwo
  <2> HIDE DEF d
  <2>5. (q + 1) * d <= (m[s] - Order + 1) * d
    <3>1. \A a \in Int, b \in Int : a <= b => a * d <= b * d
      BY <2>1
    <3> QED
      BY <2>1, <2>2, <2>4, <3>1
  <2>6. end < (m[s] - Order + 1) * d
    <3>1. (q + 1) * d \in Int /\ (m[s] - Order + 1) * d \in Int
      BY <2>1, <2>2, <2>4
    <3> QED
      BY <2>2, <2>5, <3>1
  <2> QED
    BY <2>1, <2>2, <2>4, <2>6 DEF MaxTimeOf, d, k
<1>2. m["grav"] = m["so3"]
  BY DEF Extended, Splines
<1>3. m \in [Splines -> Nat]
  BY <1>1 DEF Extended
<1>4. n["grav"] = n["so3"] => \A s \in Splines : n[Like(s)] = n[s]
  OBVIOUS
<1> HIDE DEF m, Like
<1>5. n["grav"] = n["so3"] => \A s \in Splines : n[s] <= m[s]
  BY <1>1, <1>4
<1> QED
  BY <1>1, <1>2, <1>3, <1>5 DEF m

-------------------------------------------------------------------------------
(* Problems.                                                               *)

\* What is true of a problem over splines of n[s] knots: its factors are sound,
\* the blocks it ever had are there, and those on a sphere have a manifold.
ProblemSound(p, n) ==
  /\ DOMAIN p = {"residuals", "blocks", "onManifold", "fixed"}
  /\ \A f \in p.residuals : Sound(f, n)
  /\ Within(n, p.blocks)
  /\ \A b \in p.blocks : b[1] \in {"so3", "grav", "gravity"} => b \in p.onManifold

\* What a problem is made of.
LEMMA ProblemOf ==
  ASSUME NEW F
  PROVE  /\ Problem(F).residuals = F
         /\ \A b : b \in Problem(F).blocks <=> \E f \in F : b \in ToSet(f.blocks)
         /\ \A b : b \in Problem(F).onManifold <=> \E f \in F : b \in f.onManifold
         /\ \A b : b \in Problem(F).fixed <=> \E f \in F : b \in f.fixed
BY DEF Problem

\* Factors that were added make a sound problem.
LEMMA SoundProblem ==
  ASSUME NEW F, NEW n, \A f \in F : Added(f, f.kind, n)
  PROVE  ProblemSound(Problem(F), n)
<1>1. \A f \in F : /\ Sound(f, n) /\ Within(n, ToSet(f.blocks))
                   /\ \A b \in ToSet(f.blocks) : b[1] \in {"so3", "grav", "gravity"} => b \in f.onManifold
  BY DEF Added, Sound
<1>2. Within(n, Problem(F).blocks)
  BY <1>1, ProblemOf DEF Within
<1>3. \A b \in Problem(F).blocks : b[1] \in {"so3", "grav", "gravity"} => b \in Problem(F).onManifold
  BY <1>1, ProblemOf
<1>4. DOMAIN Problem(F) = {"residuals", "blocks", "onManifold", "fixed"}
  BY DEF Problem
<1> QED
  BY <1>1, <1>2, <1>3, <1>4, ProblemOf DEF ProblemSound

\* No problem is a sound one.
LEMMA NothingSound ==
  ASSUME NEW n
  PROVE  ProblemSound(NoProblem, n) /\ NoProblem.fixed = {} /\ NoProblem.blocks = {}
<1>1. ProblemSound(Problem({}), n)
  BY SoundProblem
<1>2. Problem({}).fixed = {} /\ Problem({}).blocks = {}
  BY ProblemOf
<1> QED
  BY <1>1, <1>2 DEF NoProblem

\* Holding a block, and removing factors, changes nothing of that.
LEMMA Held ==
  ASSUME NEW p, NEW n, ProblemSound(p, n), NEW b
  PROVE  LET q == SetParameterBlockConstant(p, b)
         IN ProblemSound(q, n) /\ q.blocks = p.blocks /\ q.fixed = p.fixed \union {b}
BY DEF ProblemSound, SetParameterBlockConstant

\* Factors that are removed leave their blocks.
LEMMA Removed ==
  ASSUME NEW p, NEW n, ProblemSound(p, n), NEW kinds
  PROVE  LET q == RemoveResidualBlocks(p, kinds)
         IN ProblemSound(q, n) /\ q.blocks = p.blocks /\ q.fixed = p.fixed
BY DEF ProblemSound, RemoveResidualBlocks

\* The knots that are recorded are those of factors that are no tails.
LEMMA InRecorded ==
  ASSUME NEW p, NEW s, NEW k
  PROVE  k \in Recorded(p, s) <=>
           \E f \in p.residuals : /\ f.kind \notin {"velTail", "so3Tail", "gravTail"}
                                  /\ \E b \in ToSet(f.blocks) : b[1] = s /\ k = b[2]
BY DEF Recorded

\* A factor is added when its time is in range, an offset into the front knot
\* among its blocks when it is the start.
LEMMA SomeAdded ==
  ASSUME NEW n, NEW t, NEW opt
  PROVE  /\ InRange("so3", n, t) => \E f \in AddGyroMeasurementWithConstBias(n, t, opt) : TRUE
         /\ InRange("so3", n, t) /\ InRange("vel", n, t) =>
              \E f \in AddAcceMeasurementWithConstBias(n, t, opt) : TRUE
         /\ InRange("so3", n, t) /\ InRange("vel", n, t) => \E f \in AddRadarMeasurement(n, t, opt) : TRUE
         /\ InRange("vel", n, t) => \E f \in AddLegMeasurement(n, t, opt) : TRUE
         /\ InRange("grav", n, t) => \E f \in AddGravitySplineConstraint(n, t) : TRUE
BY DEF AddGyroMeasurementWithConstBias, AddAcceMeasurementWithConstBias, AddRadarMeasurement,
       AddLegMeasurement, AddGravitySplineConstraint

\* The start of the splines is in their range, and needs their front knots.
LEMMA StartInRange ==
  ASSUME NEW n \in [Splines -> Nat], NEW s \in Splines, Order <= n[s]
  PROVE  InRange(s, n, 0) /\ Knot(s, 0) \in KnotsAt(s, {0})
<1> DEFINE d == KnotDist[s]
           m == n[s] - Order + 1
<1>1. d \in Nat \ {0} /\ m \in Nat \ {0} /\ Order \in Nat /\ Order > 1
  BY SplineConstants
<1>2. 0 \div d = 0
  BY <1>1
<1> HIDE DEF d, m
<1>3. 0 < m * d
  BY <1>1
<1>4. ComputeTIndex(s, 0) = 0
  BY <1>2 DEF ComputeTIndex, d
<1>5. 0 \in KnotsFor(s, 0)
  BY <1>1, <1>4 DEF KnotsFor
<1> QED
  BY <1>3, <1>5 DEF InRange, MaxTimeOf, m, d, KnotsAt

\* The first factor of a rotation rate touches the front rotation knot.
LEMMA FrontKnotTouched ==
  ASSUME NEW n \in [Splines -> Nat], Order <= n["so3"], NEW opt, "SO3" \in opt, NEW T \in SUBSET Int, 0 \in T
  PROVE  \E f \in UNION {AddGyroMeasurementWithConstBias(n, t, opt) : t \in T} :
           Knot("so3", 0) \in ToSet(f.blocks)
<1>1. InRange("so3", n, 0) /\ Knot("so3", 0) \in KnotsAt("so3", {0})
  BY StartInRange DEF Splines
<1>2. PICK f \in AddGyroMeasurementWithConstBias(n, 0, opt) : TRUE
  BY <1>1, SomeAdded
<1>3. \A b : b \in ToSet(f.blocks) <=> b \in KnotsAt("so3", {0})
  BY <1>2, OfGyro
<1> QED
  BY <1>1, <1>2, <1>3

-------------------------------------------------------------------------------
(* The inductive invariant.                                                *)

\* During the initialisation, and during a window.
Starting == {"created", "so3Solved", "gravitySolved", "velSolved"}
Windowed == {"extended", "preSolved", "solved", "updated", "postSolved"}

\* When there is no problem.
EmptyInv ==
  /\ place \in {"uninitialised", "created", "ready", "extended", "preSolved"} => problem = NoProblem
  /\ place \notin {"preSolved", "postSolved"} => own = NoProblem

\* The initialisation spans MinInit, and a window lies past that.
TimeInv ==
  /\ valid = None <=> place \in Starting \union {"uninitialised", "noCovariance"}
  /\ place = "ready" => eTime = valid
  /\ valid # None => valid >= MinInit
  /\ place \in Starting => eTime >= MinInit
  /\ place \in Windowed => valid + MinWindow <= eTime

\* A leg frame in reach of the velocity spline is in reach of the rotation
\* spline, and a window is in reach of all.
SizeInv ==
  /\ place # "uninitialised" => knots["grav"] = knots["so3"] /\ \A s \in Splines : Order <= knots[s]
  /\ place \in Starting => \A t \in Int : InRange("vel", knots, t) => InRange("so3", knots, t)
  /\ place \in Windowed => \A s \in Splines : eTime < MaxTimeOf(s, knots[s])

\* The splines start at an IMU frame; a window has its IMU frames.
DataInv ==
  /\ place \in Starting => 0 \in data.imu
  /\ place \in {"extended", "preSolved"} =>
       data.imu # {} /\ data.imu \union data.radar \union data.leg \subseteq valid .. eTime - 1

\* No filter is ahead of the data it has been given.
FilterInv ==
  \A f \in {baFilter, bvFilter} :
    f.time <= IF place \in {"extended", "preSolved", "solved"} THEN valid ELSE eTime

\* Both problems are sound.
SoundInv == \A p \in Problems : ProblemSound(p, knots)

\* The blocks that are asked for, and the index that is kept.
HaveInv ==
  /\ place = "velSolved" => /\ Ba \in problem.blocks
                            /\ Bv \in problem.blocks \/ \A t \in data.leg : ~ InRange("vel", knots, t)
  /\ place = "solved" => {Ba, Bv} \subseteq problem.blocks /\ Recorded(problem, "so3") # {}
  /\ place \in {"updated", "postSolved"} => updateEnd \in 0 .. knots["so3"] - 1

\* The inductive invariant.
IInv == /\ TypeOK /\ EmptyInv /\ TimeInv /\ SizeInv /\ DataInv /\ FilterInv /\ SoundInv
        /\ FreeAsMeant /\ HaveInv /\ SolverKnowsBlocks

\* The constants, in one place.
LEMMA ProblemConstants ==
  /\ Order \in Nat /\ Order >= 3 /\ \A s \in Splines : KnotDist[s] \in Nat \ {0}
  /\ KnotDist["grav"] = KnotDist["so3"] /\ KnotDist["so3"] <= MinInit
  /\ {MinInit, MinWindow, MaxWindow, MaxTime, RotPriorGap, FirstRefined} \subseteq Nat
  /\ MinWindow > 0 /\ FirstRefined > 1
  /\ InitVar \in Nat \ {0} /\ MaxVar \in Nat \ {0}
BY SplineAssumption, ProblemAssumption

\* The invariant holds at first.
LEMMA InitHolds == Init => IInv
<1> SUFFICES ASSUME Init PROVE IInv
  OBVIOUS
<1> USE DEF Init
<1>1. TypeOK
  <2>1. data \in [{"imu", "radar", "leg"} -> SUBSET Int]
    BY DEF NoData
  <2>2. knots \in [Splines -> Nat]
    OBVIOUS
  <2>3. \A f \in {baFilter, bvFilter} : f \in [time : Nat, var : Nat]
    BY ProblemConstants DEF StatePack
  <2> QED
    BY <2>1, <2>2, <2>3 DEF TypeOK, None
<1>2. FilterInv
  BY DEF FilterInv, StatePack
<1>3. SoundInv
  BY NothingSound DEF SoundInv, Problems
<1>4. FreeAsMeant /\ HaveInv /\ SolverKnowsBlocks
  BY NothingSound DEF FreeAsMeant, HaveInv, SolverKnowsBlocks
<1> QED
  BY <1>1, <1>2, <1>3, <1>4 DEF IInv, EmptyInv, TimeInv, SizeInv, DataInv, Starting, Windowed, None

\* Holding the front rotation knot of a sound problem that has it.
LEMMA HeldFront ==
  ASSUME NEW F, NEW n, \A f \in F : Added(f, f.kind, n), \E f \in F : Knot("so3", 0) \in ToSet(f.blocks),
         NEW next, HoldFrontKnot(Problem(F), next)
  PROVE  /\ place' = next /\ ProblemSound(problem', n)
         /\ \A b : b \in problem'.fixed <=> b = Knot("so3", 0) \/ \E f \in F : b \in f.fixed
         /\ \A b : b \in problem'.blocks <=> \E f \in F : b \in ToSet(f.blocks)
<1>1. Knot("so3", 0) \in Problem(F).blocks
  BY ProblemOf
<1>2. problem' = SetParameterBlockConstant(Problem(F), Knot("so3", 0)) /\ place' = next
  BY <1>1 DEF HoldFrontKnot
<1>3. ProblemSound(Problem(F), n)
  BY SoundProblem
<1> HIDE DEF Knot
<1>4. /\ ProblemSound(problem', n) /\ problem'.fixed = Problem(F).fixed \union {Knot("so3", 0)}
      /\ problem'.blocks = Problem(F).blocks
  BY <1>2, <1>3, Held
<1> QED
  BY <1>2, <1>4, ProblemOf

\* The first problem: rotation rates, and the front rotation knot held.
LEMMA SO3SplineStep ==
  ASSUME IInv, InitializeSO3Spline
  PROVE  IInv'
<1> DEFINE F == UNION {AddGyroMeasurementWithConstBias(knots, t, {"SO3"}) : t \in data.imu}
<1>1. /\ place = "created" /\ knots \in [Splines -> Nat] /\ data.imu \in SUBSET Int /\ 0 \in data.imu
      /\ \A s \in Splines : Order <= knots[s]
  BY DEF InitializeSO3Spline, IInv, TypeOK, DataInv, SizeInv, Starting
<1>2. ASSUME NEW f \in F
      PROVE  Added(f, f.kind, knots) /\ f.fixed = {}
  <2>1. PICK t \in data.imu : f \in AddGyroMeasurementWithConstBias(knots, t, {"SO3"})
    OBVIOUS
  <2>2. Added(f, "gyro", knots) /\ f.fixed = {}
    BY <1>1, <2>1, OfGyro
  <2> QED
    BY <2>2 DEF Added
<1>3. \E f \in F : Knot("so3", 0) \in ToSet(f.blocks)
  BY <1>1, FrontKnotTouched DEF Splines
<1>4. HoldFrontKnot(Problem(F), "so3Solved") /\ UNCHANGED <<data, knots, valid, eTime, own, filters, indices>>
  BY DEF InitializeSO3Spline
<1> HIDE DEF F
<1>5. /\ place' = "so3Solved" /\ ProblemSound(problem', knots)
      /\ \A b \in problem'.fixed : b = Knot("so3", 0)
  BY <1>2, <1>3, <1>4, HeldFront
<1>6. TypeOK'
  BY <1>4, <1>5 DEF IInv, TypeOK, filters, indices
<1>7. EmptyInv' /\ TimeInv' /\ SizeInv' /\ DataInv' /\ FilterInv'
  BY <1>1, <1>4, <1>5 DEF IInv, EmptyInv, TimeInv, SizeInv, DataInv, FilterInv, Starting, Windowed, filters
<1>8. SoundInv'
  BY <1>4, <1>5 DEF IInv, SoundInv, Problems
<1>9. FreeAsMeant' /\ HaveInv' /\ SolverKnowsBlocks'
  BY <1>4, <1>5 DEF FreeAsMeant, HaveInv, SolverKnowsBlocks
<1> QED
  BY <1>6, <1>7, <1>8, <1>9 DEF IInv

\* The second: the gravity alone.
LEMMA GravityStep ==
  ASSUME IInv, InitializeGravity
  PROVE  IInv'
<1> DEFINE inRange == {t \in data.radar : InRange("so3", knots, t)}
           pim == IF Cardinality(inRange) < 2 THEN {} ELSE {AddVelPIMForGravityRecovery({"GRAVITY"})}
<1>1. PICK stationary \in {{}, {AddStationaryGravity}} : problem' = Problem(pim \union stationary)
  BY DEF InitializeGravity
<1>2. place = "so3Solved" /\ place' = "gravitySolved" /\ UNCHANGED <<data, knots, valid, eTime, own, filters, indices>>
  BY DEF InitializeGravity
<1> DEFINE F == pim \union stationary
<1>3. ASSUME NEW f \in F
      PROVE  Added(f, f.kind, knots) /\ f.fixed = {}
  <2>1. f = AddVelPIMForGravityRecovery({"GRAVITY"}) \/ f = AddStationaryGravity
    OBVIOUS
  <2>2. f = AddVelPIMForGravityRecovery({"GRAVITY"}) => Added(f, "velPIM", knots) /\ f.fixed = {}
    BY OfVelPIM
  <2>3. f = AddStationaryGravity => Added(f, "stationary", knots) /\ f.fixed = {}
    BY OfStationary
  <2> QED
    BY <2>1, <2>2, <2>3 DEF Added
<1>4. problem' = Problem(F)
  BY <1>1
<1> HIDE DEF F
<1>5. ProblemSound(problem', knots) /\ problem'.fixed = {}
  BY <1>3, <1>4, SoundProblem, ProblemOf
<1>6. TypeOK'
  BY <1>2 DEF IInv, TypeOK, filters, indices
<1>7. EmptyInv' /\ TimeInv' /\ SizeInv' /\ DataInv' /\ FilterInv'
  BY <1>2 DEF IInv, EmptyInv, TimeInv, SizeInv, DataInv, FilterInv, Starting, Windowed, filters
<1>8. SoundInv'
  BY <1>2, <1>5 DEF IInv, SoundInv, Problems
<1>9. FreeAsMeant' /\ HaveInv' /\ SolverKnowsBlocks'
  BY <1>2, <1>5 DEF FreeAsMeant, HaveInv, SolverKnowsBlocks
<1> QED
  BY <1>6, <1>7, <1>8, <1>9 DEF IInv

\* The factors of InitializeVelSpline, and what they bring.
VelSplineFactors(opt) ==
  UNION ({AddGyroMeasurementWithConstBias(knots, t, opt) : t \in data.imu}
           \union {AddAcceMeasurementWithConstBias(knots, t, opt) : t \in data.imu}
           \union {AddRadarMeasurement(knots, t, opt) : t \in data.radar}
           \union {AddLegMeasurement(knots, t, opt) : t \in data.leg}
           \union {AddVelSplineTailConstraint(knots, opt), AddSo3SplineTailConstraint(knots, opt)})

\* With a leg frame in range they bring the velocity bias.
LEMMA VelSplineFactorsAre ==
  ASSUME NEW opt, opt = {"SO3", "VEL", "GRAVITY"}, knots \in [Splines -> Nat],
         \A s \in Splines : Order <= knots[s], data \in [{"imu", "radar", "leg"} -> SUBSET Int],
         0 \in data.imu, \A t \in Int : InRange("vel", knots, t) => InRange("so3", knots, t)
  PROVE  LET F == VelSplineFactors(opt)
         IN /\ \A f \in F : Added(f, f.kind, knots) /\ f.fixed \subseteq {Ba, Gravity}
            /\ \E f \in F : Knot("so3", 0) \in ToSet(f.blocks)
            /\ \E f \in F : Ba \in ToSet(f.blocks)
            /\ \A t \in data.leg : InRange("vel", knots, t) => \E f \in F : Bv \in ToSet(f.blocks)
            /\ \E f \in F : Gravity \in f.fixed
<1> DEFINE F == VelSplineFactors(opt)
<1>1. data.imu \in SUBSET Int /\ data.radar \in SUBSET Int /\ data.leg \in SUBSET Int
  OBVIOUS
<1>2. /\ \A t \in data.imu : AddGyroMeasurementWithConstBias(knots, t, opt) \subseteq F
      /\ \A t \in data.imu : AddAcceMeasurementWithConstBias(knots, t, opt) \subseteq F
      /\ \A t \in data.leg : AddLegMeasurement(knots, t, opt) \subseteq F
  BY DEF VelSplineFactors
<1>3. ASSUME NEW f \in F
      PROVE  \/ \E t \in data.imu : f \in AddGyroMeasurementWithConstBias(knots, t, opt)
             \/ \E t \in data.imu : f \in AddAcceMeasurementWithConstBias(knots, t, opt)
             \/ \E t \in data.radar : f \in AddRadarMeasurement(knots, t, opt)
             \/ \E t \in data.leg : f \in AddLegMeasurement(knots, t, opt)
             \/ f \in AddVelSplineTailConstraint(knots, opt)
             \/ f \in AddSo3SplineTailConstraint(knots, opt)
  BY DEF VelSplineFactors
<1> HIDE DEF F
<1>4. ASSUME NEW f \in F
      PROVE  Added(f, f.kind, knots) /\ f.fixed \subseteq {Ba, Gravity}
  <2>1. CASE \E t \in data.imu : f \in AddGyroMeasurementWithConstBias(knots, t, opt)
    <3>1. Added(f, "gyro", knots) /\ f.fixed = {}
      BY <1>1, <2>1, OfGyro
    <3> QED
      BY <3>1 DEF Added
  <2>2. CASE \E t \in data.imu : f \in AddAcceMeasurementWithConstBias(knots, t, opt)
    <3>1. Added(f, "acce", knots) /\ f.fixed \subseteq {Ba, Gravity}
      BY <1>1, <2>2, OfAcce
    <3> QED
      BY <3>1 DEF Added
  <2>3. CASE \E t \in data.radar : f \in AddRadarMeasurement(knots, t, opt)
    <3>1. Added(f, "radar", knots) /\ f.fixed = {}
      BY <1>1, <2>3, OfRadar
    <3> QED
      BY <3>1 DEF Added
  <2>4. CASE \E t \in data.leg : f \in AddLegMeasurement(knots, t, opt)
    <3>1. Added(f, "leg", knots) /\ f.fixed = {}
      BY <1>1, <2>4, OfLeg
    <3> QED
      BY <3>1 DEF Added
  <2>5. CASE f \in AddVelSplineTailConstraint(knots, opt)
    <3>1. Added(f, "velTail", knots) /\ f.fixed = {}
      BY <2>5, OfVelTail DEF Splines
    <3> QED
      BY <3>1 DEF Added
  <2>6. CASE f \in AddSo3SplineTailConstraint(knots, opt)
    <3>1. Added(f, "so3Tail", knots) /\ f.fixed = {}
      BY <2>6, OfSo3Tail DEF Splines
    <3> QED
      BY <3>1 DEF Added
  <2> QED
    BY <1>3, <2>1, <2>2, <2>3, <2>4, <2>5, <2>6
<1>5. \E f \in F : Knot("so3", 0) \in ToSet(f.blocks)
  <2>1. \E f \in UNION {AddGyroMeasurementWithConstBias(knots, t, opt) : t \in data.imu} :
          Knot("so3", 0) \in ToSet(f.blocks)
    BY <1>1, FrontKnotTouched DEF Splines
  <2> QED
    BY <1>2, <2>1
<1>6. \E f \in F : Ba \in ToSet(f.blocks) /\ Gravity \in f.fixed
  <2>1. InRange("so3", knots, 0) /\ InRange("vel", knots, 0)
    BY StartInRange DEF Splines
  <2>2. PICK f \in AddAcceMeasurementWithConstBias(knots, 0, opt) : TRUE
    BY <2>1, SomeAdded
  <2>3. Ba \in ToSet(f.blocks) /\ Gravity \in f.fixed
    BY <2>2, OfAcce
  <2> QED
    BY <1>2, <2>2, <2>3
<1>7. ASSUME NEW t \in data.leg, InRange("vel", knots, t)
      PROVE  \E f \in F : Bv \in ToSet(f.blocks)
  <2>1. PICK f \in AddLegMeasurement(knots, t, opt) : TRUE
    BY <1>7, SomeAdded
  <2>2. Bv \in ToSet(f.blocks)
    BY <1>1, <2>1, OfLeg
  <2> QED
    BY <1>2, <2>1, <2>2
<1> QED
  BY <1>4, <1>5, <1>6, <1>7 DEF F

\* The third: all measurements.
LEMMA VelSplineStep ==
  ASSUME IInv, InitializeVelSpline
  PROVE  IInv'
<1> DEFINE F == VelSplineFactors({"SO3", "VEL", "GRAVITY"})
<1>1. /\ place = "gravitySolved" /\ knots \in [Splines -> Nat] /\ 0 \in data.imu
      /\ data \in [{"imu", "radar", "leg"} -> SUBSET Int] /\ \A s \in Splines : Order <= knots[s]
      /\ \A t \in Int : InRange("vel", knots, t) => InRange("so3", knots, t)
  BY DEF InitializeVelSpline, IInv, TypeOK, DataInv, SizeInv, Starting
<1>2. /\ \A f \in F : Added(f, f.kind, knots) /\ f.fixed \subseteq {Ba, Gravity}
      /\ \E f \in F : Knot("so3", 0) \in ToSet(f.blocks)
      /\ \E f \in F : Ba \in ToSet(f.blocks)
      /\ \A t \in data.leg : InRange("vel", knots, t) => \E f \in F : Bv \in ToSet(f.blocks)
  BY <1>1, VelSplineFactorsAre
<1>3. HoldFrontKnot(Problem(F), "velSolved") /\ UNCHANGED <<data, knots, valid, eTime, own, filters, indices>>
  BY DEF InitializeVelSpline, VelSplineFactors
<1> HIDE DEF F
<1>4. /\ place' = "velSolved" /\ ProblemSound(problem', knots)
      /\ \A b : b \in problem'.fixed <=> b = Knot("so3", 0) \/ \E f \in F : b \in f.fixed
      /\ \A b : b \in problem'.blocks <=> \E f \in F : b \in ToSet(f.blocks)
  BY <1>2, <1>3, HeldFront
<1>5. TypeOK'
  BY <1>3, <1>4 DEF IInv, TypeOK, filters, indices
<1>6. EmptyInv' /\ TimeInv' /\ SizeInv' /\ DataInv' /\ FilterInv'
  BY <1>1, <1>3, <1>4 DEF IInv, EmptyInv, TimeInv, SizeInv, DataInv, FilterInv, Starting, Windowed, filters
<1>7. SoundInv'
  BY <1>3, <1>4 DEF IInv, SoundInv, Problems
<1>8. FreeAsMeant'
  BY <1>2, <1>4 DEF FreeAsMeant
<1>9. HaveInv'
  BY <1>2, <1>3, <1>4 DEF HaveInv
<1>10. SolverKnowsBlocks'
  BY <1>4 DEF SolverKnowsBlocks
<1> QED
  BY <1>5, <1>6, <1>7, <1>8, <1>9, <1>10 DEF IInv

\* What the filter may become.
LEMMA FilterUpdated ==
  ASSUME NEW filter \in [time : Nat, var : Nat], filter.time <= eTime, eTime \in Nat, NEW b, NEW p,
         NEW g \in Updated(filter, b, p)
  PROVE  g \in [time : Nat, var : Nat] /\ g.time <= eTime /\ filter.time <= g.time
<1>1. Prediction(filter, eTime).var \in Nat
  BY DEF Prediction, StatePack
<1>2. MaxVar \in Nat
  BY ProblemConstants
<1>3. g = filter \/ \E v \in Nat : g = StatePack(eTime, v)
  BY <1>1, <1>2 DEF Updated, UpdateByEstimator
<1> QED
  BY <1>3 DEF StatePack

\* Both filters, on the way to a place.
LEMMA FiltersUpdated ==
  ASSUME TypeOK, \A f \in {baFilter, bvFilter} : f.time <= eTime, NEW p, NEW next, UpdateBiasFilters(p, next)
  PROVE  /\ \A f \in {baFilter', bvFilter'} : f \in [time : Nat, var : Nat] /\ f.time <= eTime
         /\ {Ba, Bv} \subseteq p.blocks => place' = next
         /\ ~ ({Ba, Bv} \subseteq p.blocks) => place' = "noCovariance"
         /\ baFilter.time <= baFilter'.time /\ bvFilter.time <= bvFilter'.time
<1>1. eTime \in Nat /\ \A f \in {baFilter, bvFilter} : f \in [time : Nat, var : Nat] /\ f.time <= eTime
  BY DEF TypeOK
<1>2. CASE {Ba, Bv} \subseteq p.blocks
  <2>1. baFilter' \in Updated(baFilter, Ba, p) /\ bvFilter' \in Updated(bvFilter, Bv, p) /\ place' = next
    BY <1>2 DEF UpdateBiasFilters
  <2> QED
    BY <1>1, <1>2, <2>1, FilterUpdated
<1>3. CASE ~ ({Ba, Bv} \subseteq p.blocks)
  BY <1>1, <1>3 DEF UpdateBiasFilters, filters
<1> QED
  BY <1>2, <1>3

\* The filters are updated if the solver knows both biases; without a leg frame
\* in range it does not.
LEMMA FinishInitStep ==
  ASSUME IInv, FinishInitialization
  PROVE  IInv'
<1> DEFINE p == RemoveResidualBlocks(problem, {"velTail", "so3Tail"})
<1>1. /\ place = "velSolved" /\ UpdateBiasFilters(p, "ready")
      /\ IF place' = "ready" THEN valid' = eTime /\ problem' = NoProblem /\ data' = NoData
         ELSE problem' = p /\ UNCHANGED <<valid, data>>
      /\ UNCHANGED <<knots, eTime, own, indices>>
  BY DEF FinishInitialization
<1>2. ProblemSound(p, knots) /\ p.blocks = problem.blocks /\ p.fixed = problem.fixed
  BY Removed DEF IInv, SoundInv, Problems
<1> HIDE DEF p
<1>3. /\ \A f \in {baFilter', bvFilter'} : f \in [time : Nat, var : Nat] /\ f.time <= eTime
      /\ {Ba, Bv} \subseteq p.blocks => place' = "ready"
      /\ ~ ({Ba, Bv} \subseteq p.blocks) => place' = "noCovariance"
  <2>1. TypeOK /\ \A f \in {baFilter, bvFilter} : f.time <= eTime
    BY <1>1 DEF IInv, FilterInv
  <2> QED
    BY <1>1, <2>1, FiltersUpdated
<1>4. /\ eTime \in Nat /\ eTime >= MinInit /\ valid = None /\ own = NoProblem
      /\ knots["grav"] = knots["so3"] /\ \A s \in Splines : Order <= knots[s]
  BY <1>1 DEF IInv, TypeOK, TimeInv, EmptyInv, SizeInv, Starting
<1>5. TypeOK'
  <2>1. NoData \in [{"imu", "radar", "leg"} -> SUBSET Int]
    BY DEF NoData
  <2> QED
    BY <1>1, <1>3, <1>4, <2>1 DEF IInv, TypeOK, indices
<1>6. EmptyInv' /\ TimeInv' /\ SizeInv' /\ DataInv' /\ FilterInv'
  BY <1>1, <1>3, <1>4, ProblemConstants DEF EmptyInv, TimeInv, SizeInv, DataInv, FilterInv, Starting, Windowed, None
<1>7. SoundInv'
  BY <1>1, <1>2, <1>4, NothingSound DEF SoundInv, Problems
<1>8. FreeAsMeant'
  BY <1>1, <1>2, <1>3, NothingSound DEF IInv, FreeAsMeant
<1>9. HaveInv'
  BY <1>3 DEF HaveInv
<1>10. SolverKnowsBlocks'
  BY <1>1, <1>2, <1>3, <1>4 DEF IInv, SolverKnowsBlocks, HaveInv
<1> QED
  BY <1>5, <1>6, <1>7, <1>8, <1>9, <1>10 DEF IInv

\* The data of the initialisation: the splines start at an IMU frame.
LEMMA TryInitStep ==
  ASSUME IInv, TryPerformInitialization
  PROVE  IInv'
<1>1. PICK radar \in RadarStamps, imuData \in ImuStamps, legData \in LegStamps :
        LET Piece(stamps) == {t \in stamps : Min(radar) <= t /\ t < Max(radar)}
            imu == Piece(imuData)
            sTime == StartTime(radar, imu)
            Since(stamps) == {t - sTime : t \in stamps}
        IN /\ imu # {}
           /\ data' = [imu |-> Since(imu), radar |-> Since(radar), leg |-> Since(Piece(legData))]
           /\ eTime' = Min({Max(radar), Max(imu)}) - sTime
           /\ eTime' >= MinInit
           /\ knots' = [s \in Splines |-> CreateSpline(s, eTime')]
  BY DEF TryPerformInitialization
<1> DEFINE Piece(stamps) == {t \in stamps : Min(radar) <= t /\ t < Max(radar)}
           imu == Piece(imuData)
           sTime == StartTime(radar, imu)
           Since(stamps) == {t - sTime : t \in stamps}
<1>2. /\ radar \in SUBSET Nat /\ imuData \in SUBSET Nat /\ legData \in SUBSET Nat
      /\ radar # {} /\ IsFiniteSet(radar) /\ IsFiniteSet(imuData)
  BY ProblemAssumption
<1>3. imu \in SUBSET Nat /\ imu # {} /\ IsFiniteSet(imu)
  <2>1. imu \in SUBSET imuData
    OBVIOUS
  <2> QED
    BY <1>1, <1>2, <2>1, FS_Subset
<1>4. sTime \in imu
  <2>1. Min(radar) \in Nat
    BY <1>2, MinOfNats
  <2>2. Min(imu) \in imu /\ Min(imu) \in Nat /\ Min(radar) <= Min(imu)
    <3>1. Min(imu) \in imu
      <4> HIDE DEF imu
      <4> QED
        BY <1>3, MinOfNats
    <3> QED
      BY <1>3, <3>1
  <2> HIDE DEF imu
  <2>3. sTime = IF Min(radar) >= Min(imu) THEN Min(radar) ELSE Min(imu)
    BY <2>1, <2>2, MaxOfTwo DEF StartTime
  <2> QED
    BY <2>1, <2>2, <2>3
<1>5. Max(radar) \in Int /\ Max(imu) \in Int
  <2>1. ASSUME NEW S \in SUBSET Nat, S # {}, IsFiniteSet(S)
        PROVE  Max(S) \in Int
    <3>1. Max(S) \in S /\ \A x \in S : x \in Nat
      BY <2>1, MaxOfNats
    <3>2. Max(S) \in Nat
      BY <3>1
    <3> QED
      BY <3>2
  <2> HIDE DEF imu
  <2> QED
    BY <1>2, <1>3, <2>1
<1>6. /\ data' = [imu |-> Since(imu), radar |-> Since(radar), leg |-> Since(Piece(legData))]
      /\ eTime' = Min({Max(radar), Max(imu)}) - sTime
      /\ eTime' >= MinInit /\ knots' = [s \in Splines |-> CreateSpline(s, eTime')]
  BY <1>1
<1>7. Since(imu) \in SUBSET Int /\ Since(radar) \in SUBSET Int /\ Since(Piece(legData)) \in SUBSET Int
  <2>1. sTime \in Int
    BY <1>3, <1>4
  <2> HIDE DEF sTime
  <2> QED
    BY <1>2, <1>3, <2>1
<1>8. 0 \in Since(imu)
  <2> HIDE DEF imu
  <2> SUFFICES \E t \in imu : 0 = t - sTime
    OBVIOUS
  <2> HIDE DEF sTime
  <2> QED
    BY <1>3, <1>4
<1>9. eTime' \in Nat
  <2>1. sTime \in Int
    BY <1>3, <1>4
  <2> HIDE DEF sTime, imu
  <2> DEFINE m == Min({Max(radar), Max(imu)})
  <2>2. m \in Int
    BY <1>5, MaxOfTwo
  <2>3. eTime' = m - sTime /\ eTime' >= MinInit
    BY <1>6
  <2> HIDE DEF m
  <2> QED
    BY <2>1, <2>2, <2>3, ProblemConstants
<1> HIDE DEF sTime, imu, Since, Piece
<1>10. /\ place = "uninitialised" /\ place' = "created" /\ UNCHANGED <<valid, problem, own, indices>>
       /\ baFilter' = StatePack(0, InitVar) /\ bvFilter' = StatePack(0, InitVar)
  BY DEF TryPerformInitialization
<1>11. /\ knots' \in [Splines -> Nat] /\ knots'["grav"] = knots'["so3"]
       /\ \A s \in Splines : Order <= knots'[s]
       /\ \A t \in Int : InRange("vel", knots', t) => InRange("so3", knots', t)
  BY <1>6, <1>9, Created
<1>12. TypeOK'
  <2>1. data' \in [{"imu", "radar", "leg"} -> SUBSET Int]
    BY <1>6, <1>7
  <2>2. \A f \in {baFilter', bvFilter'} : f \in [time : Nat, var : Nat]
    BY <1>10, ProblemConstants DEF StatePack
  <2> QED
    BY <1>9, <1>10, <1>11, <2>1, <2>2 DEF IInv, TypeOK, indices
<1>13. valid = None /\ problem = NoProblem /\ own = NoProblem
  BY <1>10 DEF IInv, TimeInv, EmptyInv
<1>14. EmptyInv' /\ TimeInv' /\ SizeInv'
  BY <1>6, <1>10, <1>11, <1>13 DEF EmptyInv, TimeInv, SizeInv, Starting, Windowed
<1>15. DataInv'
  BY <1>6, <1>8, <1>10 DEF DataInv, Starting
<1>16. FilterInv'
  BY <1>9, <1>10 DEF FilterInv, StatePack
<1>17. SoundInv'
  BY <1>10, <1>13, NothingSound DEF SoundInv, Problems
<1>18. FreeAsMeant' /\ HaveInv' /\ SolverKnowsBlocks'
  BY <1>10, <1>13, NothingSound DEF FreeAsMeant, HaveInv, SolverKnowsBlocks
<1> QED
  BY <1>12, <1>14, <1>15, <1>16, <1>17, <1>18 DEF IInv

\* A record of three.
LEMMA RecordType ==
  ASSUME NEW S, NEW a \in S, NEW b \in S, NEW c \in S
  PROVE  [imu |-> a, radar |-> b, leg |-> c] \in [{"imu", "radar", "leg"} -> S]
OBVIOUS

\* The stamps of a window have the type of data.
LEMMA DataType ==
  ASSUME NEW imu \in SUBSET Int, NEW radar \in SUBSET Int, NEW leg \in SUBSET Int
  PROVE  [imu |-> imu, radar |-> radar, leg |-> leg] \in [{"imu", "radar", "leg"} -> SUBSET Int]
<1> DEFINE S == SUBSET Int
<1>1. imu \in S /\ radar \in S /\ leg \in S
  OBVIOUS
<1> HIDE DEF S
<1>2. [imu |-> imu, radar |-> radar, leg |-> leg] \in [{"imu", "radar", "leg"} -> S]
  BY <1>1, RecordType
<1> QED
  BY <1>2, Zenon DEF S

\* The splines reach the end of the new window.
LEMMA ExtendStep ==
  ASSUME IInv, ExtendSplines
  PROVE  IInv'
<1>1. PICK end \in valid + MinWindow .. Min({MaxTime, valid + MaxWindow}) :
        \E imu \in AtMost(MaxImu, valid .. end - 1) \ {{}}, radar \in AtMost(MaxRadar, valid .. end - 1) \ {{}},
           leg \in AtMost(MaxLeg, valid .. end - 1) :
          /\ data' = [imu |-> imu, radar |-> radar, leg |-> leg]
          /\ eTime' = end
          /\ knots' = Extended(knots, end)
  BY Zenon DEF ExtendSplines
<1> DEFINE window == valid .. end - 1
<1>2. PICK imu \in AtMost(MaxImu, window) \ {{}}, radar \in AtMost(MaxRadar, window) \ {{}},
           leg \in AtMost(MaxLeg, window) :
        /\ data' = [imu |-> imu, radar |-> radar, leg |-> leg]
        /\ eTime' = end /\ knots' = Extended(knots, end)
  BY <1>1
<1>3. imu # {} /\ imu \in SUBSET window /\ radar \in SUBSET window /\ leg \in SUBSET window
  <2> HIDE DEF window
  <2> QED
    BY DEF AtMost
<1>4. place = "ready" /\ place' = "extended" /\ UNCHANGED <<valid, problem, own, filters, indices>>
  BY DEF ExtendSplines
<1>5. /\ valid # None /\ valid \in Nat /\ eTime = valid /\ problem = NoProblem /\ own = NoProblem
      /\ knots \in [Splines -> Nat]
  BY <1>4 DEF IInv, TypeOK, TimeInv, EmptyInv, Starting
<1>6. end \in Nat /\ valid + MinWindow <= end /\ eTime' = end
  BY <1>2, <1>5, ProblemConstants
<1>7. /\ knots' \in [Splines -> Nat] /\ knots'["grav"] = knots'["so3"]
      /\ \A s \in Splines : Order <= knots'[s] /\ end < MaxTimeOf(s, knots'[s])
  BY <1>2, <1>5, <1>6, Grown
<1>8. TypeOK'
  <2>1. window \in SUBSET Int
    BY <1>5, <1>6
  <2> HIDE DEF window
  <2>3. imu \in SUBSET Int /\ radar \in SUBSET Int /\ leg \in SUBSET Int
    BY <1>3, <2>1
  <2>2. data' \in [{"imu", "radar", "leg"} -> SUBSET Int]
    BY <1>2, <2>3, DataType
  <2> QED
    BY <1>4, <1>6, <1>7, <2>2 DEF IInv, TypeOK, filters, indices
<1>9. EmptyInv' /\ TimeInv' /\ SizeInv'
  BY <1>4, <1>5, <1>6, <1>7 DEF IInv, EmptyInv, TimeInv, SizeInv, Starting, Windowed
<1>10. DataInv'
  <2>3. data'.imu = imu /\ data'.radar = radar /\ data'.leg = leg
    BY <1>2
  <2>1. data'.imu # {} /\ data'.imu \union data'.radar \union data'.leg \subseteq window
    <3> HIDE DEF window
    <3> QED
      BY <1>3, <2>3
  <2>2. window = valid' .. eTime' - 1
    BY <1>4, <1>6
  <2> HIDE DEF window
  <2> QED
    BY <1>4, <2>1, <2>2 DEF DataInv, Starting
<1>11. FilterInv'
  BY <1>4, <1>5 DEF IInv, FilterInv, filters
<1>12. SoundInv'
  BY <1>4, <1>5, NothingSound DEF SoundInv, Problems
<1>13. FreeAsMeant' /\ HaveInv' /\ SolverKnowsBlocks'
  BY <1>4, <1>5, NothingSound DEF FreeAsMeant, HaveInv, SolverKnowsBlocks
<1> QED
  BY <1>8, <1>9, <1>10, <1>11, <1>12, <1>13 DEF IInv

\* A window is in the range of its splines.
LEMMA WindowInRange ==
  ASSUME IInv, place \in Windowed
  PROVE  /\ valid \in Nat /\ eTime \in Nat /\ valid >= MinInit /\ valid < eTime
         /\ knots \in [Splines -> Nat] /\ knots["grav"] = knots["so3"]
         /\ \A s \in Splines : Order <= knots[s] /\ \A t \in 0 .. eTime : InRange(s, knots, t)
<1>1. /\ valid \in Nat /\ eTime \in Nat /\ knots \in [Splines -> Nat] /\ knots["grav"] = knots["so3"]
      /\ valid >= MinInit /\ valid + MinWindow <= eTime
      /\ \A s \in Splines : Order <= knots[s] /\ eTime < MaxTimeOf(s, knots[s])
  BY DEF IInv, TypeOK, TimeInv, SizeInv, Starting, Windowed
<1>2. ASSUME NEW s \in Splines, NEW t \in 0 .. eTime
      PROVE  InRange(s, knots, t)
  <2>1. MaxTimeOf(s, knots[s]) \in Int
    BY <1>1, ProblemConstants DEF MaxTimeOf
  <2> QED
    BY <1>1, <2>1 DEF InRange
<1> QED
  BY <1>1, <1>2, ProblemConstants

\* PreOptimization: both times of a rotation prior are in range.
LEMMA PreOptimizationStep ==
  ASSUME IInv, PreOptimization
  PROVE  IInv'
<1> DEFINE F == UNION ({AddGyroMeasurementWithConstBias(knots, t, {"SO3"}) : t \in data.imu}
                         \union {AddSo3SplineTailConstraint(knots, {"SO3"})}
                         \union {AddRotPrior(knots, t, RotPriorGap) : t \in valid .. eTime - RotPriorGap - 1})
<1>1. /\ place = "extended" /\ place' = "preSolved" /\ own' = Problem(F)
      /\ UNCHANGED <<data, knots, valid, eTime, problem, filters, indices>>
  BY DEF PreOptimization
<1>2. /\ valid \in Nat /\ eTime \in Nat /\ knots \in [Splines -> Nat] /\ Order <= knots["so3"]
      /\ \A t \in 0 .. eTime : InRange("so3", knots, t)
  BY <1>1, WindowInRange DEF Windowed, Splines
<1>3. data.imu \in SUBSET Int /\ RotPriorGap \in Nat
  BY ProblemConstants DEF IInv, TypeOK
<1>4. ASSUME NEW f \in F
      PROVE  Added(f, f.kind, knots) /\ f.fixed = {}
  <2>1. \/ \E t \in data.imu : f \in AddGyroMeasurementWithConstBias(knots, t, {"SO3"})
        \/ f \in AddSo3SplineTailConstraint(knots, {"SO3"})
        \/ \E t \in valid .. eTime - RotPriorGap - 1 : f \in AddRotPrior(knots, t, RotPriorGap)
    OBVIOUS
  <2> HIDE DEF F
  <2>2. CASE \E t \in data.imu : f \in AddGyroMeasurementWithConstBias(knots, t, {"SO3"})
    <3>1. Added(f, "gyro", knots) /\ f.fixed = {}
      BY <1>2, <1>3, <2>2, OfGyro
    <3> QED
      BY <3>1 DEF Added
  <2>3. CASE f \in AddSo3SplineTailConstraint(knots, {"SO3"})
    <3>1. Added(f, "so3Tail", knots) /\ f.fixed = {}
      BY <1>2, <2>3, OfSo3Tail
    <3> QED
      BY <3>1 DEF Added
  <2>4. CASE \E t \in valid .. eTime - RotPriorGap - 1 : f \in AddRotPrior(knots, t, RotPriorGap)
    <3>1. PICK t \in valid .. eTime - RotPriorGap - 1 : f \in AddRotPrior(knots, t, RotPriorGap)
      BY <2>4
    <3>2. t \in Int /\ t \in 0 .. eTime /\ t + RotPriorGap \in 0 .. eTime
      BY <1>2, <1>3
    <3>3. Added(f, "rotPrior", knots) /\ f.fixed = {}
      BY <1>2, <1>3, <3>1, <3>2, OfRotPrior
    <3> QED
      BY <3>3 DEF Added
  <2> QED
    BY <2>1, <2>2, <2>3, <2>4
<1> HIDE DEF F
<1>5. ProblemSound(own', knots) /\ own'.fixed = {}
  BY <1>1, <1>4, SoundProblem, ProblemOf
<1>6. TypeOK'
  BY <1>1 DEF IInv, TypeOK, filters, indices
<1>7. EmptyInv' /\ TimeInv' /\ SizeInv' /\ DataInv' /\ FilterInv'
  BY <1>1 DEF IInv, EmptyInv, TimeInv, SizeInv, DataInv, FilterInv, Starting, Windowed, filters
<1>8. SoundInv'
  BY <1>1, <1>5 DEF IInv, SoundInv, Problems
<1>9. FreeAsMeant' /\ HaveInv' /\ SolverKnowsBlocks'
  BY <1>1, <1>5 DEF IInv, FreeAsMeant, HaveInv, SolverKnowsBlocks
<1> QED
  BY <1>6, <1>7, <1>8, <1>9 DEF IInv

\* What the measurements of a window add.
LEMMA WindowFactorsAre ==
  ASSUME IInv, place = "preSolved", NEW opt, opt = WindowOptions
  PROVE  LET F == WindowFactors(opt)
         IN /\ \A f \in F : /\ Added(f, f.kind, knots) /\ f.fixed = {}
                            /\ f.kind \notin {"velTail", "so3Tail", "gravTail"}
                            /\ \A b \in ToSet(f.blocks) : b[1] = "grav" =>
                                 \E t \in data.imu : b \in KnotsAt("grav", {t})
            /\ \A t \in data.imu : \E f \in F :
                 \A b : b \in KnotsAt("grav", {t}) \/ b \in KnotsAt("so3", {t}) => b \in ToSet(f.blocks)
            /\ \E f \in F : Ba \in ToSet(f.blocks)
            /\ \E f \in F : Bv \in ToSet(f.blocks)
<1> DEFINE F == WindowFactors(opt)
<1>1. /\ valid \in Nat /\ eTime \in Nat /\ knots \in [Splines -> Nat] /\ knots["grav"] = knots["so3"]
      /\ \A t \in 0 .. eTime : \A s \in Splines : InRange(s, knots, t)
  BY WindowInRange DEF Windowed
<1>2. \A t \in data.imu \union data.radar \union data.leg : t \in Int /\ t \in 0 .. eTime
  BY <1>1 DEF IInv, DataInv
<1>3. opt = {"SO3", "VEL", "BA"}
  BY DEF WindowOptions
<1>4. ASSUME NEW f \in F
      PROVE  \/ \E t \in data.imu : f \in AddGravitySplineConstraint(knots, t)
             \/ \E t \in data.imu : f \in AddGyroMeasurementWithConstBias(knots, t, opt)
             \/ \E t, u \in data.imu : t < u /\ f \in AddGravityRotConstraint(knots, t, u)
             \/ f = AddAcceBiasPriori(opt)
             \/ f = AddVelBiasPriori(opt)
             \/ \E t \in data.radar : f \in AddRadarMeasurement(knots, t, opt)
             \/ \E t \in data.leg : f \in AddLegMeasurement(knots, t, opt)
  BY DEF WindowFactors
<1>5. /\ \A t \in data.imu : AddGravitySplineConstraint(knots, t) \subseteq F
      /\ AddAcceBiasPriori(opt) \in F /\ AddVelBiasPriori(opt) \in F
  <2>1. \A t \in data.imu : AddGravitySplineConstraint(knots, t) \subseteq F
    BY DEF WindowFactors
  <2>2. {AddAcceBiasPriori(opt), AddVelBiasPriori(opt)} \subseteq F
    BY Zenon DEF WindowFactors
  <2> HIDE DEF F
  <2> QED
    BY <2>1, <2>2
<1> HIDE DEF F
<1> DEFINE Fine(f) == /\ Added(f, f.kind, knots) /\ f.fixed = {}
                      /\ f.kind \notin {"velTail", "so3Tail", "gravTail"}
                      /\ \A b \in ToSet(f.blocks) : b[1] = "grav" =>
                           \E t \in data.imu : b \in KnotsAt("grav", {t})
<1>6. \A s \in Splines : \A t \in data.imu \union data.radar \union data.leg :
        \A b \in KnotsAt(s, {t}) : b[1] = s
  BY <1>1, <1>2, KnotsInRange
<1>7. ASSUME NEW f \in F
      PROVE  Fine(f)
  <2>1. CASE \E t \in data.imu : f \in AddGravitySplineConstraint(knots, t)
    <3>1. PICK t \in data.imu : f \in AddGravitySplineConstraint(knots, t)
      BY <2>1
    <3>2. /\ Added(f, "gravSpline", knots) /\ f.fixed = {}
          /\ \A b : b \in ToSet(f.blocks) <=> b \in KnotsAt("grav", {t}) \/ b \in KnotsAt("so3", {t})
      BY <1>1, <1>2, <3>1, OfGravitySpline
    <3>3. \A b \in KnotsAt("so3", {t}) : b[1] = "so3"
      BY <1>6 DEF Splines
    <3> QED
      BY <3>2, <3>3 DEF Added
  <2>2. CASE \E t \in data.imu : f \in AddGyroMeasurementWithConstBias(knots, t, opt)
    <3>1. PICK t \in data.imu : f \in AddGyroMeasurementWithConstBias(knots, t, opt)
      BY <2>2
    <3>2. /\ Added(f, "gyro", knots) /\ f.fixed = {}
          /\ \A b : b \in ToSet(f.blocks) <=> b \in KnotsAt("so3", {t})
      BY <1>1, <1>2, <1>3, <3>1, OfGyro
    <3>3. \A b \in KnotsAt("so3", {t}) : b[1] = "so3"
      BY <1>6 DEF Splines
    <3> QED
      BY <3>2, <3>3 DEF Added
  <2>3. CASE \E t, u \in data.imu : t < u /\ f \in AddGravityRotConstraint(knots, t, u)
    <3>1. PICK t \in data.imu, u \in data.imu : t < u /\ f \in AddGravityRotConstraint(knots, t, u)
      BY <2>3
    <3>2. t \in Int /\ u \in Int /\ t <= u
      BY <1>2, <3>1
    <3>3. /\ Added(f, "gravRot", knots) /\ f.fixed = {}
          /\ \A b \in ToSet(f.blocks) : b \in KnotsAt("grav", {t}) \/ b[1] = "vel"
      BY <1>1, <3>1, <3>2, OfGravityRot
    <3> QED
      BY <3>3 DEF Added
  <2>4. CASE f = AddAcceBiasPriori(opt)
    <3>1. Added(f, "baPriori", knots) /\ f.fixed = {} /\ \A b : b \in ToSet(f.blocks) <=> b = Ba
      BY <1>3, <2>4, OfAcceBiasPriori
    <3> QED
      BY <3>1, VectorNames DEF Added
  <2>5. CASE f = AddVelBiasPriori(opt)
    <3>1. Added(f, "bvPriori", knots) /\ f.fixed = {} /\ \A b : b \in ToSet(f.blocks) <=> b = Bv
      BY <1>3, <2>5, OfVelBiasPriori
    <3> QED
      BY <3>1, VectorNames DEF Added
  <2>6. CASE \E t \in data.radar : f \in AddRadarMeasurement(knots, t, opt)
    <3>1. PICK t \in data.radar : f \in AddRadarMeasurement(knots, t, opt)
      BY <2>6
    <3>2. /\ Added(f, "radar", knots) /\ f.fixed = {}
          /\ \A b : b \in ToSet(f.blocks) <=> b \in KnotsAt("so3", {t}) \/ b \in KnotsAt("vel", {t})
      BY <1>1, <1>2, <1>3, <3>1, OfRadar
    <3>3. \A b : b \in KnotsAt("so3", {t}) \/ b \in KnotsAt("vel", {t}) => b[1] # "grav"
      BY <1>6 DEF Splines
    <3> QED
      BY <3>2, <3>3 DEF Added
  <2>7. CASE \E t \in data.leg : f \in AddLegMeasurement(knots, t, opt)
    <3>1. /\ "VEL" \in opt /\ \A t \in data.leg : t \in Int
          /\ \A t \in data.leg : InRange("vel", knots, t) => InRange("so3", knots, t)
      BY <1>1, <1>2, <1>3 DEF Splines
    <3>2. Added(f, "leg", knots) /\ f.fixed = {}
      BY <1>1, <2>7, <3>1, OfLeg
    <3>3. \A b \in ToSet(f.blocks) : b[1] # "grav"
      BY <1>1, <2>7, <3>1, OfLeg
    <3> QED
      BY <3>2, <3>3 DEF Added
  <2> QED
    BY <1>4, <2>1, <2>2, <2>3, <2>4, <2>5, <2>6, <2>7
<1>8. ASSUME NEW t \in data.imu
      PROVE  \E f \in F : \A b : b \in KnotsAt("grav", {t}) \/ b \in KnotsAt("so3", {t}) => b \in ToSet(f.blocks)
  <2>1. t \in Int /\ InRange("grav", knots, t)
    BY <1>1, <1>2 DEF Splines
  <2>2. PICK f \in AddGravitySplineConstraint(knots, t) : TRUE
    BY <2>1, SomeAdded
  <2>3. \A b : b \in ToSet(f.blocks) <=> b \in KnotsAt("grav", {t}) \/ b \in KnotsAt("so3", {t})
    BY <1>1, <2>1, <2>2, OfGravitySpline
  <2> QED
    BY <1>5, <2>2, <2>3
<1>9. /\ \E f \in F : Ba \in ToSet(f.blocks)
      /\ \E f \in F : Bv \in ToSet(f.blocks)
  BY <1>3, <1>5, OfAcceBiasPriori, OfVelBiasPriori
<1> QED
  BY <1>7, <1>8, <1>9 DEF F

\* The tail of the gravity spline is put on three knots that the measurements
\* of the window have touched.
LEMMA GravRun ==
  ASSUME IInv, place = "preSolved", NEW opt, opt = WindowOptions
  PROVE  LET F == WindowFactors(opt)
             first == FirstGravKnot(Recorded(Problem(F), "grav"))
         IN /\ first \in Nat /\ first + 2 < knots["grav"]
            /\ \A k \in first .. first + 2 : \E f \in F : <<"grav", k>> \in ToSet(f.blocks)
<1> DEFINE F == WindowFactors(opt)
           R == Recorded(Problem(F), "grav")
           Index(t) == ComputeTIndex("grav", t)
<1>1. /\ \A f \in F : f.kind \notin {"velTail", "so3Tail", "gravTail"}
      /\ \A f \in F : \A b \in ToSet(f.blocks) : b[1] = "grav" =>
           \E t \in data.imu : b \in KnotsAt("grav", {t})
      /\ \A t \in data.imu : \E f \in F :
           \A b : b \in KnotsAt("grav", {t}) \/ b \in KnotsAt("so3", {t}) => b \in ToSet(f.blocks)
  BY WindowFactorsAre
<1>2. Problem(F).residuals = F
  BY ProblemOf
<1> HIDE DEF F
<1>3. /\ valid \in Nat /\ eTime \in Nat /\ valid >= MinInit /\ knots \in [Splines -> Nat]
      /\ \A t \in 0 .. eTime : InRange("grav", knots, t)
  BY WindowInRange DEF Windowed, Splines
<1>4. \A t \in data.imu : t \in Nat /\ t >= valid /\ t <= eTime
  BY <1>3 DEF IInv, DataInv
<1>5. \A t \in data.imu : Index(t) \in Nat \ {0}
  <2> DEFINE d == KnotDist["grav"]
  <2>1. d \in Nat \ {0} /\ d <= MinInit /\ MinInit \in Nat
    BY ProblemConstants DEF Splines
  <2>2. \A t \in Nat : t >= d => t \div d \in Nat \ {0}
    <3> HIDE DEF d
    <3>1. \A e \in Nat \ {0}, t \in Nat : t >= e => t \div e \in Nat \ {0}
      OBVIOUS
    <3> QED
      BY <2>1, <3>1
  <2>3. \A t \in data.imu : t \in Nat /\ t >= d
    BY <1>3, <1>4, <2>1
  <2> QED
    BY <2>2, <2>3 DEF ComputeTIndex
<1> HIDE DEF Index
<1>6. \A t : KnotsFor("grav", t) = Index(t) .. Index(t) + Order - 1
  BY DEF KnotsFor, Index
<1>7. \A t, b : b \in KnotsAt("grav", {t}) <=> \E k \in KnotsFor("grav", t) : b = <<"grav", k>>
  BY DEF KnotsAt, Knot
<1>8. Order \in Nat /\ Order >= 3
  BY ProblemConstants
<1>9. \A k \in R : \E t \in data.imu : k \in KnotsFor("grav", t)
  <2> TAKE k \in R
  <2>1. PICK f \in F : \E b \in ToSet(f.blocks) : b[1] = "grav" /\ k = b[2]
    BY <1>2, InRecorded
  <2>2. PICK b \in ToSet(f.blocks) : b[1] = "grav" /\ k = b[2]
    BY <2>1
  <2>3. PICK t \in data.imu : b \in KnotsAt("grav", {t})
    BY <1>1, <2>2
  <2>4. PICK m \in KnotsFor("grav", t) : b = <<"grav", m>>
    BY <1>7, <2>3
  <2> QED
    BY <2>2, <2>4
<1>10. ASSUME NEW t \in data.imu
       PROVE  \E f \in F : \A k \in KnotsFor("grav", t) : <<"grav", k>> \in ToSet(f.blocks)
  BY <1>1, <1>7
<1>11. \A t \in data.imu : Index(t) \in R
  <2> TAKE t \in data.imu
  <2>1. Index(t) \in KnotsFor("grav", t)
    BY <1>5, <1>6, <1>8
  <2>2. PICK f \in F : <<"grav", Index(t)>> \in ToSet(f.blocks)
    BY <1>10, <2>1
  <2>3. \E b \in ToSet(f.blocks) : b[1] = "grav" /\ Index(t) = b[2]
    BY <2>2
  <2> QED
    BY <1>1, <1>2, <2>2, <2>3, InRecorded
<1> HIDE DEF R
<1>12. R \in SUBSET (Nat \ {0}) /\ R # {}
  <2>1. \A k \in R : k \in Nat \ {0}
    BY <1>5, <1>6, <1>8, <1>9
  <2>2. data.imu # {}
    BY DEF IInv, DataInv
  <2> QED
    BY <1>11, <2>1, <2>2
<1> DEFINE first == FirstGravKnot(R)
<1>13. first \in R /\ \A k \in R : first <= k
  <2>1. R \ {0} = R /\ ~ (R \subseteq {0}) /\ R \in SUBSET Nat
    BY <1>12
  <2>2. first = Min(R)
    BY <2>1 DEF FirstGravKnot
  <2> QED
    BY <1>12, <2>1, <2>2, MinOfNats
<1> HIDE DEF first
<1>14. PICK t \in data.imu : first \in KnotsFor("grav", t)
  BY <1>9, <1>13
<1>15. first = Index(t) /\ first \in Nat
  BY <1>5, <1>6, <1>8, <1>11, <1>13, <1>14
<1>16. \A k \in first .. first + 2 : k \in KnotsFor("grav", t)
  BY <1>6, <1>8, <1>15
<1>17. first + 2 < knots["grav"]
  <2>1. t \in Int /\ InRange("grav", knots, t)
    BY <1>3, <1>4
  <2>2. \A b \in KnotsAt("grav", {t}) : b[1] = "grav" /\ b[2] \in 0 .. knots[b[1]] - 1
    BY <1>3, <2>1, KnotsInRange DEF Splines
  <2>3. first + 2 \in KnotsFor("grav", t)
    BY <1>15, <1>16
  <2>4. <<"grav", first + 2>> \in KnotsAt("grav", {t})
    BY <1>7, <2>3
  <2>5. first + 2 \in 0 .. knots["grav"] - 1
    BY <2>2, <2>4
  <2>6. knots["grav"] \in Nat
    BY <1>3 DEF Splines
  <2> QED
    BY <1>15, <2>5, <2>6
<1>18. \A k \in first .. first + 2 : \E f \in F : <<"grav", k>> \in ToSet(f.blocks)
  BY <1>10, <1>16
<1> QED
  BY <1>15, <1>17, <1>18 DEF first, R, F

\* A problem of sound factors, whose blocks on a sphere get a manifold from
\* some factor, if not from their own.
LEMMA SoundTogether ==
  ASSUME NEW G, NEW n, \A f \in G : Sound(f, n),
         \A f \in G : \A b \in ToSet(f.blocks) :
           b[1] \in {"so3", "grav", "gravity"} => \E h \in G : b \in h.onManifold
  PROVE  ProblemSound(Problem(G), n)
<1>1. \A f \in G : Within(n, ToSet(f.blocks))
  BY DEF Sound
<1>2. Within(n, Problem(G).blocks)
  BY <1>1, ProblemOf DEF Within
<1>3. \A b \in Problem(G).blocks : b[1] \in {"so3", "grav", "gravity"} => b \in Problem(G).onManifold
  BY ProblemOf
<1>4. DOMAIN Problem(G) = {"residuals", "blocks", "onManifold", "fixed"}
  BY DEF Problem
<1> QED
  BY <1>2, <1>3, <1>4, ProblemOf DEF ProblemSound

\* The problem proper: the tail of the gravity spline is on knots that have their
\* manifolds from the factors of the measurements.
LEMMA SolveWindowStep ==
  ASSUME IInv, SolveWindow
  PROVE  IInv'
<1> DEFINE opt == WindowOptions
           F == WindowFactors(opt)
           first == FirstGravKnot(Recorded(Problem(F), "grav"))
           G == F \union AddGravSplineTailConstraint(first, opt)
                  \union AddVelSplineTailConstraint(knots, opt)
                  \union AddSo3SplineTailConstraint(knots, opt)
<1>1. /\ place = "preSolved" /\ place' = "solved" /\ problem' = Problem(G) /\ own' = NoProblem
      /\ UNCHANGED <<data, knots, valid, eTime, filters, indices>>
  BY DEF SolveWindow
<1>2. /\ first \in Nat /\ first + 2 < knots["grav"]
      /\ \A k \in first .. first + 2 : \E f \in F : <<"grav", k>> \in ToSet(f.blocks)
  BY <1>1, GravRun
<1>3. /\ \A f \in F : /\ Added(f, f.kind, knots) /\ f.fixed = {}
                      /\ f.kind \notin {"velTail", "so3Tail", "gravTail"}
      /\ \A t \in data.imu : \E f \in F :
           \A b : b \in KnotsAt("grav", {t}) \/ b \in KnotsAt("so3", {t}) => b \in ToSet(f.blocks)
      /\ \E f \in F : Ba \in ToSet(f.blocks)
      /\ \E f \in F : Bv \in ToSet(f.blocks)
  BY <1>1, WindowFactorsAre
<1>4. /\ knots \in [Splines -> Nat] /\ "SO3" \in opt /\ "VEL" \in opt
      /\ Order <= knots["so3"] /\ Order <= knots["vel"]
  BY <1>1, WindowInRange DEF WindowOptions, Splines, Windowed
<1> HIDE DEF opt, F, first
<1>5. ASSUME NEW g \in G
      PROVE  /\ Sound(g, knots) /\ g.fixed = {}
             /\ \A b \in ToSet(g.blocks) : b[1] \in {"so3", "grav", "gravity"} => \E h \in G : b \in h.onManifold
  <2>1. CASE g \in F
    BY <1>3, <2>1 DEF Added
  <2>2. CASE g \in AddGravSplineTailConstraint(first, opt)
    <3>1. /\ Sound(g, knots) /\ g.fixed = {}
          /\ \A b : b \in ToSet(g.blocks) <=> \E k \in first .. first + 2 : b = <<"grav", k>>
      BY <1>2, <1>4, <2>2, OfGravTail
    <3>2. \A b \in ToSet(g.blocks) : b[1] = "grav" /\ \E f \in F : b \in ToSet(f.blocks)
      BY <1>2, <3>1
    <3>3. \A b \in ToSet(g.blocks) : \E f \in F : b \in f.onManifold
      BY <1>3, <3>2 DEF Added
    <3> QED
      BY <3>1, <3>3
  <2>3. CASE g \in AddVelSplineTailConstraint(knots, opt)
    <3>1. Added(g, "velTail", knots) /\ g.fixed = {}
      BY <1>4, <2>3, OfVelTail
    <3> QED
      BY <3>1 DEF Added
  <2>4. CASE g \in AddSo3SplineTailConstraint(knots, opt)
    <3>1. Added(g, "so3Tail", knots) /\ g.fixed = {}
      BY <1>4, <2>4, OfSo3Tail
    <3> QED
      BY <3>1 DEF Added
  <2> QED
    BY <2>1, <2>2, <2>3, <2>4
<1>6. \A f \in F : f \in G
  OBVIOUS
<1> HIDE DEF G
<1>7. ProblemSound(problem', knots) /\ problem'.fixed = {}
  BY <1>1, <1>5, SoundTogether, ProblemOf
<1>8. {Ba, Bv} \subseteq problem'.blocks
  BY <1>1, <1>3, <1>6, ProblemOf
<1>9. Recorded(problem', "so3") # {}
  <2>1. PICK t \in data.imu : TRUE
    BY <1>1 DEF IInv, DataInv
  <2>2. Knot("so3", ComputeTIndex("so3", t)) \in KnotsAt("so3", {t})
    <3>1. t \in Nat
      BY <1>1, WindowInRange DEF IInv, DataInv, Windowed
    <3>2. ComputeTIndex("so3", t) \in Nat /\ Order \in Nat /\ Order > 1
      BY <3>1, Indices, SplineConstants DEF Splines
    <3>3. ComputeTIndex("so3", t) \in KnotsFor("so3", t)
      BY <3>2 DEF KnotsFor
    <3> QED
      BY <3>3 DEF KnotsAt
  <2>3. PICK f \in F : Knot("so3", ComputeTIndex("so3", t)) \in ToSet(f.blocks)
    BY <1>3, <2>2
  <2>4. f \in problem'.residuals
    BY <1>1, <1>6, ProblemOf
  <2>5. \E b \in ToSet(f.blocks) : b[1] = "so3" /\ ComputeTIndex("so3", t) = b[2]
    BY <2>3 DEF Knot
  <2>6. ComputeTIndex("so3", t) \in Recorded(problem', "so3")
    BY <1>3, <2>4, <2>5, InRecorded
  <2> QED
    BY <2>6
<1>10. TypeOK'
  BY <1>1 DEF IInv, TypeOK, filters, indices
<1>11. EmptyInv' /\ TimeInv' /\ SizeInv' /\ DataInv' /\ FilterInv'
  BY <1>1 DEF IInv, EmptyInv, TimeInv, SizeInv, DataInv, FilterInv, Starting, Windowed, filters
<1>12. SoundInv'
  BY <1>1, <1>7, NothingSound DEF SoundInv, Problems
<1>13. FreeAsMeant' /\ HaveInv' /\ SolverKnowsBlocks'
  BY <1>1, <1>7, <1>8, <1>9 DEF FreeAsMeant, HaveInv, SolverKnowsBlocks
<1> QED
  BY <1>10, <1>11, <1>12, <1>13 DEF IInv

\* The first rotation knot of the problem is kept as an index.
LEMMA UpdateFiltersStep ==
  ASSUME IInv, UpdateFilters
  PROVE  IInv'
<1>1. /\ place = "solved" /\ updateStart' = updateEnd /\ updateEnd' = Min(Recorded(problem, "so3"))
      /\ UpdateBiasFilters(problem, "updated")
      /\ UNCHANGED <<data, knots, valid, eTime, problem, own>>
  BY DEF UpdateFilters
<1>2. valid \in Nat /\ eTime \in Nat /\ valid < eTime /\ knots \in [Splines -> Nat]
  BY <1>1, WindowInRange DEF Windowed
<1>3. TypeOK /\ \A f \in {baFilter, bvFilter} : f.time <= eTime
  <2>1. TypeOK /\ \A f \in {baFilter, bvFilter} : f.time <= valid
    BY <1>1 DEF IInv, FilterInv
  <2>2. \A f \in {baFilter, bvFilter} : f.time \in Nat
    BY <2>1 DEF TypeOK
  <2> QED
    BY <1>2, <2>1, <2>2
<1>4. {Ba, Bv} \subseteq problem.blocks /\ Recorded(problem, "so3") # {}
  BY <1>1 DEF IInv, HaveInv
<1>5. /\ \A f \in {baFilter', bvFilter'} : f \in [time : Nat, var : Nat] /\ f.time <= eTime
      /\ place' = "updated"
  BY <1>1, <1>3, <1>4, FiltersUpdated
<1>6. updateEnd' \in Nat /\ updateEnd' \in 0 .. knots["so3"] - 1
  <2> DEFINE R == Recorded(problem, "so3")
  <2>1. \A f \in problem.residuals : Within(knots, ToSet(f.blocks))
    BY DEF IInv, SoundInv, Problems, ProblemSound, Sound
  <2>2. \A k \in R : k \in 0 .. knots["so3"] - 1
    BY <2>1, InRecorded DEF Within, Splines
  <2> HIDE DEF R
  <2>3. R \in SUBSET Nat /\ R # {}
    BY <1>4, <2>2 DEF R
  <2>4. Min(R) \in R
    BY <2>3, MinOfNats
  <2>5. updateEnd' = Min(R)
    BY <1>1 DEF R
  <2> QED
    BY <2>2, <2>3, <2>4, <2>5
<1>7. TypeOK'
  BY <1>1, <1>3, <1>5, <1>6 DEF TypeOK
<1>8. EmptyInv' /\ TimeInv' /\ SizeInv' /\ DataInv' /\ FilterInv'
  BY <1>1, <1>5 DEF IInv, EmptyInv, TimeInv, SizeInv, DataInv, FilterInv, Starting, Windowed
<1>9. SoundInv'
  BY <1>1 DEF IInv, SoundInv, Problems
<1>10. FreeAsMeant' /\ HaveInv' /\ SolverKnowsBlocks'
  BY <1>1, <1>5, <1>6 DEF IInv, FreeAsMeant, HaveInv, SolverKnowsBlocks
<1> QED
  BY <1>7, <1>8, <1>9, <1>10 DEF IInv

\* PostOptimization: from two knots before the index of the last window on.
LEMMA PostOptimizationStep ==
  ASSUME IInv, PostOptimization
  PROVE  IInv'
<1> DEFINE F == {AddRotRefine(idx) : idx \in updateStart - 2 .. updateEnd - 3}
<1>1. /\ place = "updated" /\ place' = "postSolved"
      /\ own' = IF updateStart < FirstRefined THEN NoProblem ELSE Problem(F)
      /\ UNCHANGED <<data, knots, valid, eTime, problem, filters, indices>>
  BY DEF PostOptimization
<1>2. /\ knots \in [Splines -> Nat] /\ knots["grav"] = knots["so3"] /\ knots["so3"] \in Nat
      /\ updateEnd \in 0 .. knots["so3"] - 1 /\ updateStart \in Nat \union {None}
  BY <1>1 DEF IInv, TypeOK, SizeInv, HaveInv, Splines
<1>3. FirstRefined \in Nat /\ FirstRefined > 1
  BY ProblemConstants
<1>4. ProblemSound(own', knots) /\ \A b \in own'.blocks : b \notin own'.fixed <=> b[1] = "so3"
  <2>1. CASE updateStart < FirstRefined
    BY <1>1, <2>1, NothingSound
  <2>2. CASE ~ (updateStart < FirstRefined)
    <3>1. \A idx \in updateStart - 2 .. updateEnd - 3 : idx \in Nat /\ idx < knots["so3"]
      BY <1>2, <1>3, <2>2 DEF None
    <3>2. ASSUME NEW f \in F
          PROVE  /\ Added(f, f.kind, knots)
                 /\ \A b \in ToSet(f.blocks) : b \notin f.fixed <=> b[1] = "so3"
                 /\ \A b \in f.fixed : b[1] # "so3"
      <4>1. PICK idx \in updateStart - 2 .. updateEnd - 3 : f = AddRotRefine(idx)
        OBVIOUS
      <4>2. /\ Added(f, "rotRefine", knots)
            /\ \A b \in ToSet(f.blocks) : b \notin f.fixed <=> b[1] = "so3"
            /\ \A b \in f.fixed : b[1] # "so3"
        BY <1>2, <3>1, <4>1, OfRotRefine
      <4> QED
        BY <4>2 DEF Added
    <3> HIDE DEF F
    <3>3. own' = Problem(F)
      BY <1>1, <2>2
    <3> QED
      BY <3>2, <3>3, SoundProblem, ProblemOf
  <2> QED
    BY <2>1, <2>2
<1>5. TypeOK'
  BY <1>1 DEF IInv, TypeOK, filters, indices
<1>6. EmptyInv' /\ TimeInv' /\ SizeInv' /\ DataInv' /\ FilterInv'
  BY <1>1 DEF IInv, EmptyInv, TimeInv, SizeInv, DataInv, FilterInv, Starting, Windowed, filters
<1>7. SoundInv'
  BY <1>1, <1>4 DEF IInv, SoundInv, Problems
<1>8. FreeAsMeant' /\ HaveInv' /\ SolverKnowsBlocks'
  BY <1>1, <1>4 DEF IInv, FreeAsMeant, HaveInv, SolverKnowsBlocks, indices
<1> QED
  BY <1>5, <1>6, <1>7, <1>8 DEF IInv

\* The end of a window.
LEMMA FinishWindowStep ==
  ASSUME IInv, FinishWindow
  PROVE  IInv'
<1>1. /\ place = "postSolved" /\ place' = "ready" /\ valid' = eTime /\ problem' = NoProblem
      /\ own' = NoProblem /\ data' = NoData /\ UNCHANGED <<knots, eTime, filters, indices>>
  BY DEF FinishWindow
<1>2. /\ eTime \in Nat /\ eTime >= MinInit
  <2>1. valid \in Nat /\ eTime \in Nat /\ valid >= MinInit /\ valid < eTime /\ MinInit \in Nat
    BY <1>1, WindowInRange, ProblemConstants DEF Windowed
  <2> QED
    BY <2>1
<1>3. TypeOK'
  <2>1. NoData \in [{"imu", "radar", "leg"} -> SUBSET Int]
    BY DEF NoData
  <2> QED
    BY <1>1, <1>2, <2>1 DEF IInv, TypeOK, filters, indices
<1>4. EmptyInv' /\ TimeInv' /\ SizeInv' /\ DataInv' /\ FilterInv'
  BY <1>1, <1>2 DEF IInv, EmptyInv, TimeInv, SizeInv, DataInv, FilterInv, Starting, Windowed, filters, None
<1>5. SoundInv'
  BY <1>1, NothingSound DEF SoundInv, Problems
<1>6. FreeAsMeant' /\ HaveInv' /\ SolverKnowsBlocks'
  BY <1>1, NothingSound DEF FreeAsMeant, HaveInv, SolverKnowsBlocks
<1> QED
  BY <1>3, <1>4, <1>5, <1>6 DEF IInv

\* Every step keeps the invariant.
LEMMA Inductive == IInv /\ [Next]_vars => IInv'
<1> SUFFICES ASSUME IInv, [Next]_vars PROVE IInv'
  OBVIOUS
<1>1. CASE TryPerformInitialization
  BY <1>1, TryInitStep
<1>2. CASE InitializeSO3Spline
  BY <1>2, SO3SplineStep
<1>3. CASE InitializeGravity
  BY <1>3, GravityStep
<1>4. CASE InitializeVelSpline
  BY <1>4, VelSplineStep
<1>5. CASE FinishInitialization
  BY <1>5, FinishInitStep
<1>6. CASE ExtendSplines
  BY <1>6, ExtendStep
<1>7. CASE PreOptimization
  BY <1>7, PreOptimizationStep
<1>8. CASE SolveWindow
  BY <1>8, SolveWindowStep
<1>9. CASE UpdateFilters
  BY <1>9, UpdateFiltersStep
<1>10. CASE PostOptimization
  BY <1>10, PostOptimizationStep
<1>11. CASE FinishWindow
  BY <1>11, FinishWindowStep
<1>12. CASE UNCHANGED vars
  <2>1. UNCHANGED <<place, data, knots, valid, eTime, problem, own, baFilter, bvFilter, updateStart, updateEnd>>
    BY <1>12 DEF vars, filters, indices
  <2>2. /\ place' = place /\ data' = data /\ knots' = knots /\ valid' = valid /\ eTime' = eTime
        /\ problem' = problem /\ own' = own /\ baFilter' = baFilter /\ bvFilter' = bvFilter
        /\ updateStart' = updateStart /\ updateEnd' = updateEnd
    BY <2>1
  <2>3. TypeOK'
    BY <2>2 DEF IInv, TypeOK
  <2>4. EmptyInv' /\ TimeInv' /\ SizeInv' /\ DataInv' /\ FilterInv'
    BY <2>2 DEF IInv, EmptyInv, TimeInv, SizeInv, DataInv, FilterInv
  <2>5. SoundInv'
    BY <2>2 DEF IInv, SoundInv, Problems
  <2>6. FreeAsMeant' /\ HaveInv' /\ SolverKnowsBlocks'
    BY <2>2 DEF IInv, FreeAsMeant, HaveInv, SolverKnowsBlocks
  <2> QED
    BY <2>3, <2>4, <2>5, <2>6 DEF IInv
<1>13. CASE Terminated
  BY <1>12, <1>13 DEF Terminated
<1> QED
  BY <1>1, <1>2, <1>3, <1>4, <1>5, <1>6, <1>7, <1>8, <1>9, <1>10, <1>11, <1>12, <1>13 DEF Next

\* The inductive invariant holds throughout.
THEOREM Invariance == Spec => []IInv
<1>1. Init => IInv
  BY InitHolds
<1>2. IInv /\ [Next]_vars => IInv'
  BY Inductive
<1> QED
  BY <1>1, <1>2, PTL DEF Spec

-------------------------------------------------------------------------------
(* What follows from it.                                                   *)

\* The variables keep their types.
THEOREM TypeCorrect == Spec => []TypeOK
<1>1. IInv => TypeOK
  BY DEF IInv
<1> QED
  BY <1>1, Invariance, PTL

\* What is found at an offset is what a SubSeq from there holds.
LEMMA FoundIsSubSeq ==
  ASSUME NEW q \in Seq(Blocks), NEW r, Finds(q, r)
  PROVE  r.at + Len(r.want) <= Len(q) /\ SubSeq(q, r.at + 1, r.at + Len(r.want)) = r.want
<1> DEFINE a == r.at
           m == Len(r.want)
           w == r.want
           lo == a + 1
           hi == a + m
           sub == SubSeq(q, lo, hi)
<1>1. /\ a \in Nat /\ m \in Nat /\ a + m <= Len(q) /\ w \in Seq(Blocks) /\ Len(w) = m
      /\ \A k \in 1 .. m : q[a + k] = w[k]
  BY DEF Finds
<1> HIDE DEF a, m, w
<1>2. \A i \in a + 1 .. a + m : q[i] \in Blocks
  <2>1. Len(q) \in Nat /\ \A i \in 1 .. Len(q) : q[i] \in Blocks
    BY LenProperties, ElementOfSeq
  <2> QED
    BY <1>1, <2>1
<1>3. /\ sub \in Seq(Blocks) /\ Len(sub) = IF lo <= hi THEN hi - lo + 1 ELSE 0
      /\ \A i \in 1 .. hi - lo + 1 : sub[i] = q[lo + i - 1]
  <2>1. lo \in Int /\ hi \in Int /\ \A i \in lo .. hi : q[i] \in Blocks
    BY <1>1, <1>2
  <2> HIDE DEF lo, hi
  <2> QED
    BY <2>1, SubSeqProperties
<1> HIDE DEF sub
<1>4. Len(sub) = m
  BY <1>1, <1>3
<1>5. \A i \in 1 .. m : a + 1 + i - 1 = a + i /\ i \in 1 .. a + m - (a + 1) + 1
  BY <1>1
<1>6. \A i \in 1 .. m : sub[i] = w[i]
  BY <1>1, <1>3, <1>5
<1>7. sub = w
  BY <1>1, <1>3, <1>4, <1>6, SeqEqual
<1> QED
  BY <1>1, <1>7 DEF sub, a, m, w

\* Whatever the stamps, the sizes that Add* declares are those of the blocks it
\* gathers, and each class reads, at the offsets it computes, what it means to
\* (include/factor, estimator.cpp).
THEOREM FactorsAlwaysFit == Spec => []FactorsFit
<1>1. ASSUME IInv
      PROVE  FactorsFit
  <2>1. ASSUME NEW f \in Residuals
        PROVE  /\ f.declared = [i \in DOMAIN f.blocks |-> SizeOf[f.blocks[i][1]]]
               /\ \A r \in f.reads :
                    /\ r.at + Len(r.want) <= Len(f.blocks)
                    /\ SubSeq(f.blocks, r.at + 1, r.at + Len(r.want)) = r.want
    <3>1. Fit(f.blocks, f.declared, f.reads)
      BY <1>1 DEF IInv, SoundInv, Problems, ProblemSound, Sound, Residuals
    <3>2. /\ f.blocks \in Seq(Blocks) /\ f.declared = [i \in DOMAIN f.blocks |-> SizeOf[f.blocks[i][1]]]
          /\ \A r \in f.reads : Finds(f.blocks, r)
      BY <3>1 DEF Fit, SizesOf
    <3> QED
      BY <3>2, FoundIsSubSeq
  <2> QED
    BY <2>1 DEF FactorsFit
<1> QED
  BY <1>1, Invariance, PTL

\* As many blocks as places, if none comes twice.
LEMMA DistinctCount ==
  ASSUME NEW q \in Seq(Blocks), Distinct(q)
  PROVE  Cardinality(ToSet(q)) = Len(q)
<1>1. Len(q) \in Nat /\ DOMAIN q = 1 .. Len(q) /\ q \in [1 .. Len(q) -> Blocks]
  BY LenProperties
<1> DEFINE S == 1 .. Len(q)
           T == ToSet(q)
<1>2. q \in [S -> T]
  BY <1>1 DEF ToSet
<1>3. q \in Bijection(S, T)
  <2>1. q \in Injection(S, T)
    BY <1>2 DEF Injection, IsInjective, Distinct
  <2>2. q \in Surjection(S, T)
    BY <1>1, <1>2 DEF Surjection, ToSet
  <2> QED
    BY <2>1, <2>2 DEF Bijection
<1>4. IsFiniteSet(S) /\ Cardinality(S) = Len(q)
  BY <1>1, FS_Interval
<1> HIDE DEF S, T
<1>5. Cardinality(T) = Cardinality(S)
  BY <1>3, <1>4, FS_Bijection DEF ExistsBijection
<1> QED
  BY <1>4, <1>5 DEF T

\* No factor gets a block twice, nor a problem a knot its spline does not have,
\* by tails, rotation priors and indices of the last window included.
THEOREM BlocksAlwaysExistOnce == Spec => []BlocksExistOnce
<1>1. ASSUME IInv
      PROVE  BlocksExistOnce
  <2>1. ASSUME NEW f \in Residuals
        PROVE  Cardinality(ToSet(f.blocks)) = Len(f.blocks)
    <3>1. Fit(f.blocks, f.declared, f.reads)
      BY <1>1 DEF IInv, SoundInv, Problems, ProblemSound, Sound, Residuals
    <3> QED
      BY <3>1, DistinctCount DEF Fit
  <2>2. \A p \in Problems : \A b \in p.blocks : b[1] \in Splines => b[2] \in 0 .. knots[b[1]] - 1
    BY <1>1 DEF IInv, SoundInv, ProblemSound, Within
  <2> QED
    BY <2>1, <2>2 DEF BlocksExistOnce
<1> QED
  BY <1>1, Invariance, PTL

\* Whatever a problem moves on a sphere it moves on a manifold, the tail of the
\* gravity spline included, which sets none (estimator.cpp:410-438).
THEOREM AlwaysOnManifolds == Spec => []OnManifolds
<1>1. IInv => OnManifolds
  BY DEF IInv, SoundInv, ProblemSound, OnManifolds
<1> QED
  BY <1>1, Invariance, PTL

\* Each problem holds constant what it is meant to and nothing else.
THEOREM AlwaysFreeAsMeant == Spec => []FreeAsMeant
<1>1. IInv => FreeAsMeant
  BY DEF IInv
<1> QED
  BY <1>1, Invariance, PTL

\* The front rotation knot that is held is always in the problem, and so are the
\* biases whose covariance is asked for, unless the initialisation had no leg
\* frame in range.
THEOREM SolverAlwaysKnowsBlocks == Spec => []SolverKnowsBlocks
<1>1. IInv => SolverKnowsBlocks
  BY DEF IInv
<1> QED
  BY <1>1, Invariance, PTL

\* The variances that are inverted in a window are positive: time has passed since
\* the filters were last certain.
THEOREM PrioriAlwaysInvertible == Spec => []PrioriInvertible
<1>1. ASSUME IInv
      PROVE  PrioriInvertible
  <2>1. ASSUME place \in {"preSolved", "solved"}, NEW f \in {baFilter, bvFilter}
        PROVE  Prediction(f, eTime).var > 0
    <3>1. valid \in Nat /\ eTime \in Nat /\ valid < eTime
      BY <1>1, <2>1, WindowInRange DEF Windowed
    <3>2. f.time <= valid /\ f.time \in Nat /\ f.var \in Nat
      BY <1>1, <2>1 DEF IInv, FilterInv, TypeOK
    <3>3. Prediction(f, eTime).var = f.var + (eTime - f.time)
      BY DEF Prediction, StatePack
    <3> QED
      BY <3>1, <3>2, <3>3
  <2> QED
    BY <2>1 DEF PrioriInvertible
<1> QED
  BY <1>1, Invariance, PTL
-------------------------------------------------------------------------------
(* What the problems of a window move, and what is left alone.             *)

\* The stamps of all measurements in use.
Stamps == data.imu \union data.radar \union data.leg

\* A block measurements of the window may bring: no gravity, and no knot that
\* none of their stamps needs.
OfStamps(b) == b # Gravity /\ (b[1] \in Splines => \E t \in Stamps : b \in KnotsAt(b[1], {t}))

\* A knot is no earlier than the first one its time needs.
LEMMA NoEarlierKnot ==
  ASSUME NEW s \in Splines, NEW t \in Nat, NEW u \in Nat, u <= t, NEW b \in KnotsAt(s, {t})
  PROVE  /\ b[1] = s /\ b[2] \in Nat /\ b[2] >= ComputeTIndex(s, u) /\ b[2] >= ComputeTIndex(s, t)
         /\ b # Gravity
<1>1. PICK k \in KnotsFor(s, t) : b = <<s, k>>
  BY DEF KnotsAt, Knot
<1>2. /\ ComputeTIndex(s, t) \in Nat /\ ComputeTIndex(s, u) \in Nat
      /\ ComputeTIndex(s, u) <= ComputeTIndex(s, t)
  BY Indices
<1>3. Order \in Nat
  BY SplineConstants
<1>4. k \in Nat /\ k >= ComputeTIndex(s, t)
  BY <1>1, <1>2, <1>3 DEF KnotsFor
<1>5. s # "gravity"
  BY DEF Splines
<1> QED
  BY <1>1, <1>2, <1>4, <1>5, VectorNames

\* The blocks of a window's factors, and that every stamp is recorded with the
\* first of its rotation knots.
LEMMA WindowBlocks ==
  ASSUME IInv, place = "preSolved", NEW opt, opt = WindowOptions
  PROVE  LET F == WindowFactors(opt)
         IN /\ \A f \in F : \A b \in ToSet(f.blocks) : OfStamps(b)
            /\ \A t \in Stamps : \E f \in F :
                 \A b : b \in KnotsAt("so3", {t}) => b \in ToSet(f.blocks)
<1> DEFINE F == WindowFactors(opt)
<1>1. /\ valid \in Nat /\ eTime \in Nat /\ knots \in [Splines -> Nat] /\ knots["grav"] = knots["so3"]
      /\ \A t \in 0 .. eTime : \A s \in Splines : InRange(s, knots, t)
  BY WindowInRange DEF Windowed
<1>2. \A t \in Stamps : t \in Int /\ t \in 0 .. eTime
  BY <1>1 DEF IInv, DataInv, Stamps
<1>3. opt = {"SO3", "VEL", "BA"}
  BY DEF WindowOptions
<1>4. ASSUME NEW f \in F
      PROVE  \/ \E t \in data.imu : f \in AddGravitySplineConstraint(knots, t)
             \/ \E t \in data.imu : f \in AddGyroMeasurementWithConstBias(knots, t, opt)
             \/ \E t, u \in data.imu : t < u /\ f \in AddGravityRotConstraint(knots, t, u)
             \/ f = AddAcceBiasPriori(opt)
             \/ f = AddVelBiasPriori(opt)
             \/ \E t \in data.radar : f \in AddRadarMeasurement(knots, t, opt)
             \/ \E t \in data.leg : f \in AddLegMeasurement(knots, t, opt)
  BY DEF WindowFactors
<1>5. /\ \A t \in data.imu : AddGyroMeasurementWithConstBias(knots, t, opt) \subseteq F
      /\ \A t \in data.radar : AddRadarMeasurement(knots, t, opt) \subseteq F
      /\ \A t \in data.leg : AddLegMeasurement(knots, t, opt) \subseteq F
  BY DEF WindowFactors
<1> HIDE DEF F
<1>6. ASSUME NEW s \in Splines, NEW t \in Stamps, NEW b \in KnotsAt(s, {t})
      PROVE  OfStamps(b)
  <2>1. t \in Nat /\ t <= t
    BY <1>1, <1>2
  <2>2. b[1] = s /\ b # Gravity
    BY <2>1, NoEarlierKnot
  <2> QED
    BY <1>6, <2>2 DEF OfStamps
<1>7. OfStamps(Ba) /\ OfStamps(Bv)
  BY VectorNames DEF OfStamps, Ba, Bv, Gravity
<1>8. /\ \A t \in data.imu : t \in Stamps /\ t \in Int
      /\ \A t \in data.radar : t \in Stamps /\ t \in Int
      /\ \A t \in data.leg : t \in Stamps /\ t \in Int
  BY <1>2 DEF Stamps
<1>9. \A t \in data.leg : InRange("vel", knots, t) => InRange("so3", knots, t)
  BY <1>1, <1>2, <1>8 DEF Splines
<1>10. ASSUME NEW f \in F, NEW b \in ToSet(f.blocks)
       PROVE  OfStamps(b)
  <2>1. CASE \E t \in data.imu : f \in AddGravitySplineConstraint(knots, t)
    <3>1. PICK t \in data.imu : f \in AddGravitySplineConstraint(knots, t)
      BY <2>1
    <3>2. b \in KnotsAt("grav", {t}) \/ b \in KnotsAt("so3", {t})
      BY <1>1, <1>8, <3>1, OfGravitySpline
    <3> QED
      BY <1>6, <1>8, <3>2 DEF Splines
  <2>2. CASE \E t \in data.imu : f \in AddGyroMeasurementWithConstBias(knots, t, opt)
    <3>1. PICK t \in data.imu : f \in AddGyroMeasurementWithConstBias(knots, t, opt)
      BY <2>2
    <3>2. b \in KnotsAt("so3", {t})
      BY <1>1, <1>3, <1>8, <3>1, OfGyro
    <3> QED
      BY <1>6, <1>8, <3>2 DEF Splines
  <2>3. CASE \E t, u \in data.imu : t < u /\ f \in AddGravityRotConstraint(knots, t, u)
    <3>1. PICK t \in data.imu, u \in data.imu : t < u /\ f \in AddGravityRotConstraint(knots, t, u)
      BY <2>3
    <3>2. t \in Int /\ u \in Int /\ t <= u
      BY <1>8, <3>1
    <3>3. b \in KnotsAt("grav", {t}) \/ b \in KnotsAt("vel", {t}) \/ b \in KnotsAt("vel", {u})
      BY <1>1, <3>1, <3>2, OfGravityRot
    <3> QED
      BY <1>6, <1>8, <3>3 DEF Splines
  <2>4. CASE f = AddAcceBiasPriori(opt)
    BY <1>3, <1>7, <2>4, OfAcceBiasPriori
  <2>5. CASE f = AddVelBiasPriori(opt)
    BY <1>3, <1>7, <2>5, OfVelBiasPriori
  <2>6. CASE \E t \in data.radar : f \in AddRadarMeasurement(knots, t, opt)
    <3>1. PICK t \in data.radar : f \in AddRadarMeasurement(knots, t, opt)
      BY <2>6
    <3>2. b \in KnotsAt("so3", {t}) \/ b \in KnotsAt("vel", {t})
      BY <1>1, <1>3, <1>8, <3>1, OfRadar
    <3> QED
      BY <1>6, <1>8, <3>2 DEF Splines
  <2>7. CASE \E t \in data.leg : f \in AddLegMeasurement(knots, t, opt)
    <3>1. PICK t \in data.leg : f \in AddLegMeasurement(knots, t, opt)
      BY <2>7
    <3>2. b \in KnotsAt("so3", {t}) \/ b \in KnotsAt("vel", {t}) \/ b = Bv
      BY <1>1, <1>3, <1>8, <1>9, <3>1, OfLeg
    <3> QED
      BY <1>6, <1>7, <1>8, <3>2 DEF Splines
  <2> QED
    BY <1>4, <2>1, <2>2, <2>3, <2>4, <2>5, <2>6, <2>7
<1>11. ASSUME NEW t \in Stamps
       PROVE  \E f \in F : \A b : b \in KnotsAt("so3", {t}) => b \in ToSet(f.blocks)
  <2>1. t \in Int /\ InRange("so3", knots, t) /\ InRange("vel", knots, t)
    BY <1>1, <1>2 DEF Splines
  <2>2. CASE t \in data.imu
    <3>1. PICK f \in AddGyroMeasurementWithConstBias(knots, t, opt) : TRUE
      BY <2>1, SomeAdded
    <3>2. \A b : b \in KnotsAt("so3", {t}) => b \in ToSet(f.blocks)
      BY <1>1, <1>3, <2>1, <3>1, OfGyro
    <3> QED
      BY <1>5, <2>2, <3>1, <3>2
  <2>3. CASE t \in data.radar
    <3>1. PICK f \in AddRadarMeasurement(knots, t, opt) : TRUE
      BY <2>1, SomeAdded
    <3>2. \A b : b \in KnotsAt("so3", {t}) => b \in ToSet(f.blocks)
      BY <1>1, <1>3, <2>1, <3>1, OfRadar
    <3> QED
      BY <1>5, <2>3, <3>1, <3>2
  <2>4. CASE t \in data.leg
    <3>1. PICK f \in AddLegMeasurement(knots, t, opt) : TRUE
      BY <2>1, SomeAdded
    <3>2. \A b : b \in KnotsAt("so3", {t}) => b \in ToSet(f.blocks)
      BY <1>1, <1>3, <2>1, <3>1, OfLeg
    <3> QED
      BY <1>5, <2>4, <3>1, <3>2
  <2> QED
    BY <2>2, <2>3, <2>4 DEF Stamps
<1> QED
  BY <1>10, <1>11 DEF F

\* A tail starts no earlier than what any time in range needs.
LEMMA TailsAreLate ==
  ASSUME NEW s \in Splines, NEW n \in [Splines -> Nat], NEW t \in Int, InRange(s, n, t)
  PROVE  ComputeTIndex(s, t) \in Nat /\ ComputeTIndex(s, t) <= n[s] - Order
<1>1. t \in Nat /\ \A b \in KnotsAt(s, {t}) : b[1] = s /\ b[2] \in 0 .. n[b[1]] - 1
  BY KnotsInRange
<1>2. ComputeTIndex(s, t) \in Nat /\ Order \in Nat /\ Order > 1 /\ n[s] \in Nat
  BY <1>1, Indices, SplineConstants
<1> DEFINE k == ComputeTIndex(s, t) + Order - 1
<1>3. k \in KnotsFor(s, t)
  BY <1>2 DEF KnotsFor
<1>4. <<s, k>> \in KnotsAt(s, {t})
  BY <1>3 DEF KnotsAt
<1> HIDE DEF k
<1>5. k <= n[s] - 1
  BY <1>1, <1>2, <1>4
<1> QED
  BY <1>2, <1>5 DEF k

\* A knot the valid time or a later one needs.
Live(b) == b[1] \in Splines => b[2] >= ComputeTIndex(b[1], valid)

\* What a window's problems have: no gravity, and no knot from before the valid
\* time.  The index that is kept is that of the first rotation knot, and no
\* gravity knot is before it either; PostOptimization takes those before it.
WindowInv ==
  /\ place = "so3Solved" => Gravity \notin problem.blocks
  /\ place \in {"velSolved", "noCovariance"} => Gravity \in problem.fixed
  /\ place = "preSolved" => \A b \in own.blocks : b # Gravity /\ Live(b)
  /\ place \in {"solved", "updated", "postSolved"} => \A b \in problem.blocks : b # Gravity /\ Live(b)
  /\ place = "solved" => \A b \in problem.blocks :
       b[1] \in {"so3", "grav"} => \E k \in Recorded(problem, "so3") : k <= b[2]
  /\ place \in {"updated", "postSolved"} => \A b \in problem.blocks :
       b[1] \in {"so3", "grav"} => updateEnd <= b[2]
  /\ place = "postSolved" => \A b \in own.blocks :
       b = Gravity \/ (b[1] \in {"so3", "grav"} /\ b[2] < updateEnd)

\* The gravity is in no factor of a rotation rate, and held by those of accelerations.
LEMMA InitializationWindowInv ==
  ASSUME IInv, WindowInv,
         TryPerformInitialization \/ InitializeSO3Spline \/ InitializeGravity
           \/ InitializeVelSpline \/ FinishInitialization
  PROVE  WindowInv'
<1>1. CASE TryPerformInitialization
  BY <1>1 DEF TryPerformInitialization, WindowInv
<1>2. CASE InitializeSO3Spline
  <2> DEFINE F == UNION {AddGyroMeasurementWithConstBias(knots, t, {"SO3"}) : t \in data.imu}
  <2>1. /\ place = "created" /\ knots \in [Splines -> Nat] /\ data.imu \in SUBSET Int
    BY <1>2 DEF InitializeSO3Spline, IInv, TypeOK
  <2>2. ASSUME NEW f \in F, NEW b \in ToSet(f.blocks)
        PROVE  b # Gravity
    <3>1. PICK t \in data.imu : f \in AddGyroMeasurementWithConstBias(knots, t, {"SO3"})
      OBVIOUS
    <3>2. b \in KnotsAt("so3", {t}) /\ InRange("so3", knots, t)
      BY <2>1, <3>1, OfGyro
    <3>3. b[1] = "so3"
      BY <2>1, <3>2, KnotsInRange DEF Splines
    <3> QED
      BY <3>3, VectorNames
  <2>3. HoldFrontKnot(Problem(F), "so3Solved")
    BY <1>2 DEF InitializeSO3Spline
  <2> HIDE DEF F
  <2>4. Gravity \notin Problem(F).blocks
    BY <2>2, ProblemOf
  <2>5. problem'.blocks = Problem(F).blocks /\ place' \in {"so3Solved", "noFrontKnot"}
    BY <2>3 DEF HoldFrontKnot, SetParameterBlockConstant, Problem
  <2> QED
    BY <2>4, <2>5 DEF WindowInv
<1>3. CASE InitializeGravity
  BY <1>3 DEF InitializeGravity, WindowInv
<1>4. CASE InitializeVelSpline
  <2> DEFINE F == VelSplineFactors({"SO3", "VEL", "GRAVITY"})
  <2>1. /\ place = "gravitySolved" /\ knots \in [Splines -> Nat] /\ 0 \in data.imu
        /\ data \in [{"imu", "radar", "leg"} -> SUBSET Int] /\ \A s \in Splines : Order <= knots[s]
        /\ \A t \in Int : InRange("vel", knots, t) => InRange("so3", knots, t)
    BY <1>4 DEF InitializeVelSpline, IInv, TypeOK, DataInv, SizeInv, Starting
  <2>2. /\ \A f \in F : Added(f, f.kind, knots)
        /\ \E f \in F : Knot("so3", 0) \in ToSet(f.blocks)
        /\ \E f \in F : Gravity \in f.fixed
    BY <2>1, VelSplineFactorsAre
  <2>3. HoldFrontKnot(Problem(F), "velSolved")
    BY <1>4 DEF InitializeVelSpline, VelSplineFactors
  <2> HIDE DEF F
  <2>4. place' = "velSolved" /\ \A b : b \in problem'.fixed <=> b = Knot("so3", 0) \/ \E f \in F : b \in f.fixed
    BY <2>2, <2>3, HeldFront
  <2> QED
    BY <2>2, <2>4 DEF WindowInv
<1>5. CASE FinishInitialization
  <2>1. /\ place = "velSolved" /\ place' \in {"ready", "noCovariance"}
        /\ place' # "ready" => problem'.fixed = problem.fixed
    <3>1. ProblemSound(problem, knots)
      BY DEF IInv, SoundInv, Problems
    <3>2. RemoveResidualBlocks(problem, {"velTail", "so3Tail"}).fixed = problem.fixed
      BY <3>1, Removed
    <3> QED
      BY <1>5, <3>2 DEF FinishInitialization, UpdateBiasFilters
  <2> QED
    BY <2>1 DEF WindowInv
<1> QED
  BY <1>1, <1>2, <1>3, <1>4, <1>5

\* PreOptimization looks ahead, never back.
LEMMA PreOptimizationLive ==
  ASSUME IInv, PreOptimization
  PROVE  WindowInv'
<1> DEFINE F == UNION ({AddGyroMeasurementWithConstBias(knots, t, {"SO3"}) : t \in data.imu}
                         \union {AddSo3SplineTailConstraint(knots, {"SO3"})}
                         \union {AddRotPrior(knots, t, RotPriorGap) : t \in valid .. eTime - RotPriorGap - 1})
<1>1. place = "extended" /\ place' = "preSolved" /\ own' = Problem(F) /\ UNCHANGED valid
  BY DEF PreOptimization
<1>2. /\ valid \in Nat /\ eTime \in Nat /\ valid < eTime /\ knots \in [Splines -> Nat] /\ Order <= knots["so3"]
      /\ \A t \in 0 .. eTime : InRange("so3", knots, t)
  BY <1>1, WindowInRange DEF Windowed, Splines
<1>3. RotPriorGap \in Nat /\ \A t \in data.imu : t \in Nat /\ valid <= t
  BY <1>1, <1>2, ProblemConstants DEF IInv, DataInv
<1>4. ASSUME NEW t \in Nat, valid <= t, NEW b \in KnotsAt("so3", {t})
      PROVE  b # Gravity /\ Live(b)
  BY <1>2, <1>4, NoEarlierKnot DEF Live, Splines
<1>5. ASSUME NEW f \in F, NEW b \in ToSet(f.blocks)
      PROVE  b # Gravity /\ Live(b)
  <2>1. \/ \E t \in data.imu : f \in AddGyroMeasurementWithConstBias(knots, t, {"SO3"})
        \/ f \in AddSo3SplineTailConstraint(knots, {"SO3"})
        \/ \E t \in valid .. eTime - RotPriorGap - 1 : f \in AddRotPrior(knots, t, RotPriorGap)
    OBVIOUS
  <2> HIDE DEF F
  <2>2. CASE \E t \in data.imu : f \in AddGyroMeasurementWithConstBias(knots, t, {"SO3"})
    <3>1. PICK t \in data.imu : f \in AddGyroMeasurementWithConstBias(knots, t, {"SO3"})
      BY <2>2
    <3>2. t \in Int /\ "SO3" \in {"SO3"}
      BY <1>3
    <3>3. b \in KnotsAt("so3", {t})
      BY <1>2, <3>1, <3>2, OfGyro
    <3> QED
      BY <1>3, <1>4, <3>3
  <2>3. CASE f \in AddSo3SplineTailConstraint(knots, {"SO3"})
    <3>1. b[1] = "so3" /\ b[2] >= knots["so3"] - Order
      BY <1>2, <2>3, OfSo3Tail
    <3>2. ComputeTIndex("so3", valid) \in Nat /\ ComputeTIndex("so3", valid) <= knots["so3"] - Order
      <4>1. InRange("so3", knots, valid) /\ valid \in Int
        BY <1>2
      <4> QED
        BY <1>2, <4>1, TailsAreLate DEF Splines
    <3>4. b[2] \in Int
      <4>1. Added(f, "so3Tail", knots)
        BY <1>2, <2>3, OfSo3Tail
      <4>2. b[2] \in 0 .. knots["so3"] - 1
        BY <3>1, <4>1 DEF Added, Sound, Within, Splines
      <4> QED
        BY <1>2, <4>2 DEF Splines
    <3>5. Order \in Nat /\ knots["so3"] \in Nat
      BY <1>2, SplineConstants DEF Splines
    <3> QED
      BY <3>1, <3>2, <3>4, <3>5, VectorNames DEF Live
  <2>4. CASE \E t \in valid .. eTime - RotPriorGap - 1 : f \in AddRotPrior(knots, t, RotPriorGap)
    <3>1. PICK t \in valid .. eTime - RotPriorGap - 1 : f \in AddRotPrior(knots, t, RotPriorGap)
      BY <2>4
    <3>2. /\ t \in Int /\ t \in Nat /\ valid <= t /\ t \in 0 .. eTime
          /\ t + RotPriorGap \in 0 .. eTime /\ t + RotPriorGap \in Nat /\ valid <= t + RotPriorGap
      BY <1>2, <1>3
    <3>3. b \in KnotsAt("so3", {t}) \/ b \in KnotsAt("so3", {t + RotPriorGap})
      BY <1>2, <1>3, <3>1, <3>2, OfRotPrior
    <3> QED
      BY <1>4, <3>2, <3>3
  <2> QED
    BY <2>1, <2>2, <2>3, <2>4
<1> HIDE DEF F
<1>6. \A b \in own'.blocks : b # Gravity /\ Live(b)
  BY <1>1, <1>5, ProblemOf
<1>7. \A b \in own'.blocks : b # Gravity /\ Live(b)'
  BY <1>1, <1>6 DEF Live
<1> QED
  BY <1>1, <1>7 DEF WindowInv

\* The problem of a window: every knot is one that a stamp of the window needs,
\* or later than those, and the first rotation knots of every stamp are recorded.
LEMMA SolveWindowLive ==
  ASSUME IInv, SolveWindow
  PROVE  WindowInv'
<1> DEFINE opt == WindowOptions
           F == WindowFactors(opt)
           first == FirstGravKnot(Recorded(Problem(F), "grav"))
           G == F \union AddGravSplineTailConstraint(first, opt)
                  \union AddVelSplineTailConstraint(knots, opt)
                  \union AddSo3SplineTailConstraint(knots, opt)
           R == Recorded(Problem(G), "so3")
           Index(t) == ComputeTIndex("so3", t)
<1>1. /\ place = "preSolved" /\ place' = "solved" /\ problem' = Problem(G) /\ UNCHANGED valid
  BY DEF SolveWindow
<1>2. /\ first \in Nat /\ first + 2 < knots["grav"]
      /\ \A k \in first .. first + 2 : \E f \in F : <<"grav", k>> \in ToSet(f.blocks)
  BY <1>1, GravRun
<1>3. /\ \A f \in F : f.kind \notin {"velTail", "so3Tail", "gravTail"}
      /\ \A f \in F : \A b \in ToSet(f.blocks) : OfStamps(b)
      /\ \A t \in Stamps : \E f \in F : \A b : b \in KnotsAt("so3", {t}) => b \in ToSet(f.blocks)
  BY <1>1, WindowFactorsAre, WindowBlocks
<1>4. /\ knots \in [Splines -> Nat] /\ "SO3" \in opt /\ "VEL" \in opt
      /\ Order <= knots["so3"] /\ Order <= knots["vel"]
      /\ valid \in Nat /\ eTime \in Nat /\ valid < eTime
      /\ \A t \in 0 .. eTime : \A s \in Splines : InRange(s, knots, t)
  BY <1>1, WindowInRange DEF WindowOptions, Splines, Windowed
<1>5. /\ \A t \in Stamps : t \in Nat /\ valid <= t /\ t \in 0 .. eTime
      /\ \E t \in Stamps : TRUE
  BY <1>1, <1>4 DEF IInv, DataInv, Stamps
<1> HIDE DEF opt, F, first
<1>6. ASSUME NEW g \in G, NEW b \in ToSet(g.blocks)
      PROVE  OfStamps(b) \/ (b[1] \in {"vel", "so3"} /\ b[2] \in Nat /\ b[2] >= knots[b[1]] - Order)
  <2>1. CASE g \in F
    BY <1>3, <2>1
  <2>2. CASE g \in AddGravSplineTailConstraint(first, opt)
    <3>1. \E k \in first .. first + 2 : b = <<"grav", k>>
      BY <1>2, <1>4, <2>2, OfGravTail
    <3> QED
      BY <1>2, <1>3, <3>1
  <2>3. CASE g \in AddVelSplineTailConstraint(knots, opt)
    <3>1. b[1] = "vel" /\ b[2] >= knots["vel"] - Order /\ Added(g, "velTail", knots)
      BY <1>4, <2>3, OfVelTail
    <3>2. b[2] \in 0 .. knots["vel"] - 1
      BY <3>1 DEF Added, Sound, Within, Splines
    <3> QED
      BY <3>1, <3>2
  <2>4. CASE g \in AddSo3SplineTailConstraint(knots, opt)
    <3>1. b[1] = "so3" /\ b[2] >= knots["so3"] - Order /\ Added(g, "so3Tail", knots)
      BY <1>4, <2>4, OfSo3Tail
    <3>2. b[2] \in 0 .. knots["so3"] - 1
      BY <3>1 DEF Added, Sound, Within, Splines
    <3> QED
      BY <3>1, <3>2
  <2> QED
    BY <2>1, <2>2, <2>3, <2>4
<1>7. \A f \in F : f \in G
  OBVIOUS
<1> HIDE DEF G
<1>8. ASSUME NEW t \in Stamps
      PROVE  Index(t) \in R /\ Index(t) \in Nat /\ Index(t) <= knots["so3"] - Order
  <2>1. t \in Int /\ InRange("so3", knots, t)
    BY <1>4, <1>5 DEF Splines
  <2>2. Index(t) \in Nat /\ Index(t) <= knots["so3"] - Order
    BY <1>4, <2>1, TailsAreLate DEF Splines
  <2>3. Index(t) \in KnotsFor("so3", t)
    BY <2>2, SplineConstants DEF KnotsFor
  <2>4. <<"so3", Index(t)>> \in KnotsAt("so3", {t})
    BY <2>3 DEF KnotsAt, Knot
  <2>5. PICK f \in F : <<"so3", Index(t)>> \in ToSet(f.blocks)
    BY <1>3, <2>4
  <2>6. \E b \in ToSet(f.blocks) : b[1] = "so3" /\ Index(t) = b[2]
    BY <2>5
  <2>7. f \in Problem(G).residuals /\ f.kind \notin {"velTail", "so3Tail", "gravTail"}
    BY <1>3, <1>7, ProblemOf
  <2>8. Index(t) \in R
    <3> HIDE DEF Index
    <3> QED
      BY <2>6, <2>7, InRecorded
  <2> QED
    BY <2>2, <2>8
<1>9. ASSUME NEW b, OfStamps(b) \/ (b[1] \in {"vel", "so3"} /\ b[2] \in Nat /\ b[2] >= knots[b[1]] - Order)
      PROVE  /\ b # Gravity /\ Live(b)
             /\ b[1] \in {"so3", "grav"} => \E k \in R : k <= b[2]
  <2>1. CASE OfStamps(b)
    <3>1. ASSUME b[1] \in Splines
          PROVE  /\ Live(b)
                 /\ b[1] \in {"so3", "grav"} => \E k \in R : k <= b[2]
      <4>1. PICK t \in Stamps : b \in KnotsAt(b[1], {t})
        BY <2>1, <3>1 DEF OfStamps
      <4>2. t \in Nat /\ valid <= t /\ t <= t
        BY <1>5
      <4>3. b[2] >= ComputeTIndex(b[1], valid) /\ b[2] >= ComputeTIndex(b[1], t)
        BY <1>4, <3>1, <4>1, <4>2, NoEarlierKnot
      <4>4. ComputeTIndex("grav", t) = ComputeTIndex("so3", t)
        BY SplineConstants DEF ComputeTIndex
      <4>5. b[2] \in Nat
        BY <3>1, <4>1, <4>2, NoEarlierKnot
      <4>6. b[1] \in {"so3", "grav"} => Index(t) <= b[2]
        <5>1. Index(t) \in Nat
          BY <1>8
        <5>2. b[1] \in {"so3", "grav"} => b[2] >= Index(t)
          BY <4>3, <4>4
        <5> HIDE DEF Index
        <5> QED
          BY <4>5, <5>1, <5>2
      <4> QED
        BY <1>8, <4>3, <4>6 DEF Live
    <3> QED
      BY <2>1, <3>1 DEF OfStamps, Live, Splines
  <2>2. CASE b[1] \in {"vel", "so3"} /\ b[2] \in Nat /\ b[2] >= knots[b[1]] - Order
    <3>1. /\ ComputeTIndex(b[1], valid) \in Nat /\ ComputeTIndex(b[1], valid) <= knots[b[1]] - Order
          /\ b[1] \in Splines
      <4>1. b[1] \in Splines /\ InRange(b[1], knots, valid) /\ valid \in Int
        BY <1>4, <2>2 DEF Splines
      <4> QED
        BY <1>4, <4>1, TailsAreLate
    <3>2. knots[b[1]] \in Nat /\ Order \in Nat
      BY <1>4, <3>1, SplineConstants
    <3>3. Live(b)
      BY <2>2, <3>1, <3>2 DEF Live
    <3>4. PICK t \in Stamps : TRUE
      BY <1>5
    <3>5. b[1] = "so3" => Index(t) <= b[2]
      BY <1>8, <2>2, <3>2
    <3> QED
      BY <1>8, <2>2, <3>3, <3>5, VectorNames
  <2> QED
    BY <1>9, <2>1, <2>2
<1> HIDE DEF R, Index
<1>10. \A b \in problem'.blocks : /\ b # Gravity /\ Live(b)
                                  /\ b[1] \in {"so3", "grav"} => \E k \in R : k <= b[2]
  <2> TAKE b \in problem'.blocks
  <2>1. PICK g \in G : b \in ToSet(g.blocks)
    BY <1>1, ProblemOf
  <2>2. OfStamps(b) \/ (b[1] \in {"vel", "so3"} /\ b[2] \in Nat /\ b[2] >= knots[b[1]] - Order)
    BY <1>6, <2>1
  <2> QED
    BY <1>9, <2>2
<1>11. \A b : Live(b) <=> Live(b)'
  BY <1>1 DEF Live
<1>12. Recorded(problem', "so3") = R
  BY <1>1 DEF R
<1> QED
  BY <1>1, <1>10, <1>11, <1>12 DEF WindowInv

\* The index that is kept is the least of those recorded.
LEMMA UpdateFiltersLive ==
  ASSUME IInv, WindowInv, UpdateFilters
  PROVE  WindowInv'
<1> DEFINE R == Recorded(problem, "so3")
<1>1. /\ place = "solved" /\ updateEnd' = Min(R) /\ UpdateBiasFilters(problem, "updated")
      /\ UNCHANGED <<valid, problem>>
  BY DEF UpdateFilters
<1>2. R # {} /\ {Ba, Bv} \subseteq problem.blocks
  BY <1>1 DEF IInv, HaveInv
<1>3. place' = "updated"
  BY <1>1, <1>2 DEF UpdateBiasFilters
<1>4. \A f \in problem.residuals : Within(knots, ToSet(f.blocks))
  BY DEF IInv, SoundInv, Problems, ProblemSound, Sound
<1>5. R \in SUBSET Nat
  BY <1>4, InRecorded DEF Within, Splines
<1>6. Within(knots, problem.blocks)
  BY DEF IInv, SoundInv, Problems, ProblemSound
<1>7. \A b \in problem.blocks : b # Gravity /\ Live(b) /\ (b[1] \in {"so3", "grav"} => \E k \in R : k <= b[2])
  BY <1>1 DEF WindowInv
<1> HIDE DEF R
<1>8. Min(R) \in R /\ \A k \in R : Min(R) <= k
  BY <1>2, <1>5, MinOfNats
<1>9. ASSUME NEW b \in problem.blocks, b[1] \in {"so3", "grav"}
      PROVE  updateEnd' <= b[2]
  <2>1. PICK k \in R : k <= b[2]
    BY <1>7, <1>9
  <2>2. b[2] \in Nat
    BY <1>6, <1>9 DEF Within, Splines
  <2>3. Min(R) \in Nat /\ k \in Nat /\ Min(R) <= k
    BY <1>5, <1>8
  <2> QED
    BY <1>1, <2>1, <2>2, <2>3
<1>10. \A b : Live(b) <=> Live(b)'
  BY <1>1 DEF Live
<1> QED
  BY <1>1, <1>3, <1>7, <1>9, <1>10 DEF WindowInv

\* PostOptimization ends two knots before that index.
LEMMA PostOptimizationApart ==
  ASSUME IInv, WindowInv, PostOptimization
  PROVE  WindowInv'
<1> DEFINE F == {AddRotRefine(idx) : idx \in updateStart - 2 .. updateEnd - 3}
<1>1. /\ place = "updated" /\ place' = "postSolved"
      /\ own' = IF updateStart < FirstRefined THEN NoProblem ELSE Problem(F)
      /\ UNCHANGED <<valid, problem, updateEnd>>
  BY DEF PostOptimization, indices
<1>2. /\ knots \in [Splines -> Nat] /\ knots["grav"] = knots["so3"] /\ knots["so3"] \in Nat
      /\ updateEnd \in 0 .. knots["so3"] - 1 /\ updateStart \in Nat \union {None}
  BY <1>1 DEF IInv, TypeOK, SizeInv, HaveInv, Splines
<1>3. FirstRefined \in Nat /\ FirstRefined > 1
  BY ProblemConstants
<1>4. \A b \in own'.blocks : b = Gravity \/ (b[1] \in {"so3", "grav"} /\ b[2] < updateEnd)
  <2>1. CASE updateStart < FirstRefined
    BY <1>1, <2>1, NothingSound
  <2>2. CASE ~ (updateStart < FirstRefined)
    <3>1. \A idx \in updateStart - 2 .. updateEnd - 3 : idx \in Nat /\ idx < knots["so3"] /\ idx < updateEnd
      BY <1>2, <1>3, <2>2 DEF None
    <3>2. ASSUME NEW f \in F, NEW b \in ToSet(f.blocks)
          PROVE  b = Gravity \/ (b[1] \in {"so3", "grav"} /\ b[2] < updateEnd)
      <4>1. PICK idx \in updateStart - 2 .. updateEnd - 3 : f = AddRotRefine(idx)
        OBVIOUS
      <4>2. b = Gravity \/ (b[1] \in {"so3", "grav"} /\ b[2] = idx)
        BY <1>2, <3>1, <4>1, OfRotRefine
      <4> QED
        BY <3>1, <4>2
    <3> HIDE DEF F
    <3>3. own' = Problem(F)
      BY <1>1, <2>2
    <3> QED
      BY <3>2, <3>3, ProblemOf
  <2> QED
    BY <2>1, <2>2
<1>5. \A b : Live(b) <=> Live(b)'
  BY <1>1 DEF Live
<1> QED
  BY <1>1, <1>4, <1>5 DEF WindowInv

\* What the problems of a window have is so after every step.
LEMMA WindowInductive == IInv /\ WindowInv /\ [Next]_vars => WindowInv'
<1> SUFFICES ASSUME IInv, WindowInv, [Next]_vars PROVE WindowInv'
  OBVIOUS
<1>1. CASE \/ TryPerformInitialization \/ InitializeSO3Spline \/ InitializeGravity
           \/ InitializeVelSpline \/ FinishInitialization
  BY <1>1, InitializationWindowInv
<1>2. CASE ExtendSplines
  BY <1>2 DEF ExtendSplines, WindowInv
<1>3. CASE PreOptimization
  BY <1>3, PreOptimizationLive
<1>4. CASE SolveWindow
  BY <1>4, SolveWindowLive
<1>5. CASE UpdateFilters
  BY <1>5, UpdateFiltersLive
<1>6. CASE PostOptimization
  BY <1>6, PostOptimizationApart
<1>7. CASE FinishWindow
  BY <1>7 DEF FinishWindow, WindowInv
<1>8. CASE UNCHANGED vars \/ Terminated
  BY <1>8 DEF Terminated, vars, indices, WindowInv, Live
<1> QED
  BY <1>1, <1>2, <1>3, <1>4, <1>5, <1>6, <1>7, <1>8 DEF Next

\* What the problems of a window have is always so.
LEMMA WindowInvariance == Spec => []WindowInv
<1>1. Init => WindowInv
  BY DEF Init, WindowInv
<1> QED
  BY <1>1, Invariance, WindowInductive, PTL DEF Spec

\* No factor of a window touches a knot from before the first one that the valid
\* time needs: not the tails, nor the rotation priors of PreOptimization
\* (estimator.cpp:410-438, 612).
WindowKnotsLive ==
  /\ place = "preSolved" => \A b \in own.blocks : Live(b)
  /\ place \in {"solved", "updated", "postSolved"} => \A b \in problem.blocks : Live(b)

\* Measurements, tails and priors on rotations move no knot from before the
\* window.  (The old prior does; KnotWindow follows it.)
THEOREM WindowKnotsAlwaysLive == Spec => []WindowKnotsLive
<1>1. WindowInv => WindowKnotsLive
  BY DEF WindowInv, WindowKnotsLive
<1> QED
  BY <1>1, WindowInvariance, PTL

\* PostOptimization, which runs between the solution of a window and the making
\* of its prior, shares no block with the factors of the window, tails and priors
\* of the biases included: for the new prior each of them is linearised where it
\* was solved.  (The old prior, which is left out here, may keep such knots.)
RefinesElsewhere == place = "postSolved" => own.blocks \intersect problem.blocks = {}

\* PostOptimization leaves alone whatever the window has solved for.
THEOREM AlwaysRefinesElsewhere == Spec => []RefinesElsewhere
<1>1. IInv /\ WindowInv => RefinesElsewhere
  <2> SUFFICES ASSUME IInv, WindowInv, place = "postSolved", NEW b \in own.blocks, b \in problem.blocks
               PROVE  FALSE
    BY DEF RefinesElsewhere
  <2>1. b # Gravity
    BY DEF WindowInv
  <2>2. b[1] \in {"so3", "grav"} /\ b[2] < updateEnd
    BY <2>1 DEF WindowInv
  <2>3. updateEnd <= b[2]
    BY <2>2 DEF WindowInv
  <2>4. updateEnd \in Int /\ b[2] \in Int
    <3>1. updateEnd \in Nat \union {None} /\ Within(knots, problem.blocks)
      BY DEF IInv, TypeOK, SoundInv, Problems, ProblemSound
    <3>2. b[2] \in 0 .. knots[b[1]] - 1
      BY <2>2, <3>1 DEF Within, Splines
    <3> QED
      BY <3>1, <3>2 DEF None
  <2> QED
    BY <2>2, <2>3, <2>4
<1> QED
  BY <1>1, Invariance, WindowInvariance, PTL

\* The solver moves the gravity in one problem only, that of InitializeGravity:
\* every other problem does not have it or holds it.
GravityMovedOnce ==
  \A p \in Problems : Gravity \in p.blocks /\ Gravity \notin p.fixed => place = "gravitySolved"

\* The gravity is that of InitializeGravity for good.
THEOREM GravityAlwaysMovedOnce == Spec => []GravityMovedOnce
<1>1. IInv /\ WindowInv => GravityMovedOnce
  <2> SUFFICES ASSUME IInv, WindowInv, NEW p \in Problems, Gravity \in p.blocks, Gravity \notin p.fixed
               PROVE  place = "gravitySolved"
    BY DEF GravityMovedOnce
  <2>1. p # NoProblem
    BY NothingSound
  <2>2. CASE p = problem
    BY <2>1, <2>2 DEF IInv, EmptyInv, TypeOK, WindowInv, SolverKnowsBlocks
  <2>3. CASE p = own
    <3>1. place = "preSolved" \/ place = "postSolved"
      BY <2>1, <2>3 DEF IInv, EmptyInv
    <3>2. place # "preSolved"
      BY <2>3 DEF WindowInv
    <3>3. place = "postSolved" => Gravity[1] = "so3"
      BY <2>3 DEF IInv, FreeAsMeant
    <3> QED
      BY <3>1, <3>2, <3>3, VectorNames
  <2> QED
    BY <2>2, <2>3 DEF Problems
<1> QED
  BY <1>1, Invariance, WindowInvariance, PTL

\* After InitializeVelSpline, whose options ask for the gravity, the gravity is
\* held in every behaviour: an IMU frame lies at the start of the splines, and
\* the factor of its acceleration holds it.
THEOREM GravityNeverRefined == Spec => [](place = "velSolved" => Gravity \in problem.fixed)
<1>1. WindowInv => (place = "velSolved" => Gravity \in problem.fixed)
  BY DEF WindowInv
<1> QED
  BY <1>1, WindowInvariance, PTL

\* Nothing was there before the initialisation.
FreshInv ==
  place = "uninitialised" =>
    /\ eTime = 0 /\ \A s \in Splines : knots[s] = 0
    /\ baFilter.time = 0 /\ bvFilter.time = 0

\* Nothing is, until there is an initialisation.
LEMMA FreshInvariance == Spec => []FreshInv
<1>1. Init => FreshInv
  BY DEF Init, FreshInv, StatePack
<1>2. ASSUME FreshInv, IInv, [Next]_vars PROVE FreshInv'
  <2>1. CASE UNCHANGED vars \/ Terminated
    BY <1>2, <2>1 DEF Terminated, vars, filters, FreshInv
  <2>2. CASE InitializeSO3Spline \/ InitializeGravity \/ InitializeVelSpline
    BY <2>2 DEF InitializeSO3Spline, InitializeGravity, InitializeVelSpline, HoldFrontKnot, FreshInv
  <2>3. CASE FinishInitialization \/ UpdateFilters
    BY <2>3 DEF FinishInitialization, UpdateFilters, UpdateBiasFilters, FreshInv
  <2>4. CASE TryPerformInitialization \/ ExtendSplines \/ PreOptimization \/ SolveWindow
               \/ PostOptimization \/ FinishWindow
    BY <2>4 DEF TryPerformInitialization, ExtendSplines, PreOptimization, SolveWindow, PostOptimization,
                FinishWindow, FreshInv
  <2> QED
    BY <1>2, <2>1, <2>2, <2>3, <2>4 DEF Next
<1> QED
  BY <1>1, <1>2, Invariance, PTL DEF Spec

\* Time goes on: no step takes back the valid time, the end of the data, a knot,
\* or the time of a bias filter, whatever the solver answers.
NothingGoesBack ==
  /\ valid <= valid' /\ eTime <= eTime'
  /\ \A s \in Splines : knots[s] <= knots'[s]
  /\ baFilter.time <= baFilter'.time /\ bvFilter.time <= bvFilter'.time

\* What a step does to them.
LEMMA StepForward ==
  ASSUME IInv, FreshInv, Next
  PROVE  NothingGoesBack
<1> DEFINE Same == UNCHANGED <<valid, eTime, knots, baFilter, bvFilter>>
<1>1. /\ valid \in Int /\ eTime \in Nat /\ knots \in [Splines -> Nat]
      /\ baFilter.time \in Nat /\ bvFilter.time \in Nat
  BY DEF IInv, TypeOK, None
<1>2. Same => NothingGoesBack
  BY <1>1 DEF NothingGoesBack
<1>3. TypeOK' /\ SizeInv'
  BY Inductive DEF IInv
<1>4. CASE TryPerformInitialization
  <2>1. /\ place = "uninitialised" /\ UNCHANGED valid
        /\ baFilter' = StatePack(0, InitVar) /\ bvFilter' = StatePack(0, InitVar)
    BY <1>4 DEF TryPerformInitialization
  <2>2. eTime' \in Nat /\ knots' \in [Splines -> Nat]
    BY <1>3 DEF TypeOK
  <2>3. \A s \in Splines : knots[s] <= knots'[s]
    BY <2>1, <2>2 DEF FreshInv
  <2> QED
    BY <1>1, <2>1, <2>2, <2>3 DEF FreshInv, NothingGoesBack, StatePack
<1>5. CASE InitializeSO3Spline \/ InitializeGravity \/ InitializeVelSpline
  BY <1>2, <1>5 DEF InitializeSO3Spline, InitializeGravity, InitializeVelSpline, filters
<1>6. CASE FinishInitialization
  <2>1. /\ place = "velSolved" /\ UNCHANGED <<knots, eTime>> /\ (valid' = eTime \/ valid' = valid)
        /\ \E p : UpdateBiasFilters(p, "ready")
    BY <1>6 DEF FinishInitialization
  <2>2. TypeOK /\ \A f \in {baFilter, bvFilter} : f.time <= eTime
    BY <2>1 DEF IInv, FilterInv
  <2>3. baFilter.time <= baFilter'.time /\ bvFilter.time <= bvFilter'.time
    BY <2>1, <2>2, FiltersUpdated
  <2>4. valid = None
    BY <2>1 DEF IInv, TimeInv, Starting
  <2> QED
    BY <1>1, <2>1, <2>3, <2>4 DEF NothingGoesBack, None
<1>7. CASE ExtendSplines
  <2>1. place = "ready" /\ place' = "extended" /\ UNCHANGED <<valid, baFilter, bvFilter>> /\ knots' = Extended(knots, eTime')
    BY <1>7 DEF ExtendSplines, filters
  <2>2. /\ eTime = valid /\ knots["grav"] = knots["so3"]
    BY <2>1 DEF IInv, TimeInv, SizeInv
  <2>3. eTime' \in Nat /\ valid' + MinWindow <= eTime'
    <3>1. TimeInv' /\ TypeOK'
      BY Inductive DEF IInv
    <3> QED
      BY <2>1, <3>1 DEF TimeInv, TypeOK, Windowed
  <2>4. \A s \in Splines : knots[s] <= knots'[s]
    BY <1>1, <2>1, <2>2, <2>3, Grown
  <2> QED
    BY <1>1, <2>1, <2>2, <2>3, <2>4, ProblemConstants DEF NothingGoesBack
<1>8. CASE PreOptimization \/ SolveWindow \/ PostOptimization
  BY <1>2, <1>8 DEF PreOptimization, SolveWindow, PostOptimization, filters
<1>9. CASE UpdateFilters
  <2>1. place = "solved" /\ UNCHANGED <<knots, valid, eTime>> /\ UpdateBiasFilters(problem, "updated")
    BY <1>9 DEF UpdateFilters
  <2>2. \A f \in {baFilter, bvFilter} : f.time <= valid
    BY <2>1 DEF IInv, FilterInv
  <2>3. valid \in Nat /\ valid < eTime
    BY <2>1, WindowInRange DEF Windowed
  <2>4. TypeOK /\ \A f \in {baFilter, bvFilter} : f.time <= eTime
    BY <1>1, <2>2, <2>3 DEF IInv
  <2>5. baFilter.time <= baFilter'.time /\ bvFilter.time <= bvFilter'.time
    BY <2>1, <2>4, FiltersUpdated
  <2> QED
    BY <1>1, <2>1, <2>5 DEF NothingGoesBack
<1>10. CASE FinishWindow
  <2>1. place = "postSolved" /\ valid' = eTime /\ UNCHANGED <<knots, eTime, baFilter, bvFilter>>
    BY <1>10 DEF FinishWindow, filters
  <2>2. valid \in Nat /\ valid < eTime
    BY <2>1, WindowInRange DEF Windowed
  <2> QED
    BY <1>1, <2>1, <2>2 DEF NothingGoesBack
<1>11. CASE Terminated
  BY <1>2, <1>11 DEF Terminated, vars, filters
<1> QED
  BY <1>4, <1>5, <1>6, <1>7, <1>8, <1>9, <1>10, <1>11 DEF Next

\* The splines grow, windows follow each other, and the filters predict forwards.
THEOREM NeverBack == Spec => [][NothingGoesBack]_vars
<1>1. IInv /\ FreshInv /\ [Next]_vars => [NothingGoesBack]_vars
  BY StepForward
<1> QED
  BY <1>1, Invariance, FreshInvariance, PTL DEF Spec

================================================================================
