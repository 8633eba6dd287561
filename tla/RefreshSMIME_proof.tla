-------------------------- MODULE RefreshSMIME_proof --------------------------
(***************************************************************************)
(* Proofs about RefreshSMIME, for any number of patterns of any length and *)
(* any limit of the command line.                                          *)
(*                                                                         *)
(* That no command line is too long is a fact about the loop that takes    *)
(* patterns from the front, whatever it takes: it rests on lemmas about    *)
(* sums over sets (SumAddElement), which are proved here by induction, as  *)
(* the absence of a least counterexample. What the job reports is true     *)
(* because while it runs the patterns given away are exactly those that    *)
(* were taken, and mError holds nothing but a cancel, which as a condition *)
(* is no error: so the processes go on, and the last one decides (IInv).   *)
(***************************************************************************)
EXTENDS RefreshSMIME, FiniteSetTheorems, SequenceTheorems, TLAPS

------------------------------------------------------------------------------
(* Induction over the natural numbers, without an operator as a parameter. *)

\* Every set of natural numbers has a least element.
LEMMA LeastNatural ==
  ASSUME NEW S \in SUBSET Nat, S # {}
  PROVE  \E n \in S : \A m \in S : n <= m
<1> DEFINE Less == {p \in Nat \X Nat : p[1] < p[2]}
<1>1. OpToRel(<, Nat) = Less
  BY DEF OpToRel
<1>2. PICK n \in S : \A m \in S : ~(<<m, n>> \in Less)
  BY <1>1, NatLessThanWellFounded, WFMin
<1>3. ASSUME NEW m \in S PROVE n <= m
  <2>1. m < n => <<m, n>> \in Nat \X Nat /\ <<m, n>>[1] < <<m, n>>[2]
    OBVIOUS
  <2>2. m < n => <<m, n>> \in Less
    BY ONLY <2>1
  <2>3. QED
    BY <1>2, <2>2
<1>4. QED
  BY <1>3

\* A set of natural numbers that holds 0 and with every number the next one holds
\* them all.
LEMMA Induction ==
  ASSUME NEW S \in SUBSET Nat, 0 \in S, \A n \in Nat : n \in S => n + 1 \in S
  PROVE  S = Nat
<1> SUFFICES ASSUME Nat \ S # {} PROVE FALSE
  OBVIOUS
<1>1. PICK n \in Nat \ S : \A m \in Nat \ S : n <= m
  BY LeastNatural
<1>2. n - 1 \in Nat /\ n - 1 \in S
  BY <1>1
<1>3. (n - 1) + 1 = n
  BY <1>1
<1>4. QED
  BY <1>1, <1>2, <1>3

------------------------------------------------------------------------------
(* Sums of weights over the elements of a finite set.                      *)

Pick(s) == CHOOSE x \in s : TRUE
SumStep(w, g, s) == IF s = {} THEN 0 ELSE w[Pick(s)] + g[s \ {Pick(s)}]

\* g is the sum of the weights for all sets of D.
IsSumOn(w, D, g) == DOMAIN g = D /\ \A s \in D : g[s] \in Nat /\ g[s] = SumStep(w, g, s)

\* Sums of the subsets of R, whatever else h is defined for.
SumsUp(w, R, h) == \A s \in SUBSET R : h[s] = SumStep(w, h, s)

\* The weights v and w are the same on R.
SameOn(R, v, w) == \A x \in R : v[x] = w[x]

UpTo(S, n) == {s \in SUBSET S : Cardinality(s) <= n}

\* The element that is picked, and what is left of the set without it.
LEMMA WithoutPicked ==
  ASSUME NEW S, IsFiniteSet(S), NEW s \in SUBSET S, s # {}
  PROVE  /\ Pick(s) \in s
         /\ \A x \in s : /\ s \ {x} \in SUBSET S
                         /\ Cardinality(s) \in Nat /\ Cardinality(s \ {x}) \in Nat
                         /\ Cardinality(s \ {x}) = Cardinality(s) - 1
<1>1. Pick(s) \in s
  BY DEF Pick
<1>2. IsFiniteSet(s)
  BY FS_Subset
<1>3. QED
  BY <1>1, <1>2, FS_RemoveElement, FS_CardinalityType

\* There is a sum for the sets of up to n elements, for every n.
LEMMA SumExistsUpTo ==
  ASSUME NEW S, IsFiniteSet(S), NEW w, \A x \in S : w[x] \in Nat
  PROVE  \A n \in Nat : \E g : IsSumOn(w, UpTo(S, n), g)
<1> DEFINE Good == {n \in Nat : \E g : IsSumOn(w, UpTo(S, n), g)}
<1>0. \A s \in SUBSET S : Cardinality(s) \in Nat /\ (Cardinality(s) = 0 <=> s = {})
  BY FS_Subset, FS_CardinalityType, FS_EmptySet
<1>1. 0 \in Good
  <2> DEFINE g == [s \in UpTo(S, 0) |-> 0]
  <2>1. \A s \in UpTo(S, 0) : s = {}
    BY <1>0 DEF UpTo
  <2>2. IsSumOn(w, UpTo(S, 0), g)
    BY <2>1 DEF IsSumOn, SumStep
  <2>3. QED
    BY <2>2
<1>2. ASSUME NEW n \in Nat, n \in Good PROVE n + 1 \in Good
  <2>1. PICK g : IsSumOn(w, UpTo(S, n), g)
    BY <1>2
  <2> DEFINE h == [s \in UpTo(S, n + 1) |-> SumStep(w, g, s)]
  <2>2. ASSUME NEW s \in UpTo(S, n + 1), s # {}
        PROVE  Pick(s) \in s /\ s \ {Pick(s)} \in UpTo(S, n) /\ s \ {Pick(s)} \in UpTo(S, n + 1)
    <3>1. s \in SUBSET S /\ Cardinality(s) <= n + 1
      BY DEF UpTo
    <3>2. /\ Pick(s) \in s /\ s \ {Pick(s)} \in SUBSET S
          /\ Cardinality(s) \in Nat /\ Cardinality(s \ {Pick(s)}) \in Nat
          /\ Cardinality(s \ {Pick(s)}) = Cardinality(s) - 1
      BY <2>2, <3>1, WithoutPicked
    <3>3. QED
      BY <3>1, <3>2 DEF UpTo
  <2>3. ASSUME NEW s \in UpTo(S, n) PROVE s \in UpTo(S, n + 1) /\ h[s] = g[s]
    <3>1. s \in UpTo(S, n + 1)
      BY <1>0 DEF UpTo
    <3>2. QED
      BY <2>1, <3>1 DEF IsSumOn
  <2>4. ASSUME NEW s \in UpTo(S, n + 1) PROVE h[s] \in Nat /\ h[s] = SumStep(w, h, s)
    <3>1. CASE s = {}
      BY <3>1 DEF SumStep
    <3>2. CASE s # {}
      <4>1. /\ Pick(s) \in S /\ s \ {Pick(s)} \in UpTo(S, n)
            /\ h[s \ {Pick(s)}] = g[s \ {Pick(s)}]
        BY <2>2, <2>3, <3>2 DEF UpTo
      <4>2. h[s] = w[Pick(s)] + g[s \ {Pick(s)}] /\ g[s \ {Pick(s)}] \in Nat
        BY <2>1, <3>2, <4>1 DEF SumStep, IsSumOn
      <4>3. QED
        BY <3>2, <4>1, <4>2 DEF SumStep
    <3>3. QED
      BY <3>1, <3>2
  <2>5. IsSumOn(w, UpTo(S, n + 1), h)
    BY <2>4 DEF IsSumOn
  <2>6. QED
    BY <2>5
<1>3. Good = Nat
  <2> HIDE DEF Good
  <2>1. Good \in SUBSET Nat
    BY DEF Good
  <2>2. QED
    BY <1>1, <1>2, <2>1, Induction
<1>4. QED
  BY <1>3

\* There is a sum for all subsets of a finite set.
LEMMA SumExists ==
  ASSUME NEW S, IsFiniteSet(S), NEW w, \A x \in S : w[x] \in Nat
  PROVE  \E g : IsSumOn(w, SUBSET S, g)
<1>1. Cardinality(S) \in Nat /\ \A s \in SUBSET S : Cardinality(s) <= Cardinality(S)
  BY FS_CardinalityType, FS_Subset
<1>2. UpTo(S, Cardinality(S)) = SUBSET S
  BY <1>1 DEF UpTo
<1>3. \E g : IsSumOn(w, UpTo(S, Cardinality(S)), g)
  BY <1>1, SumExistsUpTo
<1>4. QED
  BY ONLY <1>2, <1>3

\* It does not matter which sets the sum is also defined for.
LEMMA SumUnique ==
  ASSUME NEW S, IsFiniteSet(S), NEW w, NEW g, IsSumOn(w, SUBSET S, g),
         NEW R \in SUBSET S, NEW v, SameOn(R, v, w), NEW h, SumsUp(v, R, h)
  PROVE  \A s \in SUBSET R : h[s] = g[s]
<1> DEFINE Good == {n \in Nat : \A s \in SUBSET R : Cardinality(s) = n => h[s] = g[s]}
<1>0. \A s \in SUBSET R : Cardinality(s) \in Nat /\ (Cardinality(s) = 0 <=> s = {})
  BY FS_Subset, FS_CardinalityType, FS_EmptySet
<1>1. 0 \in Good
  BY <1>0 DEF IsSumOn, SumStep, SumsUp
<1>2. ASSUME NEW n \in Nat, n \in Good PROVE n + 1 \in Good
  <2>1. ASSUME NEW s \in SUBSET R, Cardinality(s) = n + 1 PROVE h[s] = g[s]
    <3>1. s # {} /\ s \in SUBSET S
      BY <1>0, <2>1
    <3>2. Pick(s) \in s /\ s \ {Pick(s)} \in SUBSET R /\ Cardinality(s \ {Pick(s)}) = n
      BY <2>1, <3>1, WithoutPicked
    <3>3. h[s \ {Pick(s)}] = g[s \ {Pick(s)}] /\ v[Pick(s)] = w[Pick(s)]
      BY <1>2, <3>2 DEF SameOn
    <3>4. QED
      BY <3>1, <3>3 DEF IsSumOn, SumStep, SumsUp
  <2>2. QED
    BY <2>1
<1>3. Good = Nat
  <2> HIDE DEF Good
  <2>1. Good \in SUBSET Nat
    BY DEF Good
  <2>2. QED
    BY <1>1, <1>2, <2>1, Induction
<1>4. QED
  BY <1>0, <1>3

\* Whichever element is taken out of the set, the sum is less by its weight.
LEMMA SumWithout ==
  ASSUME NEW S, IsFiniteSet(S), NEW w, \A x \in S : w[x] \in Nat,
         NEW g, IsSumOn(w, SUBSET S, g)
  PROVE  \A s \in SUBSET S : \A x \in s : g[s] = w[x] + g[s \ {x}]
<1> DEFINE Good == {n \in Nat : \A s \in SUBSET S : Cardinality(s) = n =>
                                  \A x \in s : g[s] = w[x] + g[s \ {x}]}
<1>0. \A s \in SUBSET S : Cardinality(s) \in Nat /\ (Cardinality(s) = 0 <=> s = {})
  BY FS_Subset, FS_CardinalityType, FS_EmptySet
<1>1. 0 \in Good
  BY <1>0
<1>2. ASSUME NEW n \in Nat, n \in Good PROVE n + 1 \in Good
  <2>1. ASSUME NEW s \in SUBSET S, Cardinality(s) = n + 1, NEW x \in s
        PROVE  g[s] = w[x] + g[s \ {x}]
    <3> DEFINE p == Pick(s)
    <3>1. s # {} /\ p \in s /\ s \ {p} \in SUBSET S /\ s \ {x} \in SUBSET S
          /\ Cardinality(s \ {p}) = n /\ Cardinality(s \ {x}) = n
      BY <2>1, WithoutPicked
    <3>2. g[s] = w[p] + g[s \ {p}]
      BY <3>1 DEF IsSumOn, SumStep
    <3>3. CASE p = x
      BY <3>2, <3>3
    <3>4. CASE p # x
      <4> HIDE DEF p
      <4>1. x \in s \ {p} /\ p \in s \ {x} /\ (s \ {p}) \ {x} = (s \ {x}) \ {p}
        BY <3>1, <3>4
      <4>2. g[s \ {p}] = w[x] + g[(s \ {p}) \ {x}]
        BY <1>2, <3>1, <4>1
      <4>3. g[s \ {x}] = w[p] + g[(s \ {x}) \ {p}]
        BY <1>2, <3>1, <4>1
      <4>4. w[x] \in Nat /\ w[p] \in Nat /\ g[(s \ {x}) \ {p}] \in Nat
        <5>1. (s \ {x}) \ {p} \in SUBSET S
          BY <3>1
        <5>2. QED
          BY <3>1, <5>1 DEF IsSumOn
      <4>5. g[(s \ {p}) \ {x}] = g[(s \ {x}) \ {p}]
        BY <4>1
      <4>6. g[s] = w[p] + (w[x] + g[(s \ {x}) \ {p}])
        BY ONLY <3>2, <4>2, <4>5
      <4>7. w[p] + (w[x] + g[(s \ {x}) \ {p}]) = w[x] + (w[p] + g[(s \ {x}) \ {p}])
        BY ONLY <4>4
      <4>8. QED
        BY ONLY <4>3, <4>6, <4>7
    <3>5. QED
      BY <3>3, <3>4
  <2>2. QED
    BY <2>1
<1>3. Good = Nat
  <2> HIDE DEF Good
  <2>1. Good \in SUBSET Nat
    BY DEF Good
  <2>2. QED
    BY <1>1, <1>2, <2>1, Induction
<1>4. QED
  BY <1>0, <1>3

\* The length that the patterns at the positions of S take on a command line.
Total(seq, S) == MapThenSumSet(LAMBDA i : seq[i] + 1, S)

\* The fold that defines it is the sum.
LEMMA TotalIsSum ==
  ASSUME NEW S, IsFiniteSet(S), NEW seq, \A i \in S : seq[i] \in Nat,
         NEW R \in SUBSET S, NEW g, IsSumOn([i \in S |-> seq[i] + 1], SUBSET S, g)
  PROVE  Total(seq, R) = g[R]
<1> DEFINE w == [i \in S |-> seq[i] + 1]
           v == [i \in R |-> seq[i] + 1]
           Fold(h) == h = [s \in SUBSET R |-> SumStep(v, h, s)]
<1>1. Total(seq, R) = (CHOOSE h : Fold(h))[R]
  BY DEF Total, MapThenSumSet, MapThenFoldSet, SumStep, Pick
<1>2. IsFiniteSet(R) /\ \A i \in R : v[i] \in Nat /\ v[i] = w[i]
  BY FS_Subset
<1>3. \E h : Fold(h)
  <2> HIDE DEF v
  <2>1. PICK h : IsSumOn(v, SUBSET R, h)
    BY <1>2, SumExists
  <2>2. DOMAIN h = SUBSET R /\ \A s \in SUBSET R : h[s] = SumStep(v, h, s)
    BY <2>1 DEF IsSumOn
  <2> DEFINE k == [s \in SUBSET R |-> h[s]]
  <2>3. \A s \in SUBSET R : SumStep(v, k, s) = h[s]
    <3>1. ASSUME NEW s \in SUBSET R PROVE SumStep(v, k, s) = SumStep(v, h, s)
      <4>1. s # {} => k[s \ {Pick(s)}] = h[s \ {Pick(s)}]
        OBVIOUS
      <4>2. QED
        BY <4>1 DEF SumStep
    <3>2. QED
      BY <2>2, <3>1
  <2>4. k = [s \in SUBSET R |-> SumStep(v, k, s)]
    <3>1. \A s \in SUBSET R : SumStep(v, k, s) = k[s]
      BY <2>3
    <3> HIDE DEF k
    <3>2. k = [s \in SUBSET R |-> k[s]]
      BY DEF k
    <3>3. QED
      BY <3>1, <3>2
  <2>5. QED
    BY <2>4
<1>4. PICK h : Fold(h) /\ h = (CHOOSE k : Fold(k))
  <2> HIDE DEF Fold
  <2>1. QED
    BY <1>3
<1>5. SumsUp(v, R, h)
  BY <1>4 DEF SumsUp
<1>6. h[R] = g[R]
  <2> HIDE DEF v, w, Fold
  <2>1. IsSumOn(w, SUBSET S, g)
    BY DEF w
  <2>2. IsFiniteSet(S) /\ R \in SUBSET S /\ R \in SUBSET R /\ SameOn(R, v, w)
    BY <1>2 DEF SameOn
  <2>3. \A s \in SUBSET R : h[s] = g[s]
    BY ONLY <1>5, <2>1, <2>2, SumUnique
  <2>4. QED
    BY <2>2, <2>3
<1>7. QED
  BY <1>1, <1>4, <1>6

\* A further pattern takes its length and a separator.
LEMMA SumAddElement ==
  ASSUME NEW S, IsFiniteSet(S), NEW x, x \notin S, NEW seq, \A i \in S \cup {x} : seq[i] \in Nat
  PROVE  Total(seq, S) \in Nat /\ Total(seq, S \cup {x}) = Total(seq, S) + seq[x] + 1
<1> DEFINE T == S \cup {x}
           w == [i \in T |-> seq[i] + 1]
<1>1. IsFiniteSet(T) /\ \A i \in T : w[i] \in Nat /\ w[i] = seq[i] + 1 /\ seq[i] \in Nat
  BY FS_AddElement
<1>2. T \in SUBSET T /\ S \in SUBSET T /\ x \in T /\ T \ {x} = S
  OBVIOUS
<1>3. PICK g : IsSumOn(w, SUBSET T, g)
  <2> HIDE DEF T, w
  <2>1. QED
    BY <1>1, SumExists
<1>4. Total(seq, T) = g[T] /\ Total(seq, S) = g[S]
  <2>1. IsSumOn([i \in T |-> seq[i] + 1], SUBSET T, g)
    BY <1>3
  <2> HIDE DEF T, w
  <2>2. QED
    BY <1>1, <1>2, <2>1, TotalIsSum
<1>5. g[T] = w[x] + g[T \ {x}] /\ g[S] \in Nat
  <2> HIDE DEF T, w
  <2>1. g[T] = w[x] + g[T \ {x}]
    BY <1>1, <1>2, <1>3, SumWithout
  <2>2. g[S] \in Nat
    BY <1>2, <1>3 DEF IsSumOn
  <2>3. QED
    BY <2>1, <2>2
<1>6. QED
  <2> HIDE DEF T, w
  <2>1. Total(seq, T) = (seq[x] + 1) + Total(seq, S) /\ Total(seq, S) \in Nat /\ seq[x] \in Nat
    BY <1>1, <1>2, <1>4, <1>5
  <2>2. Total(seq, T) = Total(seq, S) + seq[x] + 1
    BY ONLY <2>1
  <2>3. QED
    BY <2>1, <2>2 DEF T

\* No pattern takes no room.
LEMMA SumEmpty == ASSUME NEW seq PROVE Total(seq, {}) = 0
<1> DEFINE w == [i \in {} |-> seq[i] + 1]
<1>1. IsFiniteSet({})
  BY FS_EmptySet
<1>2. PICK g : IsSumOn(w, SUBSET {}, g)
  BY <1>1, SumExists
<1>3. Total(seq, {}) = g[{}]
  BY <1>1, <1>2, TotalIsSum
<1>4. QED
  BY <1>2, <1>3 DEF IsSumOn, SumStep
------------------------------------------------------------------------------
(* What startAProcess() takes.                                             *)

\* The loop takes some of the patterns that are left, and each of them fits.
LEMMA PoppedFit ==
  ASSUME NEW seq \in Seq(0..MaxLength), NEW done \in 0..Len(seq)
  PROVE  /\ PoppedAfter(seq, done) \in done..Len(seq)
         /\ \A i \in (done + 1)..PoppedAfter(seq, done) : Fits(seq, done, i)
<1> DEFINE stuck == {i \in (done + 1)..Len(seq) : ~Fits(seq, done, i)}
<1>0. Len(seq) \in Nat
  OBVIOUS
<1>1. CASE stuck = {}
  <2>1. PoppedAfter(seq, done) = Len(seq)
    BY <1>1 DEF PoppedAfter
  <2>2. QED
    BY <1>0, <1>1, <2>1
<1>2. CASE stuck # {}
  <2>1. PoppedAfter(seq, done) = Min(stuck) - 1
    BY <1>2 DEF PoppedAfter
  <2>2. stuck \in SUBSET Nat
    BY <1>0
  <2>3. \E n \in stuck : \A m \in stuck : n <= m
    <3> HIDE DEF stuck
    <3>1. QED
      BY <1>2, <2>2, LeastNatural
  <2>4. Min(stuck) \in stuck /\ \A m \in stuck : Min(stuck) <= m
    <3> HIDE DEF stuck
    <3>1. QED
      BY <2>3 DEF Min
  <2> DEFINE low == Min(stuck)
  <2>5. low \in (done + 1)..Len(seq) /\ \A m \in (done + 1)..Len(seq) : ~Fits(seq, done, m) => low <= m
    BY <2>4
  <2> HIDE DEF low
  <2>6. low - 1 \in done..Len(seq) /\ \A m \in (done + 1)..(low - 1) : Fits(seq, done, m)
    BY <1>0, <2>5
  <2>7. QED
    BY <2>1, <2>6 DEF low
<1>3. QED
  BY <1>1, <1>2

\* The positions of one more pattern.
LEMMA GivenNext ==
  ASSUME NEW seq, NEW from \in Nat, NEW to \in Nat, from <= to + 1, seq[to + 1] \in Nat
  PROVE  /\ seq[to + 1] = 0 => Given(seq, from, to + 1) = Given(seq, from, to)
         /\ seq[to + 1] > 0 => Given(seq, from, to + 1) = Given(seq, from, to) \cup {to + 1}
         /\ to + 1 \notin Given(seq, from, to)
<1>1. \A i : i \in from..(to + 1) <=> i \in from..to \/ i = to + 1
  OBVIOUS
<1>2. to + 1 \notin from..to
  OBVIOUS
<1>3. QED
  BY <1>1, <1>2 DEF Given

\* Patterns of which each one fits into what the ones before it have left do not
\* take more than there is.
LEMMA FittingIsShort ==
  ASSUME NEW seq \in Seq(0..MaxLength), NEW done \in 0..Len(seq), NEW next \in done..Len(seq),
         \A i \in (done + 1)..next : Fits(seq, done, i)
  PROVE  Total(seq, Given(seq, done + 1, next)) <= Budget
<1> DEFINE Part(k) == Given(seq, done + 1, done + k)
           Good == {k \in Nat : done + k <= next => Total(seq, Part(k)) <= Budget}
<1>0. Len(seq) \in Nat /\ next \in Nat /\ done \in Nat /\ Budget \in Nat
      /\ \A i \in 1..Len(seq) : seq[i] \in Nat
  BY LengthAssumption
<1>1. 0 \in Good
  <2>1. (done + 1)..(done + 0) = {}
    BY <1>0
  <2>2. Part(0) = {}
    BY <2>1 DEF Given
  <2>3. Total(seq, Part(0)) = 0
    BY <2>2, SumEmpty
  <2> HIDE DEF Part
  <2>4. QED
    BY <1>0, <2>3
<1>2. ASSUME NEW k \in Nat, k \in Good PROVE k + 1 \in Good
  <2> SUFFICES ASSUME done + (k + 1) <= next PROVE Total(seq, Part(k + 1)) <= Budget
    OBVIOUS
  <2> DEFINE i == done + k + 1
  <2>1. i \in (done + 1)..next /\ i \in 1..Len(seq) /\ i - 1 = done + k /\ done + (k + 1) = i
        /\ done + k <= next /\ done + k \in Nat /\ (done + k) + 1 = i /\ done + 1 \in Nat
        /\ done + 1 <= (done + k) + 1
    BY <1>0
  <2>2. Total(seq, Part(k)) <= Budget
    BY <1>2, <2>1
  <2>3. seq[i] \in Nat /\ seq[i] < Budget - Total(seq, Part(k))
    <3>1. Fits(seq, done, i)
      BY <2>1
    <3>2. seq[i] < Budget - Used(seq, done + 1, done + k)
      BY <2>1, <3>1 DEF Fits
    <3>3. QED
      BY <1>0, <2>1, <3>2 DEF Used, Total
  <2>4. /\ seq[i] = 0 => Part(k + 1) = Part(k)
        /\ seq[i] > 0 => Part(k + 1) = Part(k) \cup {i}
        /\ i \notin Part(k)
    BY <2>1, <2>3, GivenNext
  <2>5. IsFiniteSet(Part(k)) /\ \A j \in Part(k) \cup {i} : seq[j] \in Nat
    <3>1. IsFiniteSet((done + 1)..(done + k))
      BY <1>0, <2>1, FS_Interval
    <3>2. \A j \in (done + 1)..(done + k) : j \in 1..Len(seq)
      BY <1>0, <2>1
    <3>3. QED
      BY <1>0, <2>3, <3>1, <3>2, FS_Subset DEF Given
  <2> HIDE DEF Part, i
  <2>6. Total(seq, Part(k)) \in Nat /\ Total(seq, Part(k) \cup {i}) = Total(seq, Part(k)) + seq[i] + 1
    BY <2>4, <2>5, SumAddElement
  <2>7. CASE seq[i] = 0
    <3>1. Part(k + 1) = Part(k)
      BY <2>4, <2>7
    <3>2. QED
      BY ONLY <2>2, <3>1
  <2>8. CASE seq[i] > 0
    <3>1. Total(seq, Part(k + 1)) = Total(seq, Part(k)) + seq[i] + 1
      BY <2>4, <2>6, <2>8
    <3>2. Total(seq, Part(k)) + seq[i] + 1 <= Budget
      BY ONLY <1>0, <2>3, <2>6
    <3>3. QED
      BY ONLY <3>1, <3>2
  <2>9. QED
    BY <2>3, <2>7, <2>8
<1>3. Good = Nat
  <2> HIDE DEF Good
  <2>1. Good \in SUBSET Nat
    BY DEF Good
  <2>2. QED
    BY <1>1, <1>2, <2>1, Induction
<1>4. next - done \in Nat /\ done + (next - done) = next
  BY <1>0
<1>5. done + (next - done) <= next => Total(seq, Part(next - done)) <= Budget
  BY <1>3, <1>4
<1>6. QED
  BY <1>0, <1>4, <1>5
------------------------------------------------------------------------------
(* The inductive invariant.                                                *)

\* Nothing but a cancel has happened to a job that was not started.
FreshState ==
  state = "fresh" =>
    /\ patterns = <<>> /\ popped = 0 /\ commands = {}
    /\ ~process /\ ~queuedExit
    /\ mError \in {"none", "CANCELED"} /\ report = "unreported"
    /\ cancelled <=> mError = "CANCELED"

\* While processes run, the patterns taken were given away, nothing is reported and
\* mError remembers a cancel, and nothing else.
RunningState ==
  state = "running" =>
    /\ process => commands = Given(patterns, 1, popped)
    /\ queuedExit => patterns = <<>> /\ popped = 0 /\ commands = {} /\ ~process
    /\ mError \in {"none", "CANCELED"} /\ report = "unreported"
    /\ cancelled <=> mError = "CANCELED"

\* What CommandFits says.
CommandIsShort == Total(patterns, command) <= Budget

IInv ==
  /\ TypeOK
  /\ Len(patterns) <= MaxPatterns
  /\ FreshState
  /\ RunningState
  /\ CommandIsShort
  /\ ReportIsTrue

\* A process takes what fits onto its command line, from where the one before it
\* stopped.
LEMMA Started ==
  ASSUME NEW seq \in Seq(0..MaxLength), Len(seq) <= MaxPatterns,
         NEW done \in 0..Len(seq), NEW started \in BOOLEAN, commands \subseteq Positions,
         StartAProcess(seq, done, started)
  PROVE  /\ popped' \in done..Len(seq) /\ popped' \in 0..Len(seq)
         /\ process' = started
         /\ command' \subseteq Positions /\ commands' \subseteq Positions
         /\ Total(seq, command') <= Budget
         /\ started /\ commands = Given(seq, 1, done) => commands' = Given(seq, 1, popped')
         /\ ~started => commands' = commands
<1> DEFINE next == PoppedAfter(seq, done)
<1>0. Len(seq) \in Nat /\ done \in Nat /\ MaxPatterns \in Nat
  BY LengthAssumption
<1>1. next \in done..Len(seq) /\ \A i \in (done + 1)..next : Fits(seq, done, i)
  BY PoppedFit
<1>2. /\ popped' = next /\ process' = started
      /\ command' = Given(seq, done + 1, next)
      /\ commands' = IF started THEN commands \cup command' ELSE commands
  BY DEF StartAProcess
<1> HIDE DEF next
<1>3. Total(seq, command') <= Budget
  BY <1>1, <1>2, FittingIsShort
<1>4. \A i \in (done + 1)..next : i \in Positions
  BY <1>0, <1>1 DEF Positions
<1>5. Given(seq, 1, done) \cup Given(seq, done + 1, next) = Given(seq, 1, next)
  <2>1. \A i : i \in 1..next <=> i \in 1..done \/ i \in (done + 1)..next
    BY <1>0, <1>1
  <2>2. QED
    BY <2>1 DEF Given
<1>6. command' \subseteq Positions /\ commands' \subseteq Positions
  BY <1>2, <1>4 DEF Given
<1>7. next \in 0..Len(seq)
  BY <1>0, <1>1
<1>8. QED
  BY <1>1, <1>2, <1>3, <1>5, <1>6, <1>7

LEMMA InitInvariant == Init => IInv
<1> SUFFICES ASSUME Init PROVE IInv
  OBVIOUS
<1>1. TypeOK
  <2>1. <<>> \in Seq(0..MaxLength) /\ 0 \in 0..Len(<<>>)
    OBVIOUS
  <2>2. patterns \in Seq(0..MaxLength) /\ popped \in 0..Len(patterns)
    BY <2>1 DEF Init
  <2>3. process \in BOOLEAN /\ queuedExit \in BOOLEAN /\ cancelled \in BOOLEAN
    BY DEF Init
  <2>4. QED
    BY <2>2, <2>3 DEF Init, TypeOK, Errors, Exits
<1>2. Total(patterns, command) <= Budget
  <2>1. command = {}
    BY DEF Init
  <2>2. QED
    BY <2>1, SumEmpty, LengthAssumption
<1>3. Len(patterns) <= MaxPatterns /\ FreshState /\ RunningState
  BY LengthAssumption DEF Init, FreshState, RunningState
<1>4. ReportIsTrue
  BY DEF Init, ReportIsTrue, ResultCoversEveryPattern, CancelIsNoSuccess, LastFailureIsReported
<1>5. QED
  BY <1>1, <1>2, <1>3, <1>4 DEF IInv, CommandIsShort

LEMMA StepInvariant == IInv /\ [Next]_vars => IInv'
<1> SUFFICES ASSUME IInv, [Next]_vars PROVE IInv'
  OBVIOUS
<1> USE DEF IInv
<1>0. Len(patterns) \in Nat /\ MaxPatterns \in Nat /\ popped \in 0..Len(patterns)
      /\ patterns \in Seq(0..MaxLength) /\ commands \subseteq Positions
  BY LengthAssumption DEF TypeOK
<1>1. CASE StartPatterns
  <2>0. PICK n \in Positions : \E seq \in [1..n -> 0..MaxLength], started \in BOOLEAN :
          /\ patterns' = seq
          /\ StartAProcess(seq, 0, started)
          /\ IF started
             THEN /\ state' = "running"
                  /\ UNCHANGED <<mError, startError>>
             ELSE /\ state' = "deleting"
                  /\ mError' = "ENOENT"
                  /\ startError' = "ENOENT"
    BY <1>1 DEF StartPatterns
  <2>1. PICK seq \in [1..n -> 0..MaxLength], started \in BOOLEAN :
          /\ patterns' = seq
          /\ StartAProcess(seq, 0, started)
          /\ IF started
             THEN /\ state' = "running"
                  /\ UNCHANGED <<mError, startError>>
             ELSE /\ state' = "deleting"
                  /\ mError' = "ENOENT"
                  /\ startError' = "ENOENT"
    BY <2>0
  <2>2. seq \in Seq(0..MaxLength) /\ Len(seq) \in Nat /\ Len(seq) <= MaxPatterns /\ 0 \in 0..Len(seq)
    <3>1. n \in Nat /\ n <= MaxPatterns /\ seq \in [1..n -> 0..MaxLength]
      BY <1>0 DEF Positions
    <3>2. DOMAIN seq = 1..n /\ \A i \in 1..n : seq[i] \in 0..MaxLength
      BY <3>1
    <3>3. seq \in Seq(0..MaxLength)
      BY <3>1, SeqDef, Zenon
    <3>4. Len(seq) = n
      BY <3>1, <3>2, <3>3
    <3>5. QED
      BY <1>0, <3>1, <3>3, <3>4
  <2>3. commands = {} /\ commands = Given(seq, 1, 0)
    <3>1. 1..0 = {}
      OBVIOUS
    <3>2. QED
      BY <1>1, <3>1 DEF StartPatterns, FreshState, Given
  <2>4. /\ popped' \in 0..Len(seq) /\ process' = started
        /\ command' \subseteq Positions /\ commands' \subseteq Positions
        /\ Total(seq, command') <= Budget
        /\ started => commands' = Given(seq, 1, popped')
    BY <1>0, <2>1, <2>2, <2>3, Started
  <2>5. /\ UNCHANGED <<queuedExit, lastExit, cancelled, report>>
        /\ ~queuedExit /\ mError \in {"none", "CANCELED"} /\ report = "unreported"
        /\ cancelled <=> mError = "CANCELED"
    BY <1>1 DEF StartPatterns, FreshState
  <2>6. TypeOK'
    BY <2>1, <2>2, <2>4, <2>5 DEF TypeOK, Errors, Exits
  <2>7. CommandIsShort'
    BY <2>1, <2>4 DEF CommandIsShort
  <2>8. FreshState' /\ RunningState'
    BY <2>1, <2>4, <2>5 DEF FreshState, RunningState
  <2>9. ReportIsTrue'
    BY <2>5 DEF ReportIsTrue, ResultCoversEveryPattern, CancelIsNoSuccess, LastFailureIsReported
  <2>10. QED
    BY <2>1, <2>2, <2>6, <2>7, <2>8, <2>9
<1>2. CASE StartNoKeys
  <2>1. TypeOK'
    BY <1>2 DEF StartNoKeys, TypeOK
  <2>2. FreshState' /\ RunningState'
    BY <1>2 DEF StartNoKeys, FreshState, RunningState
  <2>3. ReportIsTrue'
    BY <1>2 DEF StartNoKeys, ReportIsTrue, ResultCoversEveryPattern, CancelIsNoSuccess,
                LastFailureIsReported
  <2>4. QED
    BY <1>2, <2>1, <2>2, <2>3 DEF StartNoKeys, CommandIsShort
<1>3. CASE StartWrongKeys
  <2>1. TypeOK'
    BY <1>3 DEF StartWrongKeys, TypeOK
  <2>2. FreshState' /\ RunningState'
    BY <1>3 DEF StartWrongKeys, FreshState, RunningState
  <2>3. ReportIsTrue'
    BY <1>3 DEF StartWrongKeys, ReportIsTrue, ResultCoversEveryPattern, CancelIsNoSuccess,
                LastFailureIsReported
  <2>4. QED
    BY <1>3, <2>1, <2>2, <2>3 DEF StartWrongKeys, CommandIsShort
<1>4. CASE SlotCancel
  <2>1. TypeOK'
    BY <1>4 DEF SlotCancel, TypeOK, Errors
  <2>2. FreshState' /\ RunningState'
    BY <1>4 DEF SlotCancel, FreshState, RunningState
  <2>3. ReportIsTrue'
    BY <1>4 DEF SlotCancel, RunningState, ReportIsTrue, ResultCoversEveryPattern,
                CancelIsNoSuccess, LastFailureIsReported
  <2>4. QED
    BY <1>4, <2>1, <2>2, <2>3 DEF SlotCancel, CommandIsShort
<1>5. ASSUME NEW exit \in Exits, NextProcess(exit), state = "running", process,
             UNCHANGED <<startError, patterns, queuedExit, cancelled>>
      PROVE  IInv'
  <2>1. /\ mError \in {"none", "CANCELED"} /\ (cancelled <=> mError = "CANCELED")
        /\ report = "unreported" /\ ~queuedExit
        /\ commands = Given(patterns, 1, popped) /\ lastExit' = exit
    BY <1>5 DEF NextProcess, RunningState
  <2>2. PICK started \in BOOLEAN :
          /\ StartAProcess(patterns, popped, started)
          /\ started => UNCHANGED <<state, mError, report>>
          /\ ~started => Report("ENOENT")
    BY <1>5 DEF NextProcess
  <2>3. /\ popped' \in 0..Len(patterns) /\ process' = started
        /\ command' \subseteq Positions /\ commands' \subseteq Positions
        /\ Total(patterns, command') <= Budget
        /\ started => commands' = Given(patterns, 1, popped')
    BY <1>0, <2>1, <2>2, Started
  <2>4. CASE started
    <3>1. TypeOK'
      BY <1>0, <1>5, <2>1, <2>2, <2>3, <2>4 DEF TypeOK
    <3>2. FreshState' /\ RunningState'
      BY <1>5, <2>1, <2>2, <2>3, <2>4 DEF FreshState, RunningState
    <3>3. ReportIsTrue'
      BY <1>5, <2>1, <2>2, <2>4 DEF ReportIsTrue, ResultCoversEveryPattern, CancelIsNoSuccess,
                                    LastFailureIsReported
    <3>4. QED
      BY <1>5, <2>3, <3>1, <3>2, <3>3 DEF CommandIsShort
  <2>5. CASE ~started
    <3>1. TypeOK'
      BY <1>0, <1>5, <2>1, <2>2, <2>3, <2>5 DEF TypeOK, Report, Errors
    <3>2. FreshState' /\ RunningState'
      BY <2>2, <2>5 DEF FreshState, RunningState, Report
    <3>3. ReportIsTrue'
      BY <1>5, <2>1, <2>2, <2>5 DEF ReportIsTrue, ResultCoversEveryPattern, CancelIsNoSuccess,
                                    LastFailureIsReported, Report
    <3>4. QED
      BY <1>5, <2>3, <3>1, <3>2, <3>3 DEF CommandIsShort
  <2>6. QED
    BY <2>4, <2>5
<1>6. ASSUME NEW exit \in Exits, LastProcess(exit), state = "running",
             commands = Given(patterns, 1, popped), queuedExit' \in BOOLEAN,
             UNCHANGED <<startError, patterns, cancelled>>
      PROVE  IInv'
  <2>1. /\ mError \in {"none", "CANCELED"}
        /\ cancelled <=> mError = "CANCELED"
        /\ popped = Len(patterns)
    BY <1>6 DEF RunningState, LastProcess, Done, IsError
  <2>2. /\ lastExit' = exit /\ ~process' /\ process' \in BOOLEAN /\ state' = "deleting"
        /\ mError' = ExitError(exit) /\ report' = ExitError(exit)
        /\ UNCHANGED <<popped, command, commands>>
    BY <1>6 DEF LastProcess, Report
  <2>3. /\ exit = "failed" => ExitError(exit) = "GENERAL"
        /\ exit # "failed" => exit = "ok" /\ ExitError(exit) = mError
        /\ ExitError(exit) \in Errors
    BY <1>6, <2>1 DEF ExitError, IsError, Exits, Errors
  <2>4. TypeOK'
    BY <1>6, <2>2, <2>3 DEF TypeOK
  <2>5. FreshState' /\ RunningState'
    BY <2>2 DEF FreshState, RunningState
  <2>6. ReportIsTrue'
    BY <1>6, <2>1, <2>2, <2>3 DEF ReportIsTrue, ResultCoversEveryPattern, CancelIsNoSuccess,
                                  LastFailureIsReported
  <2>7. QED
    BY <1>6, <2>2, <2>4, <2>5, <2>6 DEF CommandIsShort
<1>7. CASE ProcessExited
  <2>1. PICK exit \in Exits : NextProcess(exit) \/ LastProcess(exit)
    BY <1>7 DEF ProcessExited
  <2>2. /\ state = "running" /\ process /\ commands = Given(patterns, 1, popped)
        /\ queuedExit' \in BOOLEAN
        /\ UNCHANGED <<startError, patterns, queuedExit, cancelled>>
    BY <1>7 DEF ProcessExited, RunningState, TypeOK
  <2>3. QED
    BY <1>5, <1>6, <2>1, <2>2
<1>8. CASE QueuedExit
  <2>1. /\ LastProcess("ok") /\ state = "running" /\ "ok" \in Exits /\ queuedExit' \in BOOLEAN
        /\ UNCHANGED <<startError, patterns, cancelled>>
    BY <1>8 DEF QueuedExit, Exits
  <2>2. commands = Given(patterns, 1, popped)
    <3>1. popped = 0 /\ commands = {}
      BY <1>8 DEF QueuedExit, RunningState
    <3>2. 1..0 = {}
      OBVIOUS
    <3>3. QED
      BY <3>1, <3>2 DEF Given
  <2>3. QED
    BY <1>6, <2>1, <2>2
<1>9. CASE DeferredDelete
  <2>1. TypeOK'
    BY <1>9 DEF DeferredDelete, TypeOK
  <2>2. FreshState' /\ RunningState'
    BY <1>9 DEF DeferredDelete, FreshState, RunningState
  <2>3. ReportIsTrue'
    BY <1>9 DEF DeferredDelete, ReportIsTrue, ResultCoversEveryPattern, CancelIsNoSuccess,
                LastFailureIsReported
  <2>4. QED
    BY <1>9, <2>1, <2>2, <2>3 DEF DeferredDelete, CommandIsShort
<1>10. CASE UNCHANGED vars
  BY <1>10 DEF vars, TypeOK, FreshState, RunningState, CommandIsShort, ReportIsTrue,
               ResultCoversEveryPattern, CancelIsNoSuccess, LastFailureIsReported
<1>11. QED
  BY <1>1, <1>2, <1>3, <1>4, <1>7, <1>8, <1>9, <1>10 DEF Next, EventStep

\* The invariant holds in every reachable state.
THEOREM InductiveInvariant == Spec => []IInv
<1>1. QED
  BY InitInvariant, StepInvariant, PTL DEF Spec

\* Every variable has its type.
THEOREM TypeCorrect == Spec => []TypeOK
<1>1. IInv => TypeOK
  BY DEF IInv
<1>2. QED
  BY <1>1, InductiveInvariant, PTL

\* No command line of a gpgsm process is longer than it may be, however many patterns
\* of whatever length there are: startAProcess() never lets the room that is left
\* wrap around.
THEOREM CommandsFit == Spec => []CommandFits
<1>1. IInv => CommandFits
  <2>1. CommandIsShort => CommandFits
    BY DEF CommandIsShort, CommandFits, Total
  <2>2. QED
    BY <2>1 DEF IInv
<1>2. QED
  BY <1>1, InductiveInvariant, PTL

\* Whatever the result signal says of processes that ran comes after all patterns were
\* given away, also after a cancel; the failure of the last process is told; and a
\* cancelled refresh reports no success, although it may report a general failure
\* (slotProcessExited()).
THEOREM ReportTrue == Spec => []ReportIsTrue
<1>1. IInv => ReportIsTrue
  BY DEF IInv
<1>2. QED
  BY <1>1, InductiveInvariant, PTL
==============================================================================
