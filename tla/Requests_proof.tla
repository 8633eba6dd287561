---------------------------- MODULE Requests_proof ----------------------------
(***************************************************************************)
(* Proofs about Requests, for any set of requests and any limit of the     *)
(* channel to gpgsm.                                                       *)
(***************************************************************************)
EXTENDS Requests, FiniteSetTheorems, SequenceTheorems, TLAPS

------------------------------------------------------------------------------
(* The owner of the context                                                *)

\* A job has its context from the factory on, until it is deleted itself; and it is not
\* deleted while the wrapper is there.
OwnerInv ==
  /\ req \in RequestSet
  /\ stage \in Stages
  /\ stage \in {"asked", "no job"} => context = "none"
  /\ stage \notin {"asked", "crashed", "no job", "gone"} => context = "alive"
  /\ stage = "crashed" => context \in {"none", "alive"}
  /\ stage = "gone" => context = "deleted" /\ wrapper # "alive"

LEMMA OwnerInit == Init => OwnerInv
  BY DEF Init, OwnerInv, Stages

\* The steps before and after the worker function.
LEMMA OwnerOutside ==
  ASSUME OwnerInv,
         CreateJob \/ Configure \/ Reconfigure \/ Start \/ StartNow \/ Tick \/ Report
         \/ DeferredDelete \/ DeleteWrapper
  PROVE  OwnerInv'
<1>1. CASE CreateJob
  BY <1>1 DEF OwnerInv, CreateJob, Stages
<1>2. CASE Configure \/ Reconfigure \/ Tick
  BY <1>2 DEF OwnerInv, Configure, Reconfigure, Tick, Stages, ownerVars, wrapperVars
<1>3. CASE Start
  <2>1. stage = "created" /\ stage' \in {"refused", "prepared", "idle", "started"}
    BY <1>3 DEF Start
  <2>2. UNCHANGED <<req, ownerVars, wrapperVars>>
    BY <1>3 DEF Start
  <2>3. QED
    BY <2>1, <2>2 DEF OwnerInv, Stages, ownerVars, wrapperVars
<1>4. CASE StartNow
  BY <1>4 DEF OwnerInv, StartNow, Stages, ownerVars, wrapperVars
<1>5. CASE Report
  BY <1>5 DEF OwnerInv, Report, Stages, ownerVars
<1>6. CASE DeferredDelete
  BY <1>6 DEF OwnerInv, DeferredDelete, Released, Filtered, Stages
<1>7. CASE DeleteWrapper
  BY <1>7 DEF OwnerInv, DeleteWrapper, Stages, ownerVars
<1>8. QED
  BY <1>1, <1>2, <1>3, <1>4, <1>5, <1>6, <1>7

\* The worker function runs between start() and the report; none of its steps leaves that.
Running == {"started", "working", "logging", "listing", "returned"}
NextStages == Running \cup {"crashed"}

LEMMA CallStays ==
  ASSUME stage = "working", NEW call, NEW outcome, Goes(call, outcome)
  PROVE  stage' \in {"working", "logging", "returned"}
  BY DEF Goes

\* What GpgME asks of the data providers changes nothing else, but may end the program.
LEMMA DataStays ==
  ASSUME DataStep
  PROVE  /\ stage = "working" /\ stage' \in {"working", "crashed"}
         /\ UNCHANGED <<req, settings, wanted, bound, ctx, todo, made, code, found, log, clock, entered, device>>
         /\ UNCHANGED <<ownerVars, wrapperVars, listVars>>
<1>1. CASE ReadData \/ WriteData \/ SeekData \/ WriteDevice \/ SeekDevice
  BY <1>1 DEF ReadData, WriteData, SeekData, WriteDevice, SeekDevice, DataAsked, settingVars, resultVars, timeVars
<1>2. CASE WriteAsserts
  BY <1>2 DEF WriteAsserts, DataAsked, settingVars, resultVars, timeVars
<1>3. QED
  BY <1>1, <1>2 DEF DataStep

LEMMA WorkerStays ==
  ASSUME WorkerStep \/ DataStep \/ ListingStops
  PROVE  /\ stage \in Running \ {"returned"} /\ stage' \in NextStages
         /\ UNCHANGED <<req, context, wrapper>>
<1>1. CASE EnterWorker \/ NoPartFile \/ EnterListing \/ NothingToRefresh
  BY <1>1 DEF EnterWorker, NoPartFile, EnterListing, NothingToRefresh, Running, NextStages, ownerVars, wrapperVars
<1>2. CASE ReturnEarly \/ TakeLog
  BY <1>2 DEF ReturnEarly, TakeLog, IsNext, Running, NextStages, ownerVars, wrapperVars
<1>3. CASE CallEngine \/ CallImport \/ RunProcess
  BY <1>3, CallStays DEF CallEngine, CallImport, RunProcess, IsNext, Running, NextStages, ownerVars, wrapperVars
<1>4. CASE CallList
  <2>1. stage = "working" /\ UNCHANGED <<req, ownerVars, wrapperVars>>
    BY <1>4 DEF CallList, IsNext
  <2>2. PICK outcome \in Outcomes : Goes(Head(todo), outcome)
    BY <1>4 DEF CallList
  <2>3. QED
    BY <2>1, <2>2, CallStays DEF Running, NextStages, ownerVars, wrapperVars
<1>5. CASE ListingStep \/ ListingReturns \/ ListingStops
  BY <1>5 DEF ListingStep, ListingReturns, ListingStops, Running, NextStages, ownerVars, wrapperVars
<1>6. CASE ChooseKey \/ RefreshEnds
  BY <1>6 DEF ChooseKey, RefreshEnds, LeaveNestedJob, Running, NextStages, wrapperVars
<1>7. CASE ProcessSends \/ ReadDevice
  BY <1>7 DEF ProcessSends, ReadDevice, IsNext, Running, NextStages, ownerVars, wrapperVars
<1>8. CASE DataStep
  BY <1>8, DataStays DEF Running, NextStages, ownerVars, wrapperVars
<1>9. QED
  BY <1>1, <1>2, <1>3, <1>4, <1>5, <1>6, <1>7, <1>8 DEF WorkerStep

LEMMA OwnerStep ==
  ASSUME OwnerInv, [Next]_vars
  PROVE  OwnerInv'
<1>1. CASE CreateJob \/ Configure \/ Reconfigure \/ Start \/ StartNow \/ Tick \/ Report
           \/ DeferredDelete \/ DeleteWrapper
  BY <1>1, OwnerOutside
<1>2. CASE WorkerStep \/ DataStep \/ ListingStops
  BY <1>2, WorkerStays DEF OwnerInv, Running, NextStages, Stages
<1>3. CASE UNCHANGED vars
  BY <1>3 DEF OwnerInv, vars, ownerVars, wrapperVars
<1>4. QED
  BY <1>1, <1>2, <1>3 DEF Next

\* However many owners a context gets, one of them deletes it, and a job lives at least as
\* long as the wrapper around it (eventFilter() of DefaultKeyGenerationJob).
THEOREM OneOwner == Spec => []OneOwnerDeletes
<1>1. OwnerInv => OneOwnerDeletes
  BY DEF OwnerInv, OneOwnerDeletes
<1>2. QED
  BY <1>1, OwnerInit, OwnerStep, PTL DEF Spec
------------------------------------------------------------------------------
(* Induction over the natural numbers, without an operator as a parameter. *)

\* Every set of natural numbers has a least element.
LEMMA LeastNumber ==
  ASSUME NEW S \in SUBSET Nat, S # {}
  PROVE  \E n \in S : \A m \in S : n <= m
<1> DEFINE Less == {p \in Nat \X Nat : p[1] < p[2]}
<1>1. OpToRel(<, Nat) = Less
  BY DEF OpToRel
<1>2. PICK n \in S : \A m \in S : ~(<<m, n>> \in Less)
  BY <1>1, NatLessThanWellFounded, WFMin
<1>3. ASSUME NEW m \in S PROVE n <= m
  <2>1. m < n => <<m, n>> \in Nat \X Nat /\ <<m, n>>[1] < <<m, n>>[2]
    OBVIOUS
  <2>2. m < n => <<m, n>> \in Less
    BY ONLY <2>1
  <2>3. QED
    BY <1>2, <2>2
<1>4. QED
  BY <1>3

LEMMA AllNumbers ==
  ASSUME NEW S \in SUBSET Nat, 0 \in S, \A n \in Nat : n \in S => n + 1 \in S
  PROVE  S = Nat
<1> SUFFICES ASSUME Nat \ S # {} PROVE FALSE
  OBVIOUS
<1>1. PICK n \in Nat \ S : \A m \in Nat \ S : n <= m
  BY LeastNumber
<1>2. n - 1 \in Nat /\ n - 1 \in S
  BY <1>1
<1>3. (n - 1) + 1 = n
  BY <1>1
<1>4. QED
  BY <1>1, <1>2, <1>3

------------------------------------------------------------------------------
(* Folds over sequences, one element after the other. *)

\* The greatest number of a set of numbers up to k.
LEMMA Greatest ==
  ASSUME NEW k \in Nat
  PROVE  /\ Max(1..(k + 1)) = k + 1
         /\ \A s \in SUBSET (1..(k + 1)) : k + 1 \in s => Max(s) = k + 1
<1>1. ASSUME NEW s \in SUBSET (1..(k + 1)), k + 1 \in s PROVE Max(s) = k + 1
  <2>1. \A y \in s : k + 1 >= y
    OBVIOUS
  <2>2. \A x \in s : (\A y \in s : x >= y) => x = k + 1
    BY <1>1, <2>1
  <2>3. QED
    BY <1>1, <2>1, <2>2 DEF Max
<1>2. QED
  BY <1>1

LEMMA GreatestIn ==
  ASSUME NEW n \in Nat, NEW s \in SUBSET (1..n), s # {}
  PROVE  Max(s) \in 1..n /\ s \ {Max(s)} \in SUBSET (1..n)
<1> DEFINE Bounds == {m \in Nat : \A x \in s : m >= x}
<1>1. n \in Bounds /\ Bounds \in SUBSET Nat
  OBVIOUS
<1>2. PICK m \in Bounds : \A b \in Bounds : m <= b
  BY <1>1, LeastNumber
<1>3. m \in s
  <2> SUFFICES ASSUME m \notin s PROVE FALSE
    OBVIOUS
  <2>1. \A x \in s : x \in Nat /\ x >= 1 /\ m >= x /\ m # x
    BY <1>2
  <2>2. m >= 1
    <3>1. PICK x \in s : TRUE
      OBVIOUS
    <3>2. x \in Nat /\ x >= 1 /\ m >= x /\ m \in Nat
      BY <2>1, <3>1
    <3>3. QED
      BY ONLY <3>2
  <2>3. m - 1 \in Nat /\ \A x \in s : m - 1 >= x
    BY <1>2, <2>1, <2>2
  <2>4. m - 1 \in Bounds
    BY <2>3
  <2>5. QED
    BY <1>2, <2>4
<1>4. \E x \in s : \A y \in s : x >= y
  BY <1>2, <1>3
<1>5. Max(s) \in s
  BY <1>4 DEF Max
<1>6. QED
  BY <1>5

LEMMA Segment ==
  ASSUME NEW n \in Nat, NEW i \in Nat, i + 1 <= n
  PROVE  1..(i + 1) \in SUBSET (1..n) /\ 1..(i + 1) # {} /\ (1..(i + 1)) \ {i + 1} = 1..i
<1>1. i + 1 \in 1..(i + 1)
  OBVIOUS
<1>2. (1..(i + 1)) \ {i + 1} = 1..i
  OBVIOUS
<1>3. 1..(i + 1) \in SUBSET (1..n)
  OBVIOUS
<1>4. QED
  BY <1>1, <1>2, <1>3

\* A step from what was folded before and the next position.
FoldStep(step, base, h, s) == IF s = {} THEN base ELSE step[<<h[s \ {Max(s)}], Max(s)>>]

\* A function that folds all sets of positions up to k.
Folds(A, step, base, k, h) ==
  h \in [SUBSET (1..k) -> A] /\ \A s \in SUBSET (1..k) : h[s] = FoldStep(step, base, h, s)

LEMMA FoldExists ==
  ASSUME NEW A, NEW base \in A, NEW n \in Nat, NEW step \in [A \X (1..n) -> A]
  PROVE  \E h : Folds(A, step, base, n, h)
<1> DEFINE Good == {k \in Nat : k <= n => \E h : Folds(A, step, base, k, h)}
<1>1. 0 \in Good
  <2> DEFINE h == [s \in SUBSET (1..0) |-> base]
  <2>1. \A s \in SUBSET (1..0) : s = {}
    OBVIOUS
  <2>2. h \in [SUBSET (1..0) -> A]
    OBVIOUS
  <2>3. Folds(A, step, base, 0, h)
    BY <2>1, <2>2 DEF Folds, FoldStep
  <2>4. QED
    BY <2>3
<1>2. ASSUME NEW k \in Nat, k \in Good PROVE k + 1 \in Good
  <2> SUFFICES ASSUME k + 1 <= n PROVE \E h : Folds(A, step, base, k + 1, h)
    OBVIOUS
  <2>1. PICK g : Folds(A, step, base, k, g)
    BY <1>2
  <2> DEFINE h == [s \in SUBSET (1..(k + 1)) |->
                     IF k + 1 \in s THEN step[<<g[s \ {k + 1}], k + 1>>] ELSE g[s]]
  <2>2. \A s \in SUBSET (1..(k + 1)) : s \ {k + 1} \in SUBSET (1..k)
    OBVIOUS
  <2>3. \A s \in SUBSET (1..k) : g[s] \in A /\ h[s] = g[s]
    BY <2>1 DEF Folds
  <2>4. ASSUME NEW s \in SUBSET (1..(k + 1)) PROVE h[s] \in A /\ h[s] = FoldStep(step, base, h, s)
    <3>1. CASE k + 1 \in s
      <4>1. Max(s) = k + 1
        BY <3>1, Greatest
      <4>2. s \ {k + 1} \in SUBSET (1..k) /\ k + 1 \in 1..n
        BY <2>2
      <4>3. <<g[s \ {k + 1}], k + 1>> \in A \X (1..n) /\ h[s \ {k + 1}] = g[s \ {k + 1}]
        BY <2>3, <4>2
      <4>4. h[s] = step[<<g[s \ {k + 1}], k + 1>>]
        BY <3>1
      <4> HIDE DEF h
      <4>5. h[s] \in A
        BY <4>3, <4>4
      <4>6. QED
        BY <3>1, <4>1, <4>3, <4>4, <4>5 DEF FoldStep
    <3>2. CASE k + 1 \notin s
      <4>1. s \in SUBSET (1..k)
        BY <3>2
      <4>2. h[s] = g[s] /\ g[s] \in A
        BY <2>3, <4>1
      <4>3. g[s] = FoldStep(step, base, g, s)
        BY <2>1, <4>1 DEF Folds
      <4>4. s # {} => s \ {Max(s)} \in SUBSET (1..k)
        BY <4>1
      <4>5. s # {} => h[s \ {Max(s)}] = g[s \ {Max(s)}]
        BY <2>3, <4>4
      <4> HIDE DEF h
      <4>6. QED
        BY <4>2, <4>3, <4>5 DEF FoldStep
    <3>3. QED
      BY <3>1, <3>2
  <2>5. h \in [SUBSET (1..(k + 1)) -> A]
    BY <2>4
  <2>6. Folds(A, step, base, k + 1, h)
    BY <2>4, <2>5 DEF Folds
  <2>7. QED
    BY <2>6
<1>3. Good = Nat
  <2> HIDE DEF Good
  <2>1. Good \in SUBSET Nat
    BY DEF Good
  <2>2. QED
    BY <1>1, <1>2, <2>1, AllNumbers
<1>4. QED
  BY <1>3

\* f goes on with the step wherever that is defined.
Follows(A, step, base, n, f) ==
  /\ base \in A /\ n \in Nat /\ step \in [A \X (1..n) -> A]
  /\ f[{}] = base
  /\ \A s \in SUBSET (1..n) :
       s # {} /\ f[s \ {Max(s)}] \in A => f[s] = step[<<f[s \ {Max(s)}], Max(s)>>]

\* g goes from the base to the result in n steps.
Steps(A, step, base, n, g) ==
  g \in [0..n -> A] /\ g[0] = base /\ \A i \in 0..(n - 1) : g[i + 1] = step[<<g[i], i + 1>>]

\* What a fold comes to is reached step by step. (f is the function that defines it.)
LEMMA FoldSteps ==
  ASSUME NEW A, NEW base, NEW n, NEW step, NEW f, Follows(A, step, base, n, f)
  PROVE  \E g : Steps(A, step, base, n, g) /\ g[n] = f[1..n]
<1> USE DEF Follows
<1> DEFINE g == [i \in 0..n |-> f[1..i]]
           Good == {i \in Nat : i <= n => f[1..i] \in A}
<1>1. ASSUME NEW i \in Nat, i + 1 <= n, f[1..i] \in A
      PROVE  f[1..(i + 1)] \in A /\ f[1..(i + 1)] = step[<<f[1..i], i + 1>>]
  <2>1. 1..(i + 1) \in SUBSET (1..n) /\ 1..(i + 1) # {} /\ (1..(i + 1)) \ {i + 1} = 1..i
    BY <1>1, Segment
  <2>2. Max(1..(i + 1)) = i + 1
    BY Greatest
  <2>3. f[1..(i + 1)] = step[<<f[1..i], i + 1>>]
    BY <1>1, <2>1, <2>2
  <2>4. <<f[1..i], i + 1>> \in A \X (1..n)
    BY <1>1
  <2>5. QED
    BY <2>3, <2>4
<1>2. Good = Nat
  <2>1. 0 \in Good
    <3>1. 1..0 = {}
      OBVIOUS
    <3>2. QED
      BY <3>1
  <2>2. ASSUME NEW i \in Nat, i \in Good PROVE i + 1 \in Good
    <3>1. i + 1 <= n => i <= n
      OBVIOUS
    <3>2. i + 1 <= n => f[1..(i + 1)] \in A
      BY <1>1, <2>2, <3>1
    <3>3. QED
      BY <3>2
  <2>3. Good \in SUBSET Nat
    OBVIOUS
  <2> HIDE DEF Good
  <2>4. QED
    BY <2>1, <2>2, <2>3, AllNumbers
<1>3. ASSUME NEW i \in 0..n PROVE g[i] = f[1..i] /\ f[1..i] \in A
  <2>1. i \in Good
    BY <1>2
  <2>2. QED
    BY <2>1
<1>4. g \in [0..n -> A]
  BY <1>3
<1>5. g[0] = base /\ g[n] = f[1..n]
  <2>1. 1..0 = {} /\ 0 \in 0..n /\ n \in 0..n
    OBVIOUS
  <2> HIDE DEF g
  <2>2. QED
    BY <1>3, <2>1
<1>6. ASSUME NEW i \in 0..(n - 1) PROVE g[i + 1] = step[<<g[i], i + 1>>]
  <2>1. i \in Nat /\ i + 1 <= n /\ i \in 0..n /\ i + 1 \in 0..n
    OBVIOUS
  <2> HIDE DEF g
  <2>2. QED
    BY <1>1, <1>3, <2>1
<1> HIDE DEF g
<1>7. QED
  BY <1>4, <1>5, <1>6 DEF Steps

------------------------------------------------------------------------------
(* The length of a chunk of patterns                                       *)

\* What List!TooLong compares with the limit.
Weight(seq, S) == List!MapThenSumSet(LAMBDA i : seq[i], S)

Pick(s) == CHOOSE x \in s : TRUE

\* n patterns of the length w.
LEMMA Products ==
  ASSUME NEW w \in Nat, NEW n \in Nat
  PROVE  /\ n * w \in Nat
         /\ (n + 1) * w = w + n * w
         /\ \A m \in 0..n : m * w <= n * w
<1> DEFINE Good == {k \in Nat : k * w \in Nat}
<1>1. Good = Nat
  <2>1. \A k \in Int : (k + 1) * w = w + k * w
    OBVIOUS
  <2>2. 0 \in Good /\ \A k \in Nat : k \in Good => k + 1 \in Good
    BY <2>1
  <2>3. Good \in SUBSET Nat
    OBVIOUS
  <2> HIDE DEF Good
  <2>4. QED
    BY <2>2, <2>3, AllNumbers
<1>2. \A k \in Nat : k * w \in Nat
  BY <1>1
<1>3. ASSUME NEW m \in 0..n PROVE m * w <= n * w
  <2>1. n - m \in Nat
    OBVIOUS
  <2>2. (n - m) * w = n * w - m * w
    OBVIOUS
  <2>3. (n - m) * w \in Nat /\ n * w \in Nat /\ m * w \in Nat
    BY <1>2, <2>1
  <2>4. QED
    BY ONLY <2>2, <2>3
<1>4. QED
  BY <1>2, <1>3

\* The sum over each set is made of the weight of one element and the sum of the rest.
SumsUp(seq, S, h) ==
  h = [s \in SUBSET S |-> IF s = {} THEN 0 ELSE seq[Pick(s)] + h[s \ {Pick(s)}]]

\* Patterns of the same length have their number times that length.
LEMMA EqualWeights ==
  ASSUME NEW S, IsFiniteSet(S), NEW w \in Nat, NEW seq, \A i \in S : seq[i] = w
  PROVE  Weight(seq, S) = Cardinality(S) * w
<1> DEFINE Fold(h) == SumsUp(seq, S, h)
           product == [s \in SUBSET S |-> Cardinality(s) * w]
<1>1. Weight(seq, S) = (CHOOSE h : Fold(h))[S]
  BY DEF Weight, List!MapThenSumSet, List!MapThenFoldSet, SumsUp, Pick
<1>2. \A s \in SUBSET S : Cardinality(s) \in Nat /\ (Cardinality(s) = 0 <=> s = {})
  BY FS_Subset, FS_CardinalityType, FS_EmptySet
<1>3. ASSUME NEW s \in SUBSET S, s # {}
      PROVE  /\ Pick(s) \in s /\ s \ {Pick(s)} \in SUBSET S /\ seq[Pick(s)] = w
             /\ Cardinality(s) = Cardinality(s \ {Pick(s)}) + 1
  <2>1. Pick(s) \in s /\ IsFiniteSet(s)
    BY <1>3, FS_Subset DEF Pick
  <2>2. s \ {Pick(s)} \in SUBSET S /\ Cardinality(s \ {Pick(s)}) = Cardinality(s) - 1
    BY <2>1, FS_RemoveElement
  <2>3. QED
    BY <1>2, <2>1, <2>2
<1>4. Fold(product)
  <2>1. ASSUME NEW s \in SUBSET S
        PROVE  product[s] = IF s = {} THEN 0 ELSE seq[Pick(s)] + product[s \ {Pick(s)}]
    <3>1. CASE s = {}
      <4>1. 0 * w = 0
        OBVIOUS
      <4>2. QED
        BY <1>2, <3>1, <4>1
    <3>2. CASE s # {}
      <4>1. product[s] = (Cardinality(s \ {Pick(s)}) + 1) * w
        BY <1>3, <3>2
      <4>2. product[s \ {Pick(s)}] = Cardinality(s \ {Pick(s)}) * w
        BY <1>3, <3>2
      <4>3. Cardinality(s \ {Pick(s)}) \in Nat
        BY <1>2
      <4>4. QED
        BY <1>3, <3>2, <4>1, <4>2, <4>3, Products
    <3>3. QED
      BY <3>1, <3>2
  <2> HIDE DEF product
  <2>2. product = [s \in SUBSET S |-> product[s]]
    BY DEF product
  <2>3. QED
    BY <2>1, <2>2 DEF SumsUp
<1>5. PICK h : Fold(h) /\ h = (CHOOSE k : Fold(k))
  <2> HIDE DEF Fold
  <2>1. QED
    BY <1>4
<1> DEFINE Good == {n \in Nat : \A s \in SUBSET S : Cardinality(s) = n => h[s] = n * w}
<1>6. Good = Nat
  <2>1. 0 \in Good
    <3>1. 0 * w = 0
      OBVIOUS
    <3>2. QED
      BY <1>2, <1>5, <3>1 DEF SumsUp
  <2>2. ASSUME NEW n \in Nat, n \in Good PROVE n + 1 \in Good
    <3>1. ASSUME NEW s \in SUBSET S, Cardinality(s) = n + 1 PROVE h[s] = (n + 1) * w
      <4>1. s # {}
        BY <1>2, <3>1
      <4>2. h[s] = w + h[s \ {Pick(s)}]
        BY <1>3, <1>5, <4>1 DEF SumsUp
      <4>3. s \ {Pick(s)} \in SUBSET S /\ Cardinality(s \ {Pick(s)}) = n
        BY <1>2, <1>3, <3>1, <4>1
      <4>4. h[s \ {Pick(s)}] = n * w
        BY <2>2, <4>3
      <4>5. QED
        BY <4>2, <4>4, Products
    <3>2. QED
      BY <3>1
  <2>3. Good \in SUBSET Nat
    OBVIOUS
  <2> HIDE DEF Good
  <2>4. QED
    BY <2>1, <2>2, <2>3, AllNumbers
<1>7. h[S] = Cardinality(S) * w
  BY <1>2, <1>6
<1>8. QED
  BY <1>1, <1>5, <1>7

------------------------------------------------------------------------------
(* One step of a listing                                                   *)

ListTypes == lengths \in Seq(Nat) /\ first \in Nat \ {0} /\ chunkSize \in Nat

\* The patterns of the chunk are at consecutive positions.
LEMMA ChunkSpan ==
  ASSUME ListTypes
  PROVE  /\ List!Last \in Int /\ List!Last <= Len(lengths) /\ List!Last <= first + chunkSize - 1
         /\ List!Last < Len(lengths) => List!Last = first + chunkSize - 1
         /\ List!Chunk \subseteq List!Patterns /\ IsFiniteSet(List!Chunk)
         /\ Cardinality(List!Chunk) = IF List!Last < first THEN 0 ELSE List!Last - first + 1
         /\ \A i \in List!Patterns : lengths[i] \in Nat
<1>1. Len(lengths) \in Nat /\ \A i \in 1..Len(lengths) : lengths[i] \in Nat
  BY DEF ListTypes
<1>2. /\ List!Last \in Int /\ List!Last <= Len(lengths) /\ List!Last <= first + chunkSize - 1
      /\ List!Last < Len(lengths) => List!Last = first + chunkSize - 1
  BY <1>1 DEF List!Last, ListTypes
<1>3. List!Chunk = first..List!Last /\ first \in Int
  BY DEF List!Chunk, ListTypes
<1>4. IsFiniteSet(List!Chunk) /\ Cardinality(List!Chunk) = IF List!Last < first THEN 0 ELSE List!Last - first + 1
  BY <1>2, <1>3, FS_Interval
<1>5. List!Chunk \subseteq List!Patterns
  BY <1>1, <1>2, <1>3 DEF List!Patterns, ListTypes
<1>6. QED
  BY <1>1, <1>2, <1>4, <1>5 DEF List!Patterns

LEMMA TooLongIsWeight == List!TooLong <=> Weight(lengths, List!Chunk) > Limit
  BY DEF List!TooLong, Weight

\* Only a chunk of a single pattern cannot shrink.
LEMMA ChunkOfOne ==
  ASSUME ListTypes, List!TooLong, List!CannotShrink
  PROVE  \E i \in List!Patterns : lengths[i] > Limit
<1>0. Limit \in Nat
  BY RequestBounds
<1>1. List!Last < first \/ List!Last = first
  <2>1. Len(lengths) < 2 \/ chunkSize < 2
    BY DEF List!CannotShrink, List!SingleCall, List!Smaller, ListTypes
  <2>2. QED
    BY <2>1, ChunkSpan DEF ListTypes
<1>2. CASE List!Last < first
  <2>1. List!Chunk = {} /\ Cardinality(List!Chunk) = 0
    BY <1>2, ChunkSpan DEF List!Chunk, ListTypes
  <2>2. Weight(lengths, List!Chunk) = 0 * 0
    BY <2>1, ChunkSpan, EqualWeights
  <2>3. QED
    BY <1>0, <2>2, TooLongIsWeight
<1>3. CASE List!Last = first
  <2>1. List!Chunk = {first} /\ Cardinality(List!Chunk) = 1
    BY <1>3, ChunkSpan DEF List!Chunk, ListTypes
  <2>2. first \in List!Patterns /\ lengths[first] \in Nat
    BY <2>1, ChunkSpan
  <2>3. Weight(lengths, List!Chunk) = 1 * lengths[first]
    BY <2>1, <2>2, ChunkSpan, EqualWeights
  <2>4. QED
    BY <2>2, <2>3, TooLongIsWeight
<1>4. QED
  BY <1>1, <1>2, <1>3

Equal == \A i, k \in List!Patterns : lengths[i] = lengths[k]

\* Full chunks of patterns of the same length fit into the channel.
FullChunksFit == \A i \in List!Patterns : chunkSize * lengths[i] <= Limit

LEMMA LaterChunkFits ==
  ASSUME ListTypes, Equal, FullChunksFit, Len(lengths) # 0
  PROVE  ~List!TooLong
<1>0. Limit \in Nat /\ 1 \in List!Patterns /\ lengths[1] \in Nat
  BY RequestBounds, ChunkSpan DEF List!Patterns, ListTypes
<1>1. \A i \in List!Chunk : lengths[i] = lengths[1]
  BY <1>0, ChunkSpan DEF Equal
<1>2. Weight(lengths, List!Chunk) = Cardinality(List!Chunk) * lengths[1]
  BY <1>0, <1>1, ChunkSpan, EqualWeights
<1>3. Cardinality(List!Chunk) \in 0..chunkSize
  BY ChunkSpan DEF ListTypes
<1>4. Cardinality(List!Chunk) * lengths[1] <= chunkSize * lengths[1] /\ chunkSize * lengths[1] \in Nat
  BY <1>0, <1>3, Products DEF ListTypes
<1>5. chunkSize * lengths[1] <= Limit
  BY <1>0 DEF FullChunksFit
<1>6. Cardinality(List!Chunk) * lengths[1] \in Nat
  BY <1>0, <1>3, Products
<1>7. QED
  BY <1>0, <1>2, <1>4, <1>5, <1>6, TooLongIsWeight

LEMMA FittingChunkIsFull ==
  ASSUME ListTypes, Equal, ~List!TooLong, List!Last = first + chunkSize - 1
  PROVE  FullChunksFit
<1>0. Limit \in Nat /\ Len(lengths) \in Nat
  BY RequestBounds DEF ListTypes
<1>1. CASE chunkSize = 0
  <2>1. \A i \in List!Patterns : 0 * lengths[i] = 0
    BY ChunkSpan
  <2>2. QED
    BY <1>0, <1>1, <2>1 DEF FullChunksFit
<1>2. CASE chunkSize # 0
  <2>1. Cardinality(List!Chunk) = chunkSize
    BY <1>2, ChunkSpan DEF ListTypes
  <2>2. ASSUME NEW i \in List!Patterns PROVE chunkSize * lengths[i] <= Limit
    <3>1. \A k \in List!Chunk : lengths[k] = lengths[i]
      BY ChunkSpan DEF Equal
    <3>2. lengths[i] \in Nat
      BY ChunkSpan
    <3>3. Weight(lengths, List!Chunk) = chunkSize * lengths[i]
      BY <2>1, <3>1, <3>2, ChunkSpan, EqualWeights
    <3>4. chunkSize * lengths[i] \in Nat
      BY <3>2, Products DEF ListTypes
    <3>5. QED
      BY <1>0, <3>3, <3>4, TooLongIsWeight
  <2>3. QED
    BY <2>2 DEF FullChunksFit
<1>3. QED
  BY <1>1, <1>2

\* The keys of the next n patterns follow those that are listed.
LEMMA KeysFollow ==
  ASSUME ListTypes, keys \in Seq(Nat), List!KeysInOrder, result = "ok", \A i \in DOMAIN keys : keys[i] < first,
         NEW n \in Nat, NEW listed, listed = keys \o List!KeysOfChunk(n)
  PROVE  /\ listed \in Seq(Nat) /\ Len(listed) = Len(keys) + n
         /\ \A i, k \in DOMAIN listed : i < k => listed[i] < listed[k]
         /\ \A i \in DOMAIN listed : listed[i] # 0 /\ listed[i] < first + n
<1> DEFINE chunk == List!KeysOfChunk(n)
<1>1. /\ chunk \in Seq(Nat) /\ Len(chunk) = n
      /\ \A i \in 1..n : chunk[i] = first + i - 1
  <2>1. chunk = [i \in 1..n |-> first + i - 1]
    BY DEF List!KeysOfChunk
  <2>2. \A i \in 1..n : first + i - 1 \in Nat
    BY DEF ListTypes
  <2> HIDE DEF chunk
  <2>3. QED
    BY <2>1, <2>2
<1> HIDE DEF chunk
<1>2. listed = keys \o chunk
  BY DEF chunk
<1>3. listed \in Seq(Nat) /\ Len(listed) = Len(keys) + n
  BY <1>1, <1>2
<1>4. /\ Len(keys) \in Nat /\ DOMAIN keys = 1..Len(keys) /\ DOMAIN listed = 1..(Len(keys) + n)
      /\ \A i \in 1..Len(keys) : keys[i] \in Nat
  BY <1>3
<1>5. /\ \A i \in DOMAIN listed : i <= Len(keys) => listed[i] = keys[i]
      /\ \A i \in DOMAIN listed : i > Len(keys) => listed[i] = first + (i - Len(keys)) - 1
  BY <1>1, <1>2, <1>4
<1>6. /\ \A i \in DOMAIN keys : keys[i] # 0
      /\ \A i, k \in DOMAIN keys : i < k => keys[i] < keys[k]
  BY DEF List!KeysInOrder, List!NullKey
<1>7. first \in Nat \ {0}
  BY DEF ListTypes
<1>8. \A i \in 1..Len(keys) : keys[i] < first
  BY <1>4
<1>9. ASSUME NEW i \in DOMAIN listed PROVE listed[i] # 0 /\ listed[i] < first + n
  <2>1. i \in Nat /\ i >= 1 /\ i <= Len(keys) + n
    BY <1>4
  <2>2. CASE i <= Len(keys)
    <3>1. i \in 1..Len(keys) /\ listed[i] = keys[i]
      BY <1>4, <1>5, <2>1, <2>2
    <3>2. keys[i] \in Nat \ {0} /\ keys[i] < first
      BY <1>4, <1>6, <1>8, <3>1
    <3>3. QED
      BY <1>7, <3>1, <3>2
  <2>3. CASE i > Len(keys)
    <3>1. listed[i] = first + (i - Len(keys)) - 1
      BY <1>5, <2>3
    <3>2. i - Len(keys) \in 1..n
      BY <1>4, <2>1, <2>3
    <3>3. first \in Nat /\ first >= 1
      BY <1>7
    <3>4. \A k \in 1..n : first + k - 1 # 0 /\ first + k - 1 < first + n
      BY <3>3
    <3>5. QED
      BY <3>1, <3>2, <3>4
  <2>4. QED
    BY <1>4, <2>1, <2>2, <2>3
<1>10. ASSUME NEW i \in DOMAIN listed, NEW k \in DOMAIN listed, i < k PROVE listed[i] < listed[k]
  <2>1. CASE k <= Len(keys)
    BY <1>4, <1>5, <1>6, <1>10, <2>1
  <2>2. CASE i <= Len(keys) /\ k > Len(keys)
    <3>1. i \in 1..Len(keys) /\ listed[i] = keys[i] /\ k \in Nat
      BY <1>4, <1>5, <2>2
    <3>2. keys[i] \in Nat /\ keys[i] < first
      BY <1>4, <1>8, <3>1
    <3>3. listed[k] = first + (k - Len(keys)) - 1
      BY <1>5, <2>2
    <3>4. QED
      BY <1>4, <1>7, <2>2, <3>1, <3>2, <3>3
  <2>3. CASE i > Len(keys)
    <3>1. i \in Nat /\ k \in Nat /\ k > Len(keys)
      BY <1>4, <1>10, <2>3
    <3>2. listed[i] = first + (i - Len(keys)) - 1 /\ listed[k] = first + (k - Len(keys)) - 1
      BY <1>5, <2>3, <3>1
    <3>3. QED
      BY <1>4, <1>7, <1>10, <3>1, <3>2
  <2>4. QED
    BY <1>4, <2>1, <2>2, <2>3
<1>11. QED
  BY <1>3, <1>9, <1>10

\* While the worker function lists, the keys are those of patterns before the next chunk,
\* and patterns of the same length never make it start over after the first chunk.
Listing ==
  /\ result = "ok"
  /\ \A i \in DOMAIN keys : keys[i] < first
  /\ IF List!SingleCall THEN first = 1 /\ chunkSize = Len(lengths)
                        ELSE chunkSize >= 1 /\ first <= Len(lengths)
  /\ Equal => Len(keys) = first - 1 /\ (first > 1 => FullChunksFit)

ListingInv ==
  /\ ListTypes /\ keys \in Seq(Nat)
  /\ pc \in {"idle", "listing", "returned", "reported"}
  /\ pc = "idle" => first = 1 /\ keys = <<>> /\ result = "ok"
  /\ pc = "listing" => Listing
  /\ List!KeysInOrder /\ List!GivesUpOnlyForALongPattern /\ List!EqualPatternsAreComplete

LEMMA ListingKept ==
  ASSUME ListingInv, UNCHANGED listVars
  PROVE  ListingInv'
  BY DEF ListingInv, listVars, ListTypes, Listing, Equal, FullChunksFit, List!KeysInOrder, List!Patterns,
         List!GivesUpOnlyForALongPattern, List!EqualPatternsAreComplete, List!SingleCall

LEMMA RetryKeeps ==
  ASSUME ListingInv, List!Retry
  PROVE  ListingInv'
<1>0. ListTypes /\ Listing /\ pc = "listing" /\ UNCHANGED <<lengths, first>> /\ Len(lengths) \in Nat
  BY DEF ListingInv, List!Retry, List!StartOver, ListTypes
<1>1. CASE List!CannotShrink
  <2>1. \E i \in List!Patterns : lengths[i] > Limit
    BY <1>0, <1>1, ChunkOfOne DEF List!Retry
  <2>2. pc' = "returned" /\ result' = "LINE_TOO_LONG" /\ UNCHANGED <<keys, chunkSize>>
    BY <1>1 DEF List!Retry, List!Return
  <2>3. List!GivesUpOnlyForALongPattern' /\ List!EqualPatternsAreComplete' /\ List!KeysInOrder'
    <3>1. List!KeysInOrder /\ result = "ok"
      BY <1>0 DEF ListingInv, Listing
    <3>2. List!KeysInOrder'
      BY <2>2, <3>1 DEF List!KeysInOrder
    <3>3. List!GivesUpOnlyForALongPattern' /\ List!EqualPatternsAreComplete'
      BY <1>0, <2>1, <2>2 DEF List!GivesUpOnlyForALongPattern, List!EqualPatternsAreComplete, List!Patterns
    <3>4. QED
      BY <3>2, <3>3
  <2>4. QED
    BY <1>0, <2>2, <2>3 DEF ListingInv, ListTypes
<1>2. CASE ~List!CannotShrink
  <2>1. pc' = "listing" /\ keys' = <<>> /\ result' = "ok" /\ chunkSize' = chunkSize \div 2
    BY <1>0, <1>2 DEF List!Retry, List!StartOver, List!Smaller
  <2>2. ~List!SingleCall /\ chunkSize' \in Nat /\ chunkSize' >= 1
    BY <1>0, <1>2, <2>1 DEF List!CannotShrink, List!Smaller, ListTypes
  <2>3. Equal => first = 1
    <3>1. Len(lengths) # 0
      BY <1>0, <2>2 DEF List!SingleCall
    <3>2. ASSUME Equal, first # 1 PROVE FALSE
      BY <1>0, <3>1, <3>2, LaterChunkFits DEF Listing, ListTypes, List!Retry
    <3>3. QED
      BY <3>2
  <2>4. Listing'
    <3>1. Equal' => Equal
      BY <1>0 DEF Equal, List!Patterns
    <3>2. QED
      BY <1>0, <2>1, <2>2, <2>3, <3>1 DEF Listing, List!SingleCall
  <2>5. List!GivesUpOnlyForALongPattern' /\ List!EqualPatternsAreComplete' /\ List!KeysInOrder'
    BY <2>1 DEF List!GivesUpOnlyForALongPattern, List!EqualPatternsAreComplete, List!KeysInOrder
  <2>6. QED
    BY <1>0, <2>1, <2>2, <2>4, <2>5 DEF ListingInv, ListTypes
<1>3. QED
  BY <1>1, <1>2

LEMMA ListChunkKeeps ==
  ASSUME ListingInv, List!ListChunk
  PROVE  ListingInv'
<1> DEFINE n == List!Last - first + 1
<1>0. /\ ListTypes /\ Listing /\ pc = "listing" /\ ~List!TooLong /\ Len(lengths) \in Nat
      /\ UNCHANGED <<lengths, chunkSize, result>> /\ keys' = keys \o List!KeysOfChunk(n)
  BY DEF ListingInv, List!ListChunk, ListTypes
<1>1. n \in Nat
  BY <1>0, ChunkSpan DEF ListTypes, Listing, List!SingleCall, List!Last
<1> HIDE DEF n
<1>2. /\ keys' \in Seq(Nat) /\ Len(keys') = Len(keys) + n
      /\ List!KeysInOrder' /\ \A i \in DOMAIN keys' : keys'[i] < first + n
  <2>1. result = "ok" /\ \A i \in DOMAIN keys : keys[i] < first
    BY <1>0 DEF Listing
  <2>2. /\ keys' \in Seq(Nat) /\ Len(keys') = Len(keys) + n
        /\ \A i, k \in DOMAIN keys' : i < k => keys'[i] < keys'[k]
        /\ \A i \in DOMAIN keys' : keys'[i] # 0 /\ keys'[i] < first + n
    BY <1>0, <1>1, <2>1, KeysFollow DEF ListingInv
  <2>3. QED
    BY <2>2 DEF List!KeysInOrder, List!NullKey
<1>3. Equal' => Equal /\ Len(keys') = List!Last
  BY <1>0, <1>2, ChunkSpan DEF Equal, List!Patterns, Listing, ListTypes, n
<1>4. List!GivesUpOnlyForALongPattern' /\ result' = "ok"
  BY <1>0 DEF Listing, List!GivesUpOnlyForALongPattern
<1>5. CASE List!SingleCall \/ List!Last = Len(lengths)
  <2>1. pc' = "returned" /\ UNCHANGED first
    BY <1>5 DEF List!ListChunk
  <2>2. List!Last = Len(lengths)
    BY <1>0, <1>5 DEF Listing, List!Last, ListTypes
  <2>3. List!EqualPatternsAreComplete'
    BY <1>0, <1>3, <2>2 DEF List!EqualPatternsAreComplete, Equal, List!Patterns
  <2>4. QED
    BY <1>0, <1>2, <1>4, <2>1, <2>3 DEF ListingInv, ListTypes
<1>6. CASE ~(List!SingleCall \/ List!Last = Len(lengths))
  <2>1. pc' = "listing" /\ first' = first + chunkSize
    BY <1>0, <1>6 DEF List!ListChunk, List!NextChunk
  <2>2. List!Last = first + chunkSize - 1 /\ first' = first + n /\ first' <= Len(lengths) /\ first' \in Nat \ {0}
    <3>1. List!Last \in Int /\ List!Last < Len(lengths) /\ List!Last = first + chunkSize - 1
      BY <1>0, <1>6, ChunkSpan
    <3>2. first \in Nat \ {0} /\ chunkSize \in Nat /\ n = List!Last - first + 1
      BY <1>0 DEF ListTypes, n
    <3>3. QED
      BY <1>0, <2>1, <3>1, <3>2
  <2>3. Equal' => Len(keys') = first' - 1 /\ FullChunksFit'
    <3>1. Equal => FullChunksFit
      BY <1>0, <2>2, FittingChunkIsFull
    <3>2. FullChunksFit => FullChunksFit'
      BY <1>0 DEF FullChunksFit, List!Patterns
    <3>3. List!Last = first' - 1
      BY <1>0, <2>1, <2>2 DEF ListTypes
    <3>4. QED
      BY <1>3, <3>1, <3>2, <3>3
  <2>4. Listing'
    BY <1>0, <1>2, <1>4, <1>6, <2>2, <2>3 DEF Listing, List!SingleCall
  <2>5. List!EqualPatternsAreComplete'
    BY <2>1 DEF List!EqualPatternsAreComplete
  <2>6. QED
    BY <1>0, <1>2, <1>4, <2>1, <2>2, <2>4, <2>5 DEF ListingInv, ListTypes
<1>7. QED
  BY <1>5, <1>6

LEMMA StopKeeps ==
  ASSUME ListingInv, List!ListFails \/ List!EarlyEnd
  PROVE  ListingInv'
<1>0. ListTypes /\ Listing /\ pc = "listing" /\ UNCHANGED <<lengths, first, chunkSize>> /\ pc' = "returned"
  BY DEF ListingInv, List!ListFails, List!EarlyEnd, List!Return
<1>1. CASE List!ListFails
  <2>1. PICK n \in 0..(List!Last - first + 1), left \in {<<>>, <<0>>} :
          /\ keys' = (keys \o List!KeysOfChunk(n)) \o left /\ result' \in {"error", "canceled"}
          /\ left # <<>> => result' = "canceled"
    BY <1>1 DEF List!ListFails, List!Return, List!NullKey
  <2> DEFINE listed == keys \o List!KeysOfChunk(n)
  <2>2. /\ listed \in Seq(Nat)
        /\ \A i, k \in DOMAIN listed : i < k => listed[i] < listed[k]
        /\ \A i \in DOMAIN listed : listed[i] # 0
    <3>1. result = "ok" /\ \A i \in DOMAIN keys : keys[i] < first
      BY <1>0 DEF Listing
    <3>2. n \in Nat
      BY <1>0, ChunkSpan DEF ListTypes
    <3>3. QED
      BY <1>0, <3>1, <3>2, KeysFollow DEF ListingInv
  <2>3. keys' = listed \o left
    BY <2>1
  <2> HIDE DEF listed
  <2>4. keys' \in Seq(Nat) /\ List!KeysInOrder'
    <3>1. CASE left = <<>>
      <4>1. keys' = listed
        BY <2>2, <2>3, <3>1
      <4>2. QED
        BY <2>2, <4>1 DEF List!KeysInOrder, List!NullKey
    <3>2. CASE left = <<0>>
      <4>1. keys' = Append(listed, 0) /\ result' = "canceled"
        BY <2>1, <2>2, <2>3, <3>2
      <4>2. /\ Len(listed) \in Nat /\ DOMAIN listed = 1..Len(listed) /\ keys' \in Seq(Nat)
            /\ Len(keys') = Len(listed) + 1 /\ DOMAIN keys' = 1..(Len(listed) + 1)
            /\ keys'[Len(listed) + 1] = 0 /\ \A i \in 1..Len(listed) : keys'[i] = listed[i]
        BY <2>2, <4>1
      <4>3. \A i \in DOMAIN keys' : keys'[i] # 0 => i \in 1..Len(listed)
        BY <4>2
      <4>4. \A i, k \in DOMAIN keys' : i < k /\ keys'[k] # 0 => keys'[i] < keys'[k]
        BY <2>2, <4>2, <4>3
      <4>5. \A i \in DOMAIN keys' : keys'[i] = 0 => i = Len(keys') /\ result' = "canceled"
        BY <2>2, <4>1, <4>2
      <4>6. QED
        BY <4>2, <4>4, <4>5 DEF List!KeysInOrder, List!NullKey
    <3>3. QED
      BY <2>1, <3>1, <3>2
  <2>5. List!GivesUpOnlyForALongPattern' /\ List!EqualPatternsAreComplete'
    BY <2>1 DEF List!GivesUpOnlyForALongPattern, List!EqualPatternsAreComplete
  <2>6. QED
    BY <1>0, <2>4, <2>5 DEF ListingInv, ListTypes
<1>2. CASE List!EarlyEnd
  <2>1. keys' = <<>> /\ result' = "ok"
    BY <1>2 DEF List!EarlyEnd, List!Return
  <2>2. List!GivesUpOnlyForALongPattern' /\ List!EqualPatternsAreComplete' /\ List!KeysInOrder'
    BY <2>1 DEF List!GivesUpOnlyForALongPattern, List!EqualPatternsAreComplete, List!KeysInOrder
  <2>3. QED
    BY <1>0, <2>1, <2>2 DEF ListingInv, ListTypes
<1>3. QED
  BY <1>1, <1>2

LEMMA HookKeeps ==
  ASSUME ListingInv, List!ResultHook
  PROVE  ListingInv'
<1>1. pc = "returned" /\ pc' = "reported" /\ UNCHANGED <<lengths, first, chunkSize, keys, result>>
  BY DEF List!ResultHook
<1>2. List!GivesUpOnlyForALongPattern' /\ List!EqualPatternsAreComplete' /\ List!KeysInOrder'
  BY <1>1 DEF ListingInv, List!GivesUpOnlyForALongPattern, List!EqualPatternsAreComplete, List!KeysInOrder,
              List!Patterns
<1>3. QED
  BY <1>1, <1>2 DEF ListingInv, ListTypes

------------------------------------------------------------------------------
(* The listing of a request                                                *)

\* Only one listing is made for a request, which returns before its job does.
ListsOnce == pc # "idle" => stage \in {"listing", "returned", "reported", "gone"}

IInv == OwnerInv /\ ListingInv /\ ListsOnce

LEMMA InitInvariant == Init => IInv
<1> SUFFICES ASSUME Init PROVE IInv
  OBVIOUS
<1>1. /\ lengths = <<>> /\ pc = "idle" /\ first = 1 /\ chunkSize = 0 /\ keys = <<>> /\ result = "ok"
  BY DEF Init
<1>2. ListTypes /\ keys \in Seq(Nat)
  BY <1>1 DEF ListTypes
<1>3. List!GivesUpOnlyForALongPattern /\ List!EqualPatternsAreComplete /\ List!KeysInOrder
  BY <1>1 DEF List!GivesUpOnlyForALongPattern, List!EqualPatternsAreComplete, List!KeysInOrder
<1>4. QED
  BY <1>1, <1>2, <1>3, OwnerInit DEF IInv, ListingInv, ListsOnce

\* list_keys() is entered with all patterns in one chunk.
LEMMA EnterListingKeeps ==
  ASSUME IInv, EnterListing
  PROVE  ListingInv' /\ ListsOnce'
<1>1. /\ pc = "idle" /\ first = 1 /\ keys = <<>> /\ result = "ok" /\ stage' = "listing"
      /\ UNCHANGED <<first, keys, result>> /\ pc' = "listing"
      /\ lengths' = PatternsOf(req) /\ chunkSize' = Len(lengths')
  BY DEF IInv, ListingInv, ListsOnce, EnterListing
<1>2. lengths' \in Seq(Nat)
  BY <1>1, PatternLengths DEF IInv, OwnerInv, EnterListing
<1>3. ListTypes' /\ keys' \in Seq(Nat) /\ Len(lengths') \in Nat
  BY <1>1, <1>2 DEF ListTypes
<1>4. Listing'
  BY <1>1, <1>3 DEF Listing, List!SingleCall
<1>5. List!GivesUpOnlyForALongPattern' /\ List!EqualPatternsAreComplete' /\ List!KeysInOrder'
  BY <1>1 DEF List!GivesUpOnlyForALongPattern, List!EqualPatternsAreComplete, List!KeysInOrder
<1>6. QED
  BY <1>1, <1>3, <1>4, <1>5 DEF ListingInv, ListsOnce

\* Nothing else that the worker function does has to do with the listing.
LEMMA OtherWorkerSteps ==
  ASSUME EnterWorker \/ NoPartFile \/ NothingToRefresh \/ ReturnEarly \/ CallEngine \/ CallImport
         \/ RunProcess \/ CallList \/ TakeLog \/ ListingReturns \/ ProcessSends \/ ReadDevice \/ DataStep
  PROVE  UNCHANGED listVars /\ (stage = "listing" => stage' = "returned")
<1>1. CASE EnterWorker \/ NoPartFile \/ NothingToRefresh
  BY <1>1 DEF EnterWorker, NoPartFile, NothingToRefresh
<1>2. CASE ReturnEarly \/ CallEngine \/ CallImport \/ RunProcess \/ CallList \/ TakeLog
  BY <1>2 DEF ReturnEarly, CallEngine, CallImport, RunProcess, CallList, TakeLog, IsNext
<1>3. CASE ListingReturns \/ ProcessSends \/ ReadDevice
  BY <1>3 DEF ListingReturns, ProcessSends, ReadDevice, IsNext
<1>4. CASE DataStep
  BY <1>4, DataStays
<1>5. QED
  BY <1>1, <1>2, <1>3, <1>4

LEMMA ListingPartStep ==
  ASSUME IInv, [Next]_vars
  PROVE  ListingInv' /\ ListsOnce'
<1>0. ListingInv /\ ListsOnce
  BY DEF IInv
<1>1. CASE CreateJob \/ Configure \/ Reconfigure \/ Start \/ StartNow \/ Tick
  <2>1. UNCHANGED listVars /\ stage \notin {"listing", "returned", "reported", "gone"}
    BY <1>1 DEF CreateJob, Configure, Reconfigure, Start, StartNow, Tick
  <2>2. QED
    BY <1>0, <2>1, ListingKept DEF ListsOnce, listVars
<1>2. CASE Report
  <2>1. stage' = "reported" /\ (List!ResultHook \/ UNCHANGED listVars)
    BY <1>2 DEF Report
  <2>2. QED
    BY <1>0, <2>1, ListingKept, HookKeeps DEF ListsOnce
<1>3. CASE DeferredDelete \/ DeleteWrapper
  <2>1. UNCHANGED listVars /\ stage' \in {"reported", "gone"}
    BY <1>3 DEF DeferredDelete, DeleteWrapper
  <2>2. QED
    BY <1>0, <2>1, ListingKept DEF ListsOnce
<1>4. CASE EnterListing
  BY <1>4, EnterListingKeeps
<1>5. CASE ListingStep \/ ListingStops
  <2>1. /\ stage = "listing" /\ UNCHANGED stage
        /\ List!Retry \/ List!ListChunk \/ List!ListFails \/ List!EarlyEnd
    BY <1>5 DEF ListingStep, ListingStops
  <2>2. QED
    BY <1>0, <2>1, RetryKeeps, ListChunkKeeps, StopKeeps DEF ListsOnce
<1>6. CASE ChooseKey \/ RefreshEnds
  <2>1. stage' = "returned" /\ List!ResultHook
    BY <1>6 DEF ChooseKey, RefreshEnds
  <2>2. QED
    BY <1>0, <2>1, HookKeeps DEF ListsOnce
<1>7. CASE EnterWorker \/ NoPartFile \/ NothingToRefresh \/ ReturnEarly \/ CallEngine \/ CallImport
           \/ RunProcess \/ CallList \/ TakeLog \/ ListingReturns \/ ProcessSends \/ ReadDevice \/ DataStep
  <2>1. UNCHANGED listVars /\ (stage = "listing" => stage' = "returned")
    BY <1>7, OtherWorkerSteps
  <2>2. stage \notin {"returned", "reported", "gone"}
    BY <1>7, WorkerStays DEF WorkerStep, Running
  <2>3. QED
    BY <1>0, <2>1, <2>2, ListingKept DEF ListsOnce, listVars
<1>8. CASE UNCHANGED vars
  BY <1>0, <1>8, ListingKept DEF vars, ListsOnce, listVars
<1>9. QED
  BY <1>1, <1>2, <1>3, <1>4, <1>5, <1>6, <1>7, <1>8 DEF Next, WorkerStep

\* The inductive invariant.
THEOREM InductiveInvariant == Spec => []IInv
<1>1. IInv /\ [Next]_vars => IInv'
  BY OwnerStep, ListingPartStep DEF IInv
<1>2. QED
  BY <1>1, InitInvariant, PTL DEF Spec

\* Trying again with smaller chunks never lists a key twice, and keeps the order of the
\* patterns; and patterns of the same length are all listed (list_keys() and do_list_keys()
\* of the key list job, wherever it is used).
THEOREM ListedInOrder == Spec => []KeysInOrder
<1>1. IInv => KeysInOrder
  BY DEF IInv, ListingInv, KeysInOrder
<1>2. QED
  BY <1>1, InductiveInvariant, PTL

\* A listing only gives up with LINE_TOO_LONG for a pattern that is too long by itself.
THEOREM GivesUpRightly == Spec => []GivesUpOnlyForALongPattern
<1>1. IInv => GivesUpOnlyForALongPattern
  BY DEF IInv, ListingInv, GivesUpOnlyForALongPattern
<1>2. QED
  BY <1>1, InductiveInvariant, PTL

------------------------------------------------------------------------------
(* What the worker function has called, and what the result says of it     *)

IsSequence(s) == \E S : s \in Seq(S)

\* The worker function may go on after such a call, and with such a one report no error.
MayGoOn(call) == call.outcome = "ok" \/ GoesOn(call)
Forgiven(call) == call.outcome = "ok" \/ (GoesOn(call) /\ call.outcome = "canceled")

Before == {"asked", "no job", "created", "refused", "idle", "prepared", "started", "listing"}

\* While the worker function runs no call stopped it, and unless the code is an error,
\* there is nothing to report of the calls so far.
MadeInv ==
  /\ IsSequence(made)
  /\ stage \in Before => made = <<>>
  /\ stage \in {"prepared", "started"} => code = "ok"
  /\ \A i \in DOMAIN made : made[i].op = "list" => req.kind = "listAllKeys"
  /\ \A i \in DOMAIN made : i < Len(made) \/ stage = "working" => MayGoOn(made[i])
  /\ (stage = "working" /\ code # "failed") \/ (stage \in Ended \cup {"logging"} /\ code = "ok") =>
       \A i \in DOMAIN made : Forgiven(made[i])

\* The calls of the worker functions that go on after an error, and of those that have a
\* code of their own.
TodoInv ==
  /\ stage = "working" /\ req.kind = "listAllKeys" => todo \in {list_keys_legacy, <<Ask("list", "secret")>>, do_list_keys}
  /\ stage = "working" /\ req.kind = "import" => \E what : todo = <<Ask("importKeys", what)>>

ImportInv == req.kind = "import" =>
  /\ "statuses" \in DOMAIN found
  /\ stage \in {"prepared", "started"} => code = "ok"
  /\ stage \in {"working", "logging"} \cup Ended /\ code = "BAD_PASSPHRASE" =>
       found.statuses = {"BAD_PASSPHRASE"} /\ \E i \in DOMAIN made : made[i].outcome = "failed"

LogInv ==
  /\ stage \notin Ended => log = NoLog
  /\ stage = "logging" \/ log # NoLog => made # <<>> /\ made[Len(made)].op # "addSigningKey"
  /\ stage = "logging" /\ code = "failed" => made[Len(made)].outcome = "failed"
  /\ log.text = "audit log" => ctx.protocol = CMS /\ code # "failed"

\* A call that comes back is the last of those that were made.
LEMMA CallMade ==
  ASSUME IsSequence(made), stage = "working", NEW call, NEW outcome, Goes(call, outcome)
  PROVE  /\ IsSequence(made') /\ Len(made) \in Nat /\ made' # <<>>
         /\ Len(made') = Len(made) + 1 /\ DOMAIN made = 1..Len(made) /\ DOMAIN made' = 1..Len(made')
         /\ \A i \in DOMAIN made : made'[i] = made[i]
         /\ made'[Len(made')].op = call.op /\ made'[Len(made')].outcome = outcome
         /\ made'[Len(made')].what = call.what /\ made'[Len(made')].at = clock
         /\ made'[Len(made')].ctx = [ctx EXCEPT !.mode = ModeOf(call)]
         /\ GoesOn(made'[Len(made')]) <=> GoesOn(call)
         /\ stage' \in {"working", "logging", "returned"}
         /\ stage' = "working" => todo' = Tail(todo) /\ todo' # <<>> /\ (outcome = "ok" \/ GoesOn(call))
         /\ stage' = "logging" => HasLog(call)
<1> DEFINE new == [op |-> call.op, what |-> call.what, outcome |-> outcome, at |-> clock,
                   ctx |-> [ctx EXCEPT !.mode = ModeOf(call)]]
<1>1. PICK S : made \in Seq(S)
  BY DEF IsSequence
<1>2. made' = Append(made, new)
  BY DEF Goes
<1>3. /\ new.op = call.op /\ new.what = call.what /\ new.outcome = outcome /\ new.at = clock
      /\ new.ctx = [ctx EXCEPT !.mode = ModeOf(call)]
  OBVIOUS
<1> HIDE DEF new
<1>4. made' \in Seq(S \cup {new})
  BY <1>1, <1>2
<1>5. /\ Len(made) \in Nat /\ Len(made') = Len(made) + 1
      /\ DOMAIN made = 1..Len(made) /\ DOMAIN made' = 1..Len(made')
      /\ \A i \in DOMAIN made : made'[i] = made[i]
      /\ made'[Len(made')] = new /\ made' # <<>>
  BY <1>1, <1>2
<1>6. GoesOn(new) <=> GoesOn(call)
  BY <1>3 DEF GoesOn
<1>7. /\ stage' \in {"working", "logging", "returned"}
      /\ stage' = "working" => todo' = Tail(todo) /\ todo' # <<>> /\ (outcome = "ok" \/ GoesOn(call))
      /\ stage' = "logging" => HasLog(call)
  BY DEF Goes, Stops
<1>8. IsSequence(made')
  BY <1>4 DEF IsSequence
<1>9. QED
  BY <1>3, <1>5, <1>6, <1>7, <1>8

\* Whatever the call, the job passes on how it ended.
LEMMA MadeAfterCall ==
  ASSUME MadeInv, stage = "working", UNCHANGED req, NEW call, NEW outcome, Goes(call, outcome),
         call.op = "list" => req.kind = "listAllKeys",
         code' = "ok" => outcome = "ok",
         req.kind = "listAllKeys" => outcome \in Outcomes /\ code' = MergedCode(code, outcome)
  PROVE  MadeInv'
<1> DEFINE new == made'[Len(made')]
<1>1. /\ IsSequence(made') /\ Len(made) \in Nat /\ Len(made') = Len(made) + 1
      /\ DOMAIN made = 1..Len(made) /\ DOMAIN made' = 1..Len(made')
      /\ \A i \in DOMAIN made : made'[i] = made[i]
      /\ new.op = call.op /\ new.outcome = outcome /\ (GoesOn(new) <=> GoesOn(call))
      /\ stage' \in {"working", "logging", "returned"}
      /\ stage' = "working" => outcome = "ok" \/ GoesOn(call)
  BY CallMade DEF MadeInv
<1> HIDE DEF new
<1>2. \A i \in DOMAIN made' : (i \in DOMAIN made /\ made'[i] = made[i]) \/ (i = Len(made') /\ made'[i] = new)
  BY <1>1 DEF new
<1>3. \A i \in DOMAIN made : MayGoOn(made[i]) /\ (made[i].op = "list" => req.kind = "listAllKeys")
  BY DEF MadeInv
<1>4. \A i \in DOMAIN made' : made'[i].op = "list" => req'.kind = "listAllKeys"
  BY <1>1, <1>2, <1>3
<1>5. \A i \in DOMAIN made' : i < Len(made') \/ stage' = "working" => MayGoOn(made'[i])
  <2>1. stage' = "working" => MayGoOn(new)
    BY <1>1 DEF MayGoOn
  <2>2. QED
    BY <1>1, <1>2, <1>3, <2>1
<1>6. ASSUME (stage' = "working" /\ code' # "failed") \/ (stage' \in Ended \cup {"logging"} /\ code' = "ok")
      PROVE  \A i \in DOMAIN made' : Forgiven(made'[i])
  <2>1. CASE req.kind = "listAllKeys"
    <3>1. code # "failed" /\ outcome # "failed" /\ (outcome # "ok" => stage' = "working" /\ outcome = "canceled")
      BY <1>6, <2>1 DEF MergedCode, Outcomes
    <3>2. \A i \in DOMAIN made : Forgiven(made[i])
      BY <3>1 DEF MadeInv
    <3>3. Forgiven(new)
      BY <1>1, <3>1 DEF Forgiven
    <3>4. QED
      BY <1>2, <3>2, <3>3
  <2>2. CASE req.kind # "listAllKeys"
    <3>1. \A i \in DOMAIN made : made[i].outcome = "ok"
      BY <1>3, <2>2 DEF MayGoOn, GoesOn
    <3>2. outcome = "ok"
      BY <1>1, <1>6, <2>2 DEF GoesOn
    <3>3. QED
      BY <1>1, <1>2, <3>1, <3>2 DEF Forgiven
  <2>3. QED
    BY <2>1, <2>2
<1>7. QED
  BY <1>1, <1>4, <1>5, <1>6 DEF MadeInv, Before

LEMMA LogAfterCall ==
  ASSUME MadeInv, LogInv, stage = "working", UNCHANGED <<req, log, ctx>>, NEW call, NEW outcome,
         Goes(call, outcome), HasLog(call) /\ code' = "failed" => outcome = "failed"
  PROVE  LogInv'
<1>1. /\ made' # <<>> /\ made'[Len(made')].op = call.op /\ made'[Len(made')].outcome = outcome
      /\ stage' = "logging" => HasLog(call)
  BY CallMade DEF MadeInv
<1>2. log' = NoLog
  BY DEF LogInv, Ended
<1>3. QED
  BY <1>1, <1>2 DEF LogInv, HasLog, NoLog

CallsInv == MadeInv /\ TodoInv /\ ImportInv /\ LogInv

LEMMA CallsInit == Init => CallsInv
<1> SUFFICES ASSUME Init PROVE CallsInv
  OBVIOUS
<1>1. stage = "asked" /\ made = <<>> /\ log = NoLog /\ found = NothingFound
  BY DEF Init
<1>2. IsSequence(made)
  <2>1. made \in Seq({})
    BY <1>1
  <2>2. QED
    BY <2>1 DEF IsSequence
<1>3. QED
  BY <1>1, <1>2 DEF CallsInv, MadeInv, TodoInv, ImportInv, LogInv, Ended, NoLog, NothingFound

\* What the two worker functions that are not just stopped by an error do.
LEMMA ProgramOf ==
  ASSUME NEW r, NEW c, NEW s, NEW now
  PROVE  /\ r.kind = "listAllKeys" => Program(r, c, s, now) = list_keys(r.version)
         /\ r.kind = "import" => Program(r, c, s, now) = import_qba(s)
  BY DEF Program, FileJobKinds, Exports

\* Before the worker function nothing was called.
LEMMA CallsBefore ==
  ASSUME CallsInv, stage \in Before, UNCHANGED <<req, made, log, found>>,
         stage' \notin {"working", "logging"},
         stage' \in {"prepared", "started"} => code' = "ok",
         req.kind = "import" => stage' \notin Ended
  PROVE  CallsInv'
<1>1. made = <<>> /\ log = NoLog
  BY DEF CallsInv, MadeInv, LogInv, Before, Ended
<1>2. MadeInv'
  BY <1>1 DEF CallsInv, MadeInv
<1>3. LogInv'
  BY <1>1 DEF LogInv, NoLog
<1>4. QED
  BY <1>2, <1>3 DEF CallsInv, TodoInv, ImportInv

LEMMA CallsOutside ==
  ASSUME CallsInv, CreateJob \/ Configure \/ Reconfigure \/ Start \/ StartNow
  PROVE  CallsInv'
<1>1. CASE CreateJob \/ Configure
  <2>1. /\ stage \in Before /\ UNCHANGED <<req, made, log, found, code>>
        /\ stage' \in {"crashed", "no job", "created"}
    BY <1>1 DEF CreateJob, Configure, resultVars, Before
  <2>2. QED
    BY <2>1, CallsBefore DEF Ended
<1>2. CASE Reconfigure \/ StartNow
  <2>1. /\ stage \in {"prepared", "started"} /\ UNCHANGED <<req, made, log, found, code>>
        /\ stage' \in {"prepared", "started"}
    BY <1>2 DEF Reconfigure, StartNow, resultVars
  <2>2. stage \in Before /\ code = "ok"
    BY <2>1 DEF Before, CallsInv, MadeInv
  <2>3. QED
    BY <2>1, <2>2, CallsBefore DEF Ended
<1>3. CASE Start
  <2>1. /\ stage = "created" /\ UNCHANGED <<req, made, log, found>>
        /\ stage' \in {"refused", "prepared", "idle", "started"}
        /\ stage' # "refused" => code' = "ok"
    BY <1>3 DEF Start
  <2>2. QED
    BY <2>1, CallsBefore DEF Before, Ended
<1>4. QED
  BY <1>1, <1>2, <1>3

\* Neither time nor data change what was called, nor does what comes after the worker
\* function.
LEMMA CallsKept ==
  ASSUME CallsInv, UNCHANGED <<req, ctx, resultVars>>,
         \/ UNCHANGED stage
         \/ stage = "working" /\ stage' = "crashed"
         \/ stage \in {"returned", "reported"} /\ stage' \in Ended
  PROVE  CallsInv'
<1>1. MadeInv'
  BY DEF CallsInv, MadeInv, resultVars, IsSequence, Before, Ended, MayGoOn, Forgiven, GoesOn
<1>2. TodoInv' /\ ImportInv' /\ LogInv'
  BY DEF CallsInv, TodoInv, ImportInv, LogInv, resultVars, Ended
<1>3. QED
  BY <1>1, <1>2 DEF CallsInv

LEMMA CallsFrame ==
  ASSUME CallsInv,
         \/ Tick \/ Report \/ DeferredDelete \/ DeleteWrapper \/ ListingStep \/ ListingStops
         \/ ProcessSends \/ ReadDevice \/ DataStep \/ UNCHANGED vars
  PROVE  CallsInv'
<1>1. CASE Tick \/ ListingStep \/ ListingStops \/ ProcessSends \/ ReadDevice \/ UNCHANGED vars
  <2>1. UNCHANGED <<req, ctx, resultVars, stage>>
    BY <1>1 DEF Tick, ListingStep, ListingStops, ProcessSends, ReadDevice, vars
  <2>2. QED
    BY <2>1, CallsKept
<1>2. CASE DataStep
  <2>1. /\ UNCHANGED <<req, ctx, resultVars>>
        /\ UNCHANGED stage \/ (stage = "working" /\ stage' = "crashed")
    BY <1>2, DataStays DEF resultVars
  <2>2. QED
    BY <2>1, CallsKept
<1>3. CASE Report \/ DeferredDelete \/ DeleteWrapper
  <2>1. /\ UNCHANGED <<req, ctx, resultVars>> /\ stage \in {"returned", "reported"} /\ stage' \in Ended
    BY <1>3 DEF Report, DeferredDelete, DeleteWrapper, Ended
  <2>2. QED
    BY <2>1, CallsKept
<1>4. QED
  BY <1>1, <1>2, <1>3

\* The worker function is entered, or there is none of the calls in it.
LEMMA CallsEnter ==
  ASSUME CallsInv,
         \/ EnterWorker \/ NoPartFile \/ EnterListing \/ NothingToRefresh
         \/ ListingReturns \/ ChooseKey \/ RefreshEnds
  PROVE  CallsInv'
<1>1. CASE EnterWorker
  <2>1. /\ stage = "started" /\ stage' = "working" /\ UNCHANGED <<req, made, code, found, log>>
        /\ \E c, s, now : todo' = Program(req, c, s, now)
    BY <1>1 DEF EnterWorker
  <2>2. made = <<>> /\ log = NoLog /\ code = "ok"
    BY <2>1 DEF CallsInv, MadeInv, LogInv, Before, Ended
  <2>3. MadeInv'
    BY <2>1, <2>2 DEF CallsInv, MadeInv, Before
  <2>4. LogInv'
    BY <2>1, <2>2 DEF LogInv, NoLog
  <2>5. ImportInv'
    BY <2>1, <2>2 DEF CallsInv, ImportInv
  <2>6. TodoInv'
    <3>1. PICK c, s, now : todo' = Program(req, c, s, now)
      BY <2>1
    <3>2. req.kind = "listAllKeys" => todo' \in {list_keys_legacy, do_list_keys}
      BY <3>1, ProgramOf DEF list_keys
    <3>3. req.kind = "import" => \E what : todo' = <<Ask("importKeys", what)>>
      <4>1. \A t : \E what : import_qba(t) = <<Ask("importKeys", what)>>
        BY Zenon DEF import_qba
      <4>2. req.kind = "import" => todo' = import_qba(s)
        BY <3>1, ProgramOf
      <4>3. QED
        BY <4>1, <4>2
    <3>4. QED
      BY <2>1, <3>2, <3>3 DEF TodoInv
  <2>7. QED
    BY <2>3, <2>4, <2>5, <2>6 DEF CallsInv
<1>2. CASE ~EnterWorker
  <2>1. /\ stage \in {"started", "listing"} /\ stage' \in {"returned", "listing"}
        /\ UNCHANGED <<req, made, log>>
    BY <1>2 DEF NoPartFile, EnterListing, NothingToRefresh, ListingReturns, ChooseKey, RefreshEnds, resultVars
  <2>2. req.kind # "import"
    BY <1>2 DEF NoPartFile, EnterListing, NothingToRefresh, ListingReturns, ChooseKey, RefreshEnds,
                ListingKinds, NestingKinds, WithPartFile, FileJobKinds
  <2>3. made = <<>> /\ log = NoLog
    BY <2>1 DEF CallsInv, MadeInv, LogInv, Before, Ended
  <2>4. MadeInv'
    BY <2>1, <2>3 DEF CallsInv, MadeInv, Before
  <2>5. LogInv'
    BY <2>1, <2>3 DEF LogInv, NoLog
  <2>6. QED
    BY <2>1, <2>2, <2>4, <2>5 DEF CallsInv, ImportInv, TodoInv
<1>3. QED
  BY <1>1, <1>2

\* No error of a process looks like one of GpgME.
LEMMA ProcessCodes ==
  ASSUME NEW arguments, NEW end
  PROVE  /\ ProcessCode(arguments, end) # "failed"
         /\ ProcessCode(arguments, end) = "ok" => end = "exit 0"
  BY DEF ProcessCode, CardCode, WksCode

LEMMA OneCall ==
  ASSUME NEW call
  PROVE  Head(<<call>>) = call /\ Tail(<<call>>) = <<>> /\ <<call>> # <<>>
  OBVIOUS

LEMMA HeadOfList ==
  ASSUME todo \in {list_keys_legacy, <<Ask("list", "secret")>>, do_list_keys}
  PROVE  /\ todo # <<>> /\ Head(todo).op = "list"
         /\ Tail(todo) = <<>> \/ Tail(todo) = <<Ask("list", "secret")>>
<1>1. Ask("list", "public").op = "list" /\ Ask("list", "secret").op = "list" /\ Ask("list", "all").op = "list"
  BY DEF Ask
<1>2. CASE todo = list_keys_legacy
  <2>1. todo = <<Ask("list", "public"), Ask("list", "secret")>>
    BY <1>2 DEF list_keys_legacy
  <2>2. Head(todo) = Ask("list", "public") /\ Tail(todo) = <<Ask("list", "secret")>> /\ todo # <<>>
    BY <2>1
  <2>3. QED
    BY <1>1, <2>2
<1>3. CASE todo = <<Ask("list", "secret")>> \/ todo = do_list_keys
  <2>1. todo = <<Ask("list", "secret")>> \/ todo = <<Ask("list", "all")>>
    BY <1>3 DEF do_list_keys
  <2>2. /\ Head(todo) = Ask("list", "secret") \/ Head(todo) = Ask("list", "all")
        /\ Tail(todo) = <<>> /\ todo # <<>>
    BY <2>1, OneCall
  <2>3. QED
    BY <1>1, <2>2
<1>4. QED
  BY <1>2, <1>3

\* The calls of the jobs that neither list all keys nor import.
LEMMA CallsOther ==
  ASSUME CallsInv, CallEngine \/ RunProcess \/ ReturnEarly \/ TakeLog
  PROVE  CallsInv'
<1>1. CASE TakeLog
  <2>1. /\ stage = "logging" /\ stage' = "returned" /\ UNCHANGED <<req, ctx, made, code, found>>
        /\ \E logCode : log' = audit_log_as_html(ctx.protocol, made[Len(made)].outcome, logCode)
    BY <1>1 DEF TakeLog, Last
  <2>2. log'.text = "audit log" => ctx.protocol = CMS /\ made[Len(made)].outcome # "failed"
    <3>1. PICK logCode : log' = audit_log_as_html(ctx.protocol, made[Len(made)].outcome, logCode)
      BY <2>1
    <3>2. log'.text = CASE logCode # "ok" -> "the error"
                        [] logCode = "ok" /\ ctx.protocol = CMS /\ made[Len(made)].outcome # "failed" -> "audit log"
                        [] OTHER -> "diagnostics"
      BY <3>1 DEF audit_log_as_html
    <3>3. QED
      BY <3>2
  <2>3. LogInv'
    BY <2>1, <2>2 DEF CallsInv, LogInv, Ended
  <2>4. MadeInv'
    BY <2>1 DEF CallsInv, MadeInv, IsSequence, Before, Ended, MayGoOn, Forgiven, GoesOn
  <2>5. QED
    BY <2>1, <2>3, <2>4 DEF CallsInv, TodoInv, ImportInv, Ended
<1>2. CASE CallEngine \/ RunProcess \/ ReturnEarly
  <2>1. stage = "working" /\ todo # <<>> /\ Head(todo).op \notin {"list", "importKeys"} /\ UNCHANGED <<req, ctx, found, log>>
    BY <1>2 DEF CallEngine, RunProcess, ReturnEarly, IsNext, Special
  <2>2. req.kind # "listAllKeys"
    BY <2>1, HeadOfList DEF CallsInv, TodoInv
  <2>3. req.kind # "import"
    BY <2>1 DEF CallsInv, TodoInv, Ask
  <2>4. CASE ReturnEarly
    <3>1. stage' = "returned" /\ UNCHANGED made
      BY <2>4 DEF ReturnEarly
    <3>2. \A i \in DOMAIN made : made[i].op # "list" /\ made[i].outcome = "ok"
      BY <2>1, <2>2 DEF CallsInv, MadeInv, MayGoOn, GoesOn
    <3>3. MadeInv'
      BY <2>1, <3>1, <3>2 DEF CallsInv, MadeInv, IsSequence, MayGoOn, Forgiven, Before
    <3>4. LogInv'
      <4>1. log' = NoLog /\ NoLog.text = "none"
        BY <2>1 DEF CallsInv, LogInv, Ended, NoLog
      <4>2. QED
        BY <3>1, <4>1 DEF LogInv
    <3>5. QED
      BY <2>2, <2>3, <2>1, <3>1, <3>3, <3>4 DEF CallsInv, TodoInv, ImportInv
  <2>5. CASE CallEngine \/ RunProcess
    <3>1. PICK outcome : /\ Goes(Head(todo), outcome)
                         /\ code' = "ok" => outcome = "ok"
                         /\ code' = "failed" => outcome = "failed"
      <4>1. CASE CallEngine
        BY <4>1 DEF CallEngine
      <4>2. CASE RunProcess
        BY <4>2, ProcessCodes DEF RunProcess
      <4>3. QED
        BY <2>5, <4>1, <4>2
    <3>2. MadeInv'
      BY <2>1, <2>2, <3>1, MadeAfterCall DEF CallsInv
    <3>3. LogInv'
      BY <2>1, <3>1, LogAfterCall DEF CallsInv
    <3>4. QED
      BY <2>1, <2>2, <2>3, <3>2, <3>3 DEF CallsInv, TodoInv, ImportInv
  <2>6. QED
    BY <1>2, <2>4, <2>5
<1>3. QED
  BY <1>1, <1>2

\* An import fails with BAD_PASSPHRASE for nothing else.
LEMMA CallsImport ==
  ASSUME CallsInv, CallImport
  PROVE  CallsInv'
<1>1. PICK outcome \in Outcomes, statuses \in SUBSET {"ok", "BAD_PASSPHRASE"} :
        /\ Goes(Head(todo), outcome) /\ code' = ImportCode(outcome, statuses)
        /\ found' = [found EXCEPT !.statuses = statuses]
  BY DEF CallImport
<1>2. stage = "working" /\ todo # <<>> /\ Head(todo).op = "importKeys" /\ UNCHANGED <<req, ctx, log>>
  BY DEF CallImport, IsNext
<1>3. /\ code' = "ok" => outcome = "ok"
      /\ code' = "failed" => outcome = "failed"
      /\ code' = "BAD_PASSPHRASE" => statuses = {"BAD_PASSPHRASE"} /\ outcome = "failed"
  BY <1>1 DEF ImportCode, Outcomes
<1>4. req.kind # "listAllKeys"
  BY <1>2, HeadOfList DEF CallsInv, TodoInv
<1>5. MadeInv'
  BY <1>1, <1>2, <1>3, <1>4, MadeAfterCall DEF CallsInv
<1>6. LogInv'
  BY <1>1, <1>2, <1>3, LogAfterCall DEF CallsInv
<1>7. /\ stage' \in {"working", "logging", "returned"}
      /\ Len(made') \in DOMAIN made' /\ made'[Len(made')].outcome = outcome
      /\ stage' = "working" => todo' = Tail(todo) /\ todo' # <<>>
  <2>1. IsSequence(made)
    BY DEF CallsInv, MadeInv
  <2>2. /\ Len(made) \in Nat /\ Len(made') = Len(made) + 1 /\ DOMAIN made' = 1..Len(made')
        /\ made'[Len(made')].outcome = outcome /\ stage' \in {"working", "logging", "returned"}
        /\ stage' = "working" => todo' = Tail(todo) /\ todo' # <<>>
    BY <1>1, <1>2, <2>1, CallMade
  <2>3. QED
    BY <2>2
<1>8. TodoInv'
  <2>1. req.kind = "import" => stage' # "working"
    <3>1. SUFFICES ASSUME req.kind = "import" PROVE stage' # "working"
      OBVIOUS
    <3>2. PICK what : todo = <<Ask("importKeys", what)>>
      BY <1>2, <3>1 DEF CallsInv, TodoInv
    <3>3. Tail(todo) = <<>>
      BY <3>2
    <3>4. QED
      BY <1>7, <3>3
  <2>2. QED
    BY <1>2, <1>4, <2>1 DEF TodoInv
<1>9. ImportInv'
  <2>1. SUFFICES ASSUME req.kind = "import" PROVE ImportInv'
    BY <1>2 DEF ImportInv
  <2>2. "statuses" \in DOMAIN found
    BY <2>1 DEF CallsInv, ImportInv
  <2>3. found'.statuses = statuses /\ "statuses" \in DOMAIN found'
    BY <1>1, <2>2
  <2>4. QED
    BY <1>3, <1>7, <2>3 DEF ImportInv, Ended
<1>10. QED
  BY <1>5, <1>6, <1>8, <1>9 DEF CallsInv

\* The second listing of an older engine does not hide that the first failed.
LEMMA CallsList ==
  ASSUME CallsInv, CallList
  PROVE  CallsInv'
<1>1. PICK outcome \in Outcomes : Goes(Head(todo), outcome) /\ code' = MergedCode(code, outcome)
  BY DEF CallList
<1>2. /\ stage = "working" /\ todo # <<>> /\ Head(todo).op = "list" /\ UNCHANGED <<req, ctx, log>>
      /\ req.kind = "listAllKeys"
  BY DEF CallList, IsNext
<1>3. MadeInv'
  <2>1. code' = "ok" => outcome = "ok"
    BY <1>1 DEF MergedCode
  <2>2. QED
    BY <1>1, <1>2, <2>1, MadeAfterCall DEF CallsInv
<1>4. ~HasLog(Head(todo))
  BY <1>2 DEF HasLog, NoLogKinds
<1>5. LogInv'
  BY <1>1, <1>2, <1>4, LogAfterCall DEF CallsInv
<1>6. stage' = "working" => todo' = Tail(todo) /\ todo' # <<>>
  <2>1. IsSequence(made)
    BY DEF CallsInv, MadeInv
  <2>2. QED
    BY <1>1, <1>2, <2>1, CallMade
<1>7. TodoInv'
  BY <1>2, <1>6, HeadOfList DEF CallsInv, TodoInv
<1>8. QED
  BY <1>2, <1>3, <1>5, <1>7 DEF CallsInv, ImportInv

LEMMA CallsStep ==
  ASSUME CallsInv, [Next]_vars
  PROVE  CallsInv'
  BY CallsOutside, CallsFrame, CallsEnter, CallsOther, CallsImport, CallsList DEF Next, WorkerStep

\* The result says no more and no less than the calls: without an error all of them
\* succeeded, none follows one that failed or was cancelled, only bad passphrases are
\* blamed on the passphrase, and the audit log is that of the last call (the worker
\* functions and audit_log_as_html() in threadedjobmixin.cpp).
THEOREM ResultsAreTrue == Spec => []TruthfulReport
<1>1. CallsInv => TruthfulReport
  <2> SUFFICES ASSUME CallsInv PROVE TruthfulReport
    OBVIOUS
  <2>1. \A i \in DOMAIN made : i < Len(made) => made[i].outcome = "ok" \/ GoesOn(made[i])
    BY DEF CallsInv, MadeInv, MayGoOn
  <2>2. stage \in Ended /\ code = "ok" =>
          \A call \in Calls : call.outcome = "ok" \/ (GoesOn(call) /\ call.outcome = "canceled")
    BY DEF CallsInv, MadeInv, Forgiven, Calls
  <2>3. stage \in Ended /\ req.kind = "import" /\ code = "BAD_PASSPHRASE" =>
          found.statuses = {"BAD_PASSPHRASE"} /\ \E call \in Calls : call.outcome = "failed"
    BY DEF CallsInv, ImportInv, Calls
  <2>4. log.text # "none" => made # <<>> /\ Last(made).op # "addSigningKey"
    <3>1. NoLog.text = "none" /\ Last(made) = made[Len(made)]
      BY DEF NoLog, Last
    <3>2. QED
      BY <3>1 DEF CallsInv, LogInv
  <2>5. log.text = "audit log" => ctx.protocol = CMS /\ code # "failed"
    BY DEF CallsInv, LogInv
  <2>6. QED
    BY <2>1, <2>2, <2>3, <2>4, <2>5 DEF TruthfulReport
<1>2. QED
  BY <1>1, CallsInit, CallsStep, PTL DEF Spec

------------------------------------------------------------------------------
(* Where the engine looks for keys                                         *)

Fields == {"protocol", "mode", "armor", "textMode", "offline", "exportMode", "allSignatures", "trustCheck"}

AskedOfListing(call) ==
  /\ call.ctx.mode \ {"WithSecret"} = ModeAsked
  /\ req.a.validate => call.ctx.offline
  /\ req.version >= V2_1_0 => (call.ctx.trustCheck <=> req.a.set.options = {})

\* The context is as the factory has made it, but while a listing is nested in the worker
\* function, and after the one for a mailbox.
ModeInv ==
  /\ stage \notin {"asked", "crashed", "no job"} =>
       /\ DOMAIN ctx = Fields
       /\ stage # "listing" /\ (stage \in Ended => req.kind # "keyForMailbox") =>
            ctx.mode = ContextFor(req).mode
       /\ stage = "listing" => ctx.mode = ModeAsked
       /\ req.kind = "listAllKeys" /\ req.a.validate => ctx.offline
  /\ req.kind = "listAllKeys" /\ stage \in {"prepared", "started"} => bound.options = req.a.set.options
  /\ req.kind = "listAllKeys" /\ stage = "working" => ctx.trustCheck = TrustCheck(req.a.set.options, req.version)
  /\ \A i \in DOMAIN made : made[i].op = "list" => AskedOfListing(made[i])

\* What the factories make.
LEMMA Contexts ==
  ASSUME NEW r
  PROVE  /\ DOMAIN ContextFor(r) = Fields
         /\ r.kind = "listAllKeys" /\ r.a.validate => ContextFor(r).offline
<1> DEFINE c == NewContext(r.protocol)
<1>1. DOMAIN c = Fields
  BY DEF NewContext, Fields
<1>2. c.offline = FALSE
  BY DEF NewContext
<1>3. ContextFor(r) =
        CASE r.kind = "keyList" -> keyListJob(c, r.a.remote, r.a.includeSigs, FALSE)
          [] r.kind = "listAllKeys" -> listAllKeysJob(c, r.a.includeSigs, r.a.validate)
          [] r.kind = "locateKeys" -> locateKeysJob(c)
          [] r.kind = "download" -> downloadJob(c, TRUE)
          [] r.kind = "encrypt" -> armoredJob(c, TRUE, FALSE)
          [] r.kind = "verify" -> textModeJob(c, TRUE)
          [] r.kind = "export" -> publicKeyExportJob(c, TRUE)
          [] r.kind = "secretExport" -> secretKeyExportJob(c, TRUE)
          [] r.kind = "secretSubkeyExport" -> secretSubkeyExportJob(c, TRUE)
          [] r.kind \in {"encryptArchive"} \cup (ArchiveKinds \ {"decryptVerifyArchiveJob"}) -> archiveJob(c, TRUE)
          [] r.kind \in {"encryptJob", "signJob"} -> armoredJob(c, TRUE, FALSE)
          [] r.kind = "signEncryptJob" -> signEncryptJob(c, TRUE, FALSE)
          [] r.kind \in {"verifyOpaqueJob", "verifyDetachedJob"} -> textModeJob(c, TRUE)
          [] r.kind = "decryptVerifyJob" -> decryptVerifyJob(c, TRUE)
          [] OTHER -> c
  BY DEF ContextFor, ArchiveKinds
<1> HIDE DEF c
<1>4. DOMAIN ContextFor(r) = DOMAIN c
  BY <1>3 DEF keyListJob, listAllKeysJob, locateKeysJob, downloadJob, armoredJob, textModeJob, publicKeyExportJob,
              secretKeyExportJob, secretSubkeyExportJob, archiveJob, signEncryptJob, decryptVerifyJob
<1>5. r.kind = "listAllKeys" /\ r.a.validate => ContextFor(r).offline
  <2>1. r.kind = "listAllKeys" => ContextFor(r) = listAllKeysJob(c, r.a.includeSigs, r.a.validate)
    BY <1>3 DEF ArchiveKinds
  <2>2. listAllKeysJob(c, r.a.includeSigs, r.a.validate).offline = (c.offline \/ r.a.validate)
    BY <1>1 DEF listAllKeysJob, Fields
  <2>3. QED
    BY <2>1, <2>2
<1>6. QED
  BY <1>1, <1>4, <1>5

LEMMA Modes ==
  ASSUME req.kind \in ListingKinds \cup {"listAllKeys"}
  PROVE  ContextFor(req).mode = ModeAsked /\ "WithSecret" \notin ModeAsked
<1> DEFINE c == NewContext(req.protocol)
<1>1. DOMAIN c = Fields /\ c.mode = {"Local"}
  BY DEF NewContext, Fields
<1>2. CASE req.kind = "keyList"
  <2>1. ContextFor(req) = keyListJob(c, req.a.remote, req.a.includeSigs, FALSE)
    BY <1>2 DEF ContextFor, ArchiveKinds
  <2> HIDE DEF c
  <2>2. ContextFor(req).mode = More(listMode({"Local"}, req.a.remote), req.a.includeSigs, FALSE)
    BY <1>1, <2>1 DEF keyListJob, Fields
  <2>3. QED
    BY <1>2, <2>2 DEF More, listMode, ModeAsked
<1>3. CASE req.kind = "locateKeys"
  <2>1. ContextFor(req) = locateKeysJob(c)
    BY <1>3 DEF ContextFor, ArchiveKinds
  <2> HIDE DEF c
  <2>2. ContextFor(req).mode = {"Locate", "Signatures", "Validate"}
    BY <1>1, <2>1 DEF locateKeysJob, Fields
  <2>3. QED
    BY <1>3, <2>2 DEF ModeAsked
<1>4. CASE req.kind = "listAllKeys"
  <2>1. ContextFor(req) = listAllKeysJob(c, req.a.includeSigs, req.a.validate)
    BY <1>4 DEF ContextFor, ArchiveKinds
  <2> HIDE DEF c
  <2>2. ContextFor(req).mode = More(listMode({"Local"}, FALSE), req.a.includeSigs, req.a.validate)
    BY <1>1, <2>1 DEF listAllKeysJob, Fields
  <2>3. QED
    BY <1>4, <2>2 DEF More, listMode, ModeAsked
<1>5. QED
  BY <1>2, <1>3, <1>4 DEF ListingKinds

\* ctx->setFlag() says nothing of the mode.
LEMMA Flags ==
  ASSUME DOMAIN ctx = Fields, NEW s
  PROVE  /\ DOMAIN TellAllSignatures(s, ctx) = Fields
         /\ TellAllSignatures(s, ctx).mode = ctx.mode
         /\ TellAllSignatures(s, ctx).offline = ctx.offline
  BY DEF TellAllSignatures, Fields

LEMMA ModeInit == Init => ModeInv
  BY DEF Init, ModeInv, Ended

LEMMA ModeKept ==
  ASSUME ModeInv, UNCHANGED <<req, ctx, bound, made>>, stage \notin {"asked", "crashed", "no job"},
         \/ UNCHANGED stage
         \/ stage' = "crashed"
         \/ stage # "listing" /\ stage' \in Ended
         \/ stage = "prepared" /\ stage' = "started"
  PROVE  ModeInv'
<1>1. \A i \in DOMAIN made' : made'[i].op = "list" => AskedOfListing(made[i])'
  BY DEF ModeInv, AskedOfListing, ModeAsked
<1>2. ModeAsked' = ModeAsked /\ ContextFor(req)' = ContextFor(req)
  BY DEF ModeAsked
<1>3. /\ DOMAIN ctx' = Fields
      /\ stage' \notin {"crashed", "listing"} /\ (stage' \in Ended => req'.kind # "keyForMailbox") =>
           ctx'.mode = ContextFor(req)'.mode
      /\ stage' = "listing" => ctx'.mode = ModeAsked'
      /\ req'.kind = "listAllKeys" /\ req'.a.validate => ctx'.offline
  BY <1>2 DEF ModeInv, Ended
<1>4. /\ req'.kind = "listAllKeys" /\ stage' \in {"prepared", "started"} => bound'.options = req'.a.set.options
      /\ req'.kind = "listAllKeys" /\ stage' = "working" =>
           ctx'.trustCheck = TrustCheck(req.a.set.options, req.version)'
  BY DEF ModeInv, Ended
<1>5. QED
  BY <1>1, <1>3, <1>4 DEF ModeInv

LEMMA ModeFrame ==
  ASSUME ModeInv,
         \/ Configure \/ Reconfigure \/ StartNow \/ Tick \/ Report \/ DeferredDelete \/ DeleteWrapper
         \/ NoPartFile \/ NothingToRefresh \/ ReturnEarly \/ TakeLog \/ ListingStep \/ ListingStops
         \/ ProcessSends \/ ReadDevice \/ DataStep
  PROVE  ModeInv'
<1>1. CASE Configure \/ Reconfigure \/ StartNow \/ Tick
  <2>1. /\ UNCHANGED <<req, ctx, bound, made>> /\ stage \notin {"asked", "crashed", "no job"}
        /\ UNCHANGED stage \/ (stage = "prepared" /\ stage' = "started")
    BY <1>1 DEF Configure, Reconfigure, StartNow, Tick, settingVars, resultVars
  <2>2. QED
    BY <2>1, ModeKept DEF Ended
<1>2. CASE Report \/ DeferredDelete \/ DeleteWrapper
  <2>1. /\ UNCHANGED <<req, ctx, bound, made>> /\ stage \in {"returned", "reported"}
        /\ stage' \in {"reported", "gone"}
    BY <1>2 DEF Report, DeferredDelete, DeleteWrapper, settingVars, resultVars
  <2>2. QED
    BY <2>1, ModeKept DEF Ended
<1>3. CASE NoPartFile \/ NothingToRefresh \/ ReturnEarly \/ TakeLog
  <2>1. /\ UNCHANGED <<req, ctx, bound, made>> /\ stage \in {"started", "working", "logging"}
        /\ stage' = "returned"
    BY <1>3 DEF NoPartFile, NothingToRefresh, ReturnEarly, TakeLog, IsNext, settingVars, resultVars
  <2>2. QED
    BY <2>1, ModeKept DEF Ended
<1>4. CASE ListingStep \/ ListingStops \/ ProcessSends \/ ReadDevice
  <2>1. UNCHANGED <<req, ctx, bound, made, stage>> /\ stage \in {"listing", "working"}
    BY <1>4 DEF ListingStep, ListingStops, ProcessSends, ReadDevice, IsNext, settingVars, resultVars
  <2>2. QED
    BY <2>1, ModeKept DEF Ended
<1>5. CASE DataStep
  <2>1. UNCHANGED <<req, ctx, bound, made>> /\ stage = "working" /\ stage' \in {"working", "crashed"}
    BY <1>5, DataStays
  <2>2. QED
    BY <2>1, ModeKept DEF Ended
<1>6. QED
  BY <1>1, <1>2, <1>3, <1>4, <1>5

LEMMA ModeCreated ==
  ASSUME CallsInv, CreateJob
  PROVE  ModeInv'
<1>1. made = <<>> /\ UNCHANGED <<req, made>>
  BY DEF CreateJob, CallsInv, MadeInv, Before, resultVars
<1>2. stage' \in {"crashed", "no job"} \/ (stage' = "created" /\ ctx' = ContextFor(req))
  BY DEF CreateJob
<1>3. ContextFor(req)' = ContextFor(req)
  BY <1>1 DEF ContextFor, ArchiveKinds
<1>4. /\ stage' = "created" => DOMAIN ctx' = Fields
      /\ stage' = "created" => ctx'.mode = ContextFor(req)'.mode
  BY <1>1, <1>2, <1>3, Contexts
<1>5. stage' = "created" /\ req'.kind = "listAllKeys" /\ req'.a.validate => ctx'.offline
  BY <1>1, <1>2, <1>3, Contexts
<1>6. \A i \in DOMAIN made' : FALSE
  BY <1>1
<1>7. QED
  BY <1>1, <1>2, <1>4, <1>5, <1>6 DEF ModeInv, Ended

\* start() leaves the options of the job to the worker function; startIt() refuses.
LEMMA ModeStarted ==
  ASSUME CallsInv, ModeInv, Start
  PROVE  ModeInv'
<1>1. /\ stage = "created" /\ UNCHANGED <<req, made>> /\ stage' \in {"refused", "prepared", "idle", "started"}
      /\ stage' # "refused" => code' = "ok"
  BY DEF Start
<1>2. made = <<>>
  BY <1>1 DEF CallsInv, MadeInv, Before
<1>3. /\ DOMAIN ctx = Fields /\ ctx.mode = ContextFor(req).mode
      /\ req.kind = "listAllKeys" /\ req.a.validate => ctx.offline
  BY <1>1 DEF ModeInv, Ended
<1>4. ctx' = ctx \/ ctx' = TellAllSignatures(settings, ctx)
  BY DEF Start
<1>5. /\ DOMAIN ctx' = Fields /\ ctx'.mode = ContextFor(req).mode
      /\ req.kind = "listAllKeys" /\ req.a.validate => ctx'.offline
  BY <1>3, <1>4, Flags
<1>6. req.kind = "listAllKeys" /\ code' = "ok" => bound'.options = req.a.set.options
  <2> SUFFICES ASSUME req.kind = "listAllKeys", code' = "ok" PROVE bound'.options = req.a.set.options
    OBVIOUS
  <2>1. req.kind \in SettableKinds /\ req.kind \notin FileJobKinds
    BY DEF SettableKinds, FileJobKinds
  <2>2. How # "startIt"
    <3>1. StartItCode("listAllKeys") = "NOT_SUPPORTED"
      BY DEF StartItCode, ClassOf, QGpgMEListAllKeysJob, Class
    <3>2. How = "startIt" => Answered = StartItCode(req.kind)
      BY <2>1 DEF Answered, WithFiles
    <3>3. code' = Answered
      BY DEF Start
    <3>4. QED
      BY <3>1, <3>2, <3>3
  <2>3. bound' = Bound(req.kind, settings, Given) /\ settings = Configured
    BY <2>1, <2>2 DEF Start
  <2>4. Bound(req.kind, settings, Given) = settings
    BY <2>1 DEF Bound, FileJobKinds
  <2>5. Configured = setListOptions(ListAllKeysJob, req.a.set)
    BY DEF Configured, AllSet, Defaults, Exports
  <2>6. setListOptions(ListAllKeysJob, req.a.set).options = req.a.set.options
    BY DEF setListOptions, ListAllKeysJob
  <2>7. QED
    BY <2>3, <2>4, <2>5, <2>6
<1>7. ContextFor(req)' = ContextFor(req)
  BY <1>1 DEF ContextFor, ArchiveKinds
<1>8. /\ ctx'.mode = ContextFor(req)'.mode
      /\ req'.kind = "listAllKeys" /\ req'.a.validate => ctx'.offline
      /\ req'.kind = "listAllKeys" /\ stage' \in {"prepared", "started"} => bound'.options = req'.a.set.options
  BY <1>1, <1>5, <1>6, <1>7
<1>9. \A i \in DOMAIN made' : FALSE
  BY <1>1, <1>2
<1>10. QED
  BY <1>1, <1>5, <1>8, <1>9 DEF ModeInv, Ended

LEMMA ModeEntered ==
  ASSUME CallsInv, ModeInv, EnterWorker
  PROVE  ModeInv'
<1>1. stage = "started" /\ stage' = "working" /\ UNCHANGED <<req, made, bound>>
  BY DEF EnterWorker, settingVars
<1>2. made = <<>>
  BY <1>1 DEF CallsInv, MadeInv, Before
<1>3. /\ DOMAIN ctx = Fields /\ ctx.mode = ContextFor(req).mode
      /\ req.kind = "listAllKeys" => bound.options = req.a.set.options
      /\ req.kind = "listAllKeys" /\ req.a.validate => ctx.offline
  BY <1>1 DEF ModeInv, Ended
<1>4. req.kind = "listAllKeys" => ctx' = [ctx EXCEPT !.trustCheck = TrustCheck(bound.options, req.version)]
  BY DEF EnterWorker, WithFiles, FileJobKinds
<1>5. req.kind # "listAllKeys" => ctx' = ctx \/ ctx' = TellAllSignatures(settings, ctx)
  BY DEF EnterWorker
<1>6. /\ DOMAIN ctx' = Fields /\ ctx'.mode = ContextFor(req).mode
      /\ req.kind = "listAllKeys" /\ req.a.validate => ctx'.offline
      /\ req.kind = "listAllKeys" => ctx'.trustCheck = TrustCheck(req.a.set.options, req.version)
  <2>1. CASE req.kind = "listAllKeys"
    BY <1>3, <1>4, <2>1 DEF Fields
  <2>2. CASE req.kind # "listAllKeys"
    BY <1>3, <1>5, <2>2, Flags
  <2>3. QED
    BY <2>1, <2>2
<1>7. ContextFor(req)' = ContextFor(req) /\ TrustCheck(req.a.set.options, req.version)' = TrustCheck(req.a.set.options, req.version)
  BY <1>1 DEF ContextFor, ArchiveKinds
<1>8. QED
  BY <1>1, <1>2, <1>6, <1>7 DEF ModeInv, Ended

\* A nested listing sets its own mode; what runs it sets it back, but for the one for a
\* mailbox.
LEMMA ModeNested ==
  ASSUME CallsInv, ModeInv, EnterListing \/ ListingReturns \/ ChooseKey \/ RefreshEnds
  PROVE  ModeInv'
<1>1. /\ stage \in {"started", "listing"} /\ stage' \in {"listing", "returned"} /\ UNCHANGED <<req, made>>
      /\ req.kind \in ListingKinds \cup NestingKinds
  BY DEF EnterListing, ListingReturns, ChooseKey, RefreshEnds, resultVars, NestingKinds
<1>2. made = <<>> /\ req.kind # "listAllKeys"
  BY <1>1 DEF CallsInv, MadeInv, Before, ListingKinds, NestingKinds
<1>3. DOMAIN ctx = Fields
  BY <1>1 DEF ModeInv
<1>4. ContextFor(req)' = ContextFor(req) /\ ModeAsked' = ModeAsked
  BY <1>1 DEF ContextFor, ArchiveKinds, ModeAsked
<1>5. CASE EnterListing
  <2>1. stage = "started" /\ stage' = "listing" /\ ctx' = [ctx EXCEPT !.mode = NestedMode]
    BY <1>5 DEF EnterListing
  <2>2. DOMAIN ctx' = Fields /\ ctx'.mode = NestedMode
    BY <1>3, <2>1 DEF Fields
  <2>3. NestedMode = ModeAsked
    <3>1. CASE req.kind \in ListingKinds
      <4>1. ctx.mode = ModeAsked
        BY <2>1, <3>1, Modes DEF ModeInv, Ended
      <4>2. QED
        BY <3>1, <4>1 DEF NestedMode, ListingKinds
    <3>2. CASE req.kind \in NestingKinds
      BY <3>2 DEF NestedMode, ModeAsked, NestingKinds
    <3>3. QED
      BY <1>1, <3>1, <3>2
  <2>4. QED
    BY <1>1, <1>2, <1>4, <2>1, <2>2, <2>3 DEF ModeInv
<1>6. CASE ~EnterListing
  <2>1. stage = "listing" /\ stage' = "returned" /\ ctx.mode = ModeAsked
    BY <1>6 DEF ListingReturns, ChooseKey, RefreshEnds, ModeInv
  <2>2. DOMAIN ctx' = Fields /\ (req.kind # "keyForMailbox" => ctx'.mode = ContextFor(req).mode)
    <3>1. CASE ListingReturns
      BY <1>3, <2>1, <3>1, Modes DEF ListingReturns
    <3>2. CASE ChooseKey
      BY <1>3, <3>2 DEF ChooseKey
    <3>3. CASE RefreshEnds
      BY <3>3, Contexts DEF RefreshEnds
    <3>4. QED
      BY <1>6, <3>1, <3>2, <3>3
  <2>3. \A i \in DOMAIN made' : FALSE
    BY <1>1, <1>2
  <2>4. req'.kind # "keyForMailbox" => ctx'.mode = ContextFor(req)'.mode
    BY <1>1, <1>4, <2>2
  <2>5. QED
    BY <1>1, <1>2, <2>1, <2>2, <2>3, <2>4 DEF ModeInv, Ended
<1>7. QED
  BY <1>5, <1>6

\* A call takes the context as it is, and adds to the mode for a listing of all keys.
LEMMA ModeCalled ==
  ASSUME CallsInv, ModeInv, req \in RequestSet, CallEngine \/ CallImport \/ RunProcess \/ CallList
  PROVE  ModeInv'
<1>1. stage = "working" /\ UNCHANGED <<req, ctx, bound>>
  BY DEF CallEngine, CallImport, RunProcess, CallList, IsNext, settingVars
<1>2. PICK outcome : Goes(Head(todo), outcome)
  BY DEF CallEngine, CallImport, RunProcess, CallList
<1>3. Head(todo).op = "list" => req.kind = "listAllKeys"
  BY DEF CallEngine, CallImport, RunProcess, CallList, IsNext, Special
<1> DEFINE new == made'[Len(made')]
<1>4. /\ Len(made) \in Nat /\ Len(made') = Len(made) + 1
      /\ DOMAIN made = 1..Len(made) /\ DOMAIN made' = 1..Len(made')
      /\ \A i \in DOMAIN made : made'[i] = made[i]
      /\ new.op = Head(todo).op /\ new.ctx = [ctx EXCEPT !.mode = ModeOf(Head(todo))]
      /\ stage' \in {"working", "logging", "returned"}
  <2>1. IsSequence(made)
    BY DEF CallsInv, MadeInv
  <2>2. QED
    BY <1>1, <1>2, <2>1, CallMade
<1> HIDE DEF new
<1>5. /\ DOMAIN ctx = Fields /\ ctx.mode = ContextFor(req).mode
      /\ req.kind = "listAllKeys" /\ req.a.validate => ctx.offline
      /\ req.kind = "listAllKeys" => ctx.trustCheck = TrustCheck(req.a.set.options, req.version)
  BY <1>1 DEF ModeInv, Ended
<1>6. ASSUME req.kind = "listAllKeys" PROVE AskedOfListing(new)
  <2>1. /\ new.ctx.mode = ctx.mode \cup {"WithSecret"} \/ new.ctx.mode = ctx.mode
        /\ new.ctx.offline = ctx.offline /\ new.ctx.trustCheck = ctx.trustCheck
    BY <1>4, <1>5 DEF ModeOf, Fields
  <2>2. ctx.mode = ModeAsked /\ "WithSecret" \notin ModeAsked
    BY <1>5, <1>6, Modes
  <2>3. new.ctx.mode \ {"WithSecret"} = ModeAsked
    BY <2>1, <2>2
  <2>4. req.version \in Nat /\ req.a.set.options \subseteq {"DisableAutomaticTrustDatabaseCheck"}
    BY <1>6, ListAllOptions
  <2>5. req.version >= V2_1_0 =>
          (TrustCheck(req.a.set.options, req.version) <=> req.a.set.options = {})
    BY <2>4 DEF TrustCheck, V2_1_0
  <2>6. req.version >= V2_1_0 => (new.ctx.trustCheck <=> req.a.set.options = {})
    BY <1>5, <1>6, <2>1, <2>5
  <2>7. req.a.validate => new.ctx.offline
    BY <1>5, <1>6, <2>1
  <2>8. QED
    BY <2>3, <2>6, <2>7 DEF AskedOfListing
<1>7. \A i \in DOMAIN made' : made'[i].op = "list" => AskedOfListing(made'[i])
  <2>1. \A i \in DOMAIN made : made[i].op = "list" => AskedOfListing(made[i])
    BY DEF ModeInv
  <2>2. \A i \in DOMAIN made' : (i \in DOMAIN made /\ made'[i] = made[i]) \/ made'[i] = new
    BY <1>4 DEF new
  <2>3. new.op = "list" => AskedOfListing(new)
    BY <1>3, <1>4, <1>6
  <2>4. QED
    BY <2>1, <2>2, <2>3
<1>8. \A i \in DOMAIN made' : made'[i].op = "list" => AskedOfListing(made[i])'
  BY <1>1, <1>7 DEF AskedOfListing, ModeAsked
<1>9. /\ ContextFor(req)' = ContextFor(req)
      /\ TrustCheck(req.a.set.options, req.version)' = TrustCheck(req.a.set.options, req.version)
  BY <1>1
<1>10. QED
  BY <1>1, <1>4, <1>5, <1>8, <1>9 DEF ModeInv

LEMMA ModeStep ==
  ASSUME OwnerInv, CallsInv, ModeInv, [Next]_vars
  PROVE  ModeInv'
<1>1. CASE UNCHANGED vars
  BY <1>1 DEF vars, settingVars, resultVars, ModeInv, AskedOfListing, ModeAsked
<1>2. CASE CreateJob \/ Start \/ EnterWorker \/ EnterListing \/ ListingReturns \/ ChooseKey \/ RefreshEnds
  BY <1>2, ModeCreated, ModeStarted, ModeEntered, ModeNested
<1>3. CASE CallEngine \/ CallImport \/ RunProcess \/ CallList
  BY <1>3, ModeCalled DEF OwnerInv
<1>4. CASE \/ Configure \/ Reconfigure \/ StartNow \/ Tick \/ Report \/ DeferredDelete \/ DeleteWrapper
           \/ NoPartFile \/ NothingToRefresh \/ ReturnEarly \/ TakeLog \/ ListingStep \/ ListingStops
           \/ ProcessSends \/ ReadDevice \/ DataStep
  BY <1>4, ModeFrame
<1>5. QED
  BY <1>1, <1>2, <1>3, <1>4 DEF Next, WorkerStep

\* Every listing looks for keys where it was asked to, and nowhere else, and a nested one
\* leaves the mode of the context as it was (the factories of protocol_p.h, do_list_keys(),
\* do_work() of the key for a mailbox and locate_external_keys() of the WKD refresh).
THEOREM ListedAsAsked == Spec => []ListsAsAsked
<1> DEFINE Inv == OwnerInv /\ CallsInv /\ ModeInv
<1>1. Init => Inv
  BY OwnerInit, CallsInit, ModeInit
<1>2. Inv /\ [Next]_vars => Inv'
  BY OwnerStep, CallsStep, ModeStep
<1>3. Inv => ListsAsAsked
  <2> SUFFICES ASSUME ModeInv PROVE ListsAsAsked
    OBVIOUS
  <2>1. stage = "listing" => ctx.mode = ModeAsked
    BY DEF ModeInv
  <2>2. \A call \in Calls : call.op = "list" => AskedOfListing(call)
    BY DEF ModeInv, Calls
  <2>3. stage \in Ended /\ req.kind # "keyForMailbox" => ctx.mode = ContextFor(req).mode
    BY DEF ModeInv, Ended
  <2>4. QED
    BY <2>1, <2>2, <2>3 DEF ListsAsAsked, AskedOfListing
<1>4. QED
  BY <1>1, <1>2, <1>3, PTL DEF Spec

------------------------------------------------------------------------------
(* When keys expire                                                        *)

\* What the engine is told in a call of the date of request r, whose worker function was
\* entered at time t.
Rightly(call, r, t) ==
  \/ call.op \notin DatedOps
  \/ call.op = "setExpire" /\ call.what.expires = SecondsAtLeastOne(DateOf(r), t)
  \/ call.op \in {"createKey", "createSubkey"} /\ call.what.expires = SecondsUntil(DateOf(r), t)
  \/ call.op = "signKey" /\ call.what.expires = CertExpire(DateOf(r), t)
  \/ /\ call.op = "addExistingSubkey" /\ r.kind = "addExistingSubkey"
     /\ call.what.expires = SubkeyTime(DateOf(r))

RightCalls(s, r, t) == \E S : s \in Seq(S) /\ \A call \in S : Rightly(call, r, t)

\* All calls of a request with a date are told rightly, and were made since the worker
\* function was entered.
DatesInv ==
  /\ clock \in Nat /\ entered \in 0..clock
  /\ req.kind = "signKey" /\ stage \in {"prepared", "started"} => bound.expiry = req.a.set.expiry
  /\ req.kind \in DatedKinds /\ stage = "working" => RightCalls(todo, req, entered)
  /\ req.kind \in DatedKinds =>
       \A i \in DOMAIN made : Rightly(made[i], req, entered) /\ made[i].at \in entered..clock

\* A number that fits is not changed by being converted.
LEMMA Fits ==
  ASSUME NEW w \in Nat, NEW n \in 0..(w - 1)
  PROVE  n % w = n
  OBVIOUS

LEMMA GreaterOfTwo ==
  ASSUME NEW m \in Int, NEW n \in Int
  PROVE  Max({m, n}) = IF m >= n THEN m ELSE n
<1> DEFINE top == IF m >= n THEN m ELSE n
<1>1. top \in {m, n} /\ \A y \in {m, n} : top >= y
  OBVIOUS
<1>2. \A x \in {m, n} : (\A y \in {m, n} : x >= y) => x = top
  OBVIOUS
<1>3. (CHOOSE x \in {m, n} : \A y \in {m, n} : x >= y) = top
  BY ONLY <1>1, <1>2
<1>4. QED
  BY <1>3 DEF Max

LEMMA LesserOfTwo ==
  ASSUME NEW m \in Int, NEW n \in Int
  PROVE  Min({m, n}) = IF m <= n THEN m ELSE n
<1> DEFINE least == IF m <= n THEN m ELSE n
<1>1. least \in {m, n} /\ \A y \in {m, n} : least <= y
  OBVIOUS
<1>2. \A x \in {m, n} : (\A y \in {m, n} : x <= y) => x = least
  OBVIOUS
<1>3. (CHOOSE x \in {m, n} : \A y \in {m, n} : x <= y) = least
  BY ONLY <1>1, <1>2
<1>4. QED
  BY <1>3 DEF Min

\* One call that is told rightly, none, and one sequence after another.
LEMMA RightCall ==
  ASSUME NEW call, NEW r, NEW t, Rightly(call, r, t)
  PROVE  RightCalls(<<call>>, r, t)
<1> DEFINE S == {call}
<1>1. <<call>> \in Seq(S)
  OBVIOUS
<1>2. \A c \in S : Rightly(c, r, t)
  OBVIOUS
<1> HIDE DEF S
<1>3. QED
  BY <1>1, <1>2 DEF RightCalls

LEMMA NoCall == ASSUME NEW r, NEW t PROVE RightCalls(<<>>, r, t)
<1> DEFINE S == {}
<1>1. <<>> \in Seq(S)
  OBVIOUS
<1>2. \A c \in S : Rightly(c, r, t)
  OBVIOUS
<1> HIDE DEF S
<1>3. QED
  BY <1>1, <1>2 DEF RightCalls

LEMMA RightConcat ==
  ASSUME NEW r, NEW t, NEW u, NEW v, RightCalls(u, r, t), RightCalls(v, r, t)
  PROVE  RightCalls(u \o v, r, t)
<1>1. PICK S : u \in Seq(S) /\ \A call \in S : Rightly(call, r, t)
  BY DEF RightCalls
<1>2. PICK T : v \in Seq(T) /\ \A call \in T : Rightly(call, r, t)
  BY DEF RightCalls
<1>3. u \in Seq(S \cup T) /\ v \in Seq(S \cup T)
  BY <1>1, <1>2
<1>4. u \o v \in Seq(S \cup T)
  BY <1>3
<1>5. \A call \in S \cup T : Rightly(call, r, t)
  BY <1>1, <1>2
<1>6. QED
  BY <1>4, <1>5 DEF RightCalls

\* The worker functions of the requests with a date.
LEMMA DatedPrograms ==
  ASSUME NEW r, NEW c, NEW s, NEW now
  PROVE  /\ r.kind = "changeExpiry" => Program(r, c, s, now) = change_expiry(r.a, s.options, now)
         /\ r.kind = "createKey" => Program(r, c, s, now) = createWorker(r.a, now)
         /\ r.kind = "createSubkey" => Program(r, c, s, now) = addSubkeyWorker(r.a, now)
         /\ r.kind = "signKey" => Program(r, c, s, now) = sign_key(s, now)
         /\ r.kind = "addExistingSubkey" => Program(r, c, s, now) = add_subkey(r.a)
<1>1. r.kind = "changeExpiry" => Program(r, c, s, now) = change_expiry(r.a, s.options, now)
  BY DEF Program, FileJobKinds, Exports
<1>2. r.kind = "createKey" => Program(r, c, s, now) = createWorker(r.a, now)
  BY DEF Program, FileJobKinds, Exports
<1>3. r.kind = "createSubkey" => Program(r, c, s, now) = addSubkeyWorker(r.a, now)
  BY DEF Program, FileJobKinds, Exports
<1>4. r.kind = "signKey" => Program(r, c, s, now) = sign_key(s, now)
  BY DEF Program, FileJobKinds, Exports
<1>5. r.kind = "addExistingSubkey" => Program(r, c, s, now) = add_subkey(r.a)
  BY DEF Program, FileJobKinds, Exports
<1>6. QED
  BY <1>1, <1>2, <1>3, <1>4, <1>5

\* change_expiry() sets the date of one part of the key, or of two.
LEMMA ExpiryIsChangedRightly ==
  ASSUME NEW r, r.kind = "changeExpiry", NEW options, NEW now
  PROVE  RightCalls(change_expiry(r.a, options, now), r, now)
<1> DEFINE Set(part) == Ask("setExpire", [part |-> part, expires |-> SecondsAtLeastOne(r.a.expiry, now)])
           primary == IF ~r.a.subkeys \/ "UpdatePrimaryKey" \in options THEN <<Set("primary key")>> ELSE <<>>
           subkeys == CASE r.a.subkeys -> <<Set("subkeys")>>
                        [] ~r.a.subkeys /\ "UpdateAllSubkeys" \in options -> <<Set("all subkeys")>>
                        [] OTHER -> <<>>
<1>1. change_expiry(r.a, options, now) = primary \o subkeys
  BY Zenon DEF change_expiry
<1>2. \A part : Rightly(Set(part), r, now)
  BY DEF Rightly, Ask, DateOf
<1> HIDE DEF Set
<1>3. \A part : RightCalls(<<Set(part)>>, r, now)
  BY <1>2, RightCall
<1>4. RightCalls(<<>>, r, now)
  BY NoCall
<1>5. RightCalls(primary, r, now)
  BY <1>3, <1>4, Zenon
<1>6. RightCalls(subkeys, r, now)
  BY <1>3, <1>4, Zenon
<1> HIDE DEF primary, subkeys
<1>7. QED
  BY <1>1, <1>5, <1>6, RightConcat

\* A request with a date makes no calls but those that are told of it rightly.
LEMMA ProgramIsRight ==
  ASSUME NEW r, r.kind \in DatedKinds, NEW c, NEW s, NEW now,
         r.kind = "signKey" => s.expiry = r.a.set.expiry
  PROVE  RightCalls(Program(r, c, s, now), r, now)
<1>1. CASE r.kind = "changeExpiry"
  BY <1>1, DatedPrograms, ExpiryIsChangedRightly
<1>2. CASE r.kind \in {"createKey", "createSubkey"}
  <2> DEFINE call == Ask(r.kind, [expires |-> SecondsUntil(r.a.expiry, now)])
  <2>1. Program(r, c, s, now) = <<call>>
    BY <1>2, DatedPrograms DEF createWorker, addSubkeyWorker
  <2>2. Rightly(call, r, now)
    BY <1>2 DEF Rightly, Ask, DateOf
  <2> HIDE DEF call
  <2>3. QED
    BY <2>1, <2>2, RightCall
<1>3. CASE r.kind = "signKey"
  <2> DEFINE add == Ask("addSigningKey", s.signer)
             certify == Ask("signKey", [expires |-> CertExpire(s.expiry, now), options |-> SigningOptions(s),
                                        dupeOk |-> s.dupeOk])
             signer == IF s.signer # "null" THEN <<add>> ELSE <<>>
  <2>1. Program(r, c, s, now) = signer \o <<certify>>
    BY <1>3, DatedPrograms DEF sign_key
  <2>2. Rightly(add, r, now)
    BY DEF Rightly, Ask, DatedOps
  <2>3. Rightly(certify, r, now)
    BY <1>3 DEF Rightly, Ask, DateOf
  <2>4. signer = <<>> \/ signer = <<add>>
    OBVIOUS
  <2> HIDE DEF add, certify, signer
  <2>5. RightCalls(signer, r, now) /\ RightCalls(<<certify>>, r, now)
    BY <2>2, <2>3, <2>4, RightCall, NoCall
  <2>6. QED
    BY <2>1, <2>5, RightConcat
<1>4. CASE r.kind = "addExistingSubkey"
  <2> DEFINE early == Ask("return", "NOT_SUPPORTED")
             call == Ask("addExistingSubkey", [expires |-> SubkeyTime(r.a.expiry)])
  <2>1. Program(r, c, s, now) = <<early>> \/ Program(r, c, s, now) = <<call>>
    BY <1>4, DatedPrograms DEF add_subkey, ReturnAtOnce
  <2>2. Rightly(early, r, now)
    BY DEF Rightly, Ask, DatedOps
  <2>3. Rightly(call, r, now)
    BY <1>4 DEF Rightly, Ask, DateOf
  <2> HIDE DEF early, call
  <2>4. QED
    BY <2>1, <2>2, <2>3, RightCall
<1>5. QED
  BY <1>1, <1>2, <1>3, <1>4 DEF DatedKinds

\* Steps that neither call the engine nor let time pass.
LEMMA DatesKept ==
  ASSUME DatesInv, UNCHANGED <<req, made, clock, entered>>,
         stage' = "working" => stage = "working" /\ UNCHANGED todo,
         stage' \in {"prepared", "started"} => stage \in {"prepared", "started"} /\ UNCHANGED bound
  PROVE  DatesInv'
  BY DEF DatesInv

LEMMA DatesFrame ==
  ASSUME DatesInv,
         \/ CreateJob \/ Configure \/ Reconfigure \/ StartNow \/ Report \/ DeferredDelete \/ DeleteWrapper
         \/ NoPartFile \/ NothingToRefresh \/ ReturnEarly \/ TakeLog \/ EnterListing \/ ListingStep
         \/ ListingStops \/ ListingReturns \/ ChooseKey \/ RefreshEnds \/ ProcessSends \/ ReadDevice \/ DataStep
  PROVE  DatesInv'
<1>0. CASE CreateJob
  <2>1. UNCHANGED <<req, made, clock, entered>>
    BY <1>0, Zenon DEF CreateJob, resultVars, timeVars
  <2>2. stage' # "working" /\ stage' \notin {"prepared", "started"}
    BY <1>0, Zenon DEF CreateJob
  <2>3. QED
    BY <2>1, <2>2, DatesKept
<1>1. CASE Configure \/ Reconfigure \/ StartNow
  <2>1. /\ UNCHANGED <<req, made, todo, clock, entered, bound>>
        /\ UNCHANGED stage \/ (stage = "prepared" /\ stage' = "started")
    BY <1>1 DEF Configure, Reconfigure, StartNow, resultVars, timeVars, settingVars
  <2>2. QED
    BY <2>1, DatesKept
<1>2. CASE Report \/ DeferredDelete \/ DeleteWrapper
  <2>1. UNCHANGED <<req, made, clock, entered>> /\ stage' \in {"reported", "gone"}
    BY <1>2 DEF Report, DeferredDelete, DeleteWrapper, resultVars, timeVars
  <2>2. QED
    BY <2>1, DatesKept
<1>3. CASE NoPartFile \/ NothingToRefresh \/ ReturnEarly \/ TakeLog
  <2>1. UNCHANGED <<req, made, clock, entered>> /\ stage' = "returned"
    BY <1>3 DEF NoPartFile, NothingToRefresh, ReturnEarly, TakeLog, resultVars, timeVars
  <2>2. QED
    BY <2>1, DatesKept
<1>4. CASE EnterListing \/ ListingReturns \/ ChooseKey \/ RefreshEnds
  <2>1. UNCHANGED <<req, made, clock, entered>> /\ stage' \in {"listing", "returned"}
    BY <1>4 DEF EnterListing, ListingReturns, ChooseKey, RefreshEnds, resultVars, timeVars
  <2>2. QED
    BY <2>1, DatesKept
<1>5. CASE ListingStep \/ ListingStops \/ ProcessSends \/ ReadDevice
  <2>1. UNCHANGED <<req, made, todo, clock, entered, bound, stage>>
    BY <1>5 DEF ListingStep, ListingStops, ProcessSends, ReadDevice, resultVars, timeVars, settingVars
  <2>2. QED
    BY <2>1, DatesKept
<1>6. CASE DataStep
  <2>1. UNCHANGED <<req, made, todo, clock, entered, bound>> /\ stage = "working" /\ stage' \in {"working", "crashed"}
    BY <1>6, DataStays
  <2>2. QED
    BY <2>1, DatesKept
<1>7. QED
  BY <1>0, <1>1, <1>2, <1>3, <1>4, <1>5, <1>6

LEMMA DatesTick ==
  ASSUME DatesInv, Tick
  PROVE  DatesInv'
<1>1. clock' = clock + 1 /\ UNCHANGED <<req, stage, made, todo, entered, bound>>
  BY DEF Tick, resultVars, settingVars
<1>2. clock' \in Nat /\ entered' \in 0..clock' /\ entered..clock \subseteq entered'..clock'
  BY <1>1 DEF DatesInv
<1>3. QED
  BY <1>1, <1>2 DEF DatesInv

\* start() of a job that signs keys leaves the date of its settings to the worker function.
LEMMA DatesStarted ==
  ASSUME DatesInv, req \in RequestSet, Start
  PROVE  DatesInv'
<1>1. /\ UNCHANGED <<req, made, clock, entered>> /\ stage' \in {"refused", "prepared", "idle", "started"}
      /\ stage' # "refused" => code' = "ok"
  BY DEF Start, timeVars
<1>2. ASSUME req.kind = "signKey", code' = "ok" PROVE bound'.expiry = req.a.set.expiry
  <2>1. req.kind \in SettableKinds /\ req.kind \notin FileJobKinds
    BY <1>2 DEF SettableKinds, FileJobKinds
  <2>2. How # "startIt"
    <3>1. req.kind \notin DOMAIN ClassOf
      BY <1>2 DEF ClassOf
    <3>2. QED
      BY <3>1, ClassesStarted DEF How
  <2>3. bound' = Bound(req.kind, settings, Given) /\ settings = Configured
    BY <1>2, <2>1, <2>2 DEF Start
  <2>4. Bound(req.kind, settings, Given) = settings
    BY <2>1 DEF Bound, FileJobKinds
  <2>5. Configured = setSignKeyJob(SignKeyJob, req.a.set)
    BY <1>2 DEF Configured, AllSet, Defaults, Exports
  <2>6. setSignKeyJob(SignKeyJob, req.a.set).expiry = req.a.set.expiry
    BY DEF setSignKeyJob, SignKeyJob
  <2>7. QED
    BY <2>3, <2>4, <2>5, <2>6
<1>3. QED
  BY <1>1, <1>2 DEF DatesInv

LEMMA DatesEntered ==
  ASSUME DatesInv, CallsInv, EnterWorker
  PROVE  DatesInv'
<1>1. /\ stage = "started" /\ stage' = "working" /\ UNCHANGED <<req, made, clock>> /\ entered' = clock
  BY DEF EnterWorker
<1>2. made = <<>>
  BY <1>1 DEF CallsInv, MadeInv, Before
<1>3. ASSUME req.kind \in DatedKinds PROVE RightCalls(todo', req, clock)
  <2>1. todo' = Program(req, ctx, bound, clock)
    BY <1>3 DEF EnterWorker, WithFiles, DatedKinds, FileJobKinds
  <2>2. req.kind = "signKey" => bound.expiry = req.a.set.expiry
    BY <1>1 DEF DatesInv
  <2>3. QED
    BY <1>3, <2>1, <2>2, ProgramIsRight
<1>4. clock \in Nat /\ entered' \in 0..clock
  BY <1>1 DEF DatesInv
<1>5. QED
  BY <1>1, <1>2, <1>3, <1>4 DEF DatesInv

LEMMA DatesCalled ==
  ASSUME DatesInv, CallsInv, CallEngine \/ CallImport \/ RunProcess \/ CallList
  PROVE  DatesInv'
<1>1. stage = "working" /\ todo # <<>> /\ UNCHANGED <<req, clock, entered>>
  <2>1. CASE CallEngine \/ CallImport \/ CallList
    BY <2>1 DEF CallEngine, CallImport, CallList, IsNext, timeVars
  <2>2. CASE RunProcess
    BY <2>2, Zenon DEF RunProcess, IsNext, timeVars
  <2>3. QED
    BY <2>1, <2>2
<1>2. PICK outcome : Goes(Head(todo), outcome)
  <2>1. CASE CallEngine \/ CallImport \/ CallList
    BY <2>1 DEF CallEngine, CallImport, CallList
  <2>2. CASE RunProcess
    BY <2>2, Zenon DEF RunProcess
  <2>3. QED
    BY <2>1, <2>2
<1> DEFINE new == made'[Len(made')]
<1>3. /\ Len(made) \in Nat /\ Len(made') = Len(made) + 1
      /\ DOMAIN made = 1..Len(made) /\ DOMAIN made' = 1..Len(made')
      /\ \A i \in DOMAIN made : made'[i] = made[i]
      /\ new.op = Head(todo).op /\ new.what = Head(todo).what /\ new.at = clock
      /\ stage' \in {"working", "logging", "returned"}
      /\ stage' = "working" => todo' = Tail(todo)
  <2>1. IsSequence(made)
    BY DEF CallsInv, MadeInv
  <2>2. QED
    BY <1>1, <1>2, <2>1, CallMade
<1> HIDE DEF new
<1>4. clock \in Nat /\ entered \in 0..clock /\ clock \in entered..clock
  BY DEF DatesInv
<1>5. ASSUME req.kind \in DatedKinds
      PROVE  /\ RightCalls(Tail(todo), req, entered)
             /\ \A i \in DOMAIN made' : Rightly(made'[i], req, entered) /\ made'[i].at \in entered..clock
  <2>1. PICK S : todo \in Seq(S) /\ \A call \in S : Rightly(call, req, entered)
    BY <1>1, <1>5 DEF DatesInv, RightCalls
  <2>2. Head(todo) \in S /\ Tail(todo) \in Seq(S)
    BY <1>1, <2>1
  <2>3. RightCalls(Tail(todo), req, entered)
    BY <2>1, <2>2 DEF RightCalls
  <2>4. Rightly(new, req, entered) /\ new.at \in entered..clock
    BY <1>3, <1>4, <2>1, <2>2 DEF Rightly
  <2>5. \A i \in DOMAIN made : Rightly(made[i], req, entered) /\ made[i].at \in entered..clock
    BY <1>5 DEF DatesInv
  <2>6. \A i \in DOMAIN made' : (i \in DOMAIN made /\ made'[i] = made[i]) \/ made'[i] = new
    BY <1>3 DEF new
  <2>7. QED
    BY <2>3, <2>4, <2>5, <2>6
<1>6. QED
  BY <1>1, <1>3, <1>4, <1>5 DEF DatesInv

LEMMA DatesStep ==
  ASSUME OwnerInv, CallsInv, DatesInv, [Next]_vars
  PROVE  DatesInv'
<1>0. req \in RequestSet
  BY Zenon DEF OwnerInv
<1>1. CASE UNCHANGED vars
  BY <1>1 DEF vars, settingVars, resultVars, timeVars, DatesInv
<1>2. CASE Tick \/ Start \/ EnterWorker
  BY <1>0, <1>2, DatesTick, DatesStarted, DatesEntered
<1>3. CASE CallEngine \/ CallImport \/ RunProcess \/ CallList
  BY <1>3, DatesCalled
<1>4. CASE \/ CreateJob \/ Configure \/ Reconfigure \/ StartNow \/ Report \/ DeferredDelete \/ DeleteWrapper
           \/ NoPartFile \/ NothingToRefresh \/ ReturnEarly \/ TakeLog \/ EnterListing \/ ListingStep
           \/ ListingStops \/ ListingReturns \/ ChooseKey \/ RefreshEnds \/ ProcessSends \/ ReadDevice \/ DataStep
  BY <1>4, DatesFrame
<1>5. QED
  BY <1>1, <1>2, <1>3, <1>4 DEF Next, WorkerStep

\* What the engine makes of a call that was told rightly, at whatever time it is made.
LEMMA RightlyExpires ==
  ASSUME NEW r \in RequestSet, r.kind \in DatedKinds, NEW t \in Nat, NEW call, Rightly(call, r, t),
         call.op \in DatedOps, call.at \in Nat, t <= call.at,
         NEW date, date = DateOf(r), NEW due, due = IF call.op = "signKey" THEN Min({date, LastDate}) ELSE date
  PROVE  /\ date = None => Expires(call) = Never
         /\ date # None /\ due > t => Expires(call) \in due..(due + call.at - t)
         /\ date # None /\ call.op = "setExpire" /\ date <= t => Expires(call) \in (t + 1)..(call.at + 1)
<1> DEFINE told == call.what.expires
<1>1. LastDate \in Nat /\ Unsigned32 \in Nat /\ UnsignedLong \in Nat
  BY DatesAssumption
<1>2. date # None => /\ date \in Int /\ date < UnsignedLong
                     /\ r.kind = "addExistingSubkey" => date \in 0..(Unsigned32 - 1)
  BY DatesFit
<1>3. CASE date = None
  <2>1. CASE call.op = "addExistingSubkey"
    BY <1>3, <2>1 DEF Rightly, Expires, SubkeyTime, Never, DatedOps
  <2>2. CASE call.op # "addExistingSubkey"
    <3>1. told = 0
      BY <1>3, <2>2 DEF Rightly, SecondsAtLeastOne, SecondsUntil, CertExpire, DatedOps
    <3>2. QED
      BY <1>3, <2>2, <3>1 DEF Expires, EngineExpiry
  <2>3. QED
    BY <1>3, <2>1, <2>2
<1>4. CASE date # None /\ call.op = "setExpire"
  <2>1. told = Max({date - t, 1}) /\ date \in Int
    BY <1>2, <1>4 DEF Rightly, SecondsAtLeastOne, DatedOps
  <2>2. told = IF date - t >= 1 THEN date - t ELSE 1
    BY <2>1, GreaterOfTwo
  <2>3. Expires(call) = call.at + told /\ due = date
    BY <1>4, <2>1, <2>2 DEF Expires, EngineExpiry
  <2> HIDE DEF told
  <2>4. QED
    BY <1>4, <2>1, <2>2, <2>3
<1>5. CASE date # None /\ call.op \in {"createKey", "createSubkey"}
  <2>1. told = (date - t) % UnsignedLong /\ date \in Int /\ date < UnsignedLong
    BY <1>2, <1>5 DEF Rightly, SecondsUntil, ToUnsignedLong, DatedOps
  <2>2. due = date
    BY <1>5
  <2>3. ASSUME due > t PROVE Expires(call) \in due..(due + call.at - t)
    <3>1. date - t \in 0..(UnsignedLong - 1) /\ date - t # 0
      BY <1>1, <2>1, <2>2, <2>3
    <3>2. told = date - t
      BY <1>1, <2>1, <3>1, Fits
    <3>3. Expires(call) = call.at + told
      BY <1>5, <3>1, <3>2 DEF Expires, EngineExpiry
    <3> HIDE DEF told
    <3>4. QED
      BY <2>1, <2>2, <3>2, <3>3
  <2>4. QED
    BY <1>5, <2>3
<1>6. CASE date # None /\ call.op = "signKey"
  <2>1. date \in Int /\ due = Min({date, LastDate})
    BY <1>2, <1>6
  <2>2. told = IF due - t > 0 THEN due - t ELSE Unset
    BY <1>6, <2>1 DEF Rightly, CertExpire, DatedOps
  <2>3. due \in Int
    BY <1>1, <2>1, LesserOfTwo
  <2>4. ASSUME due > t PROVE Expires(call) \in due..(due + call.at - t)
    <3>1. told = due - t /\ told # 0
      BY <2>2, <2>3, <2>4
    <3>2. Expires(call) = call.at + told
      BY <1>6, <3>1 DEF Expires, EngineExpiry
    <3> HIDE DEF told
    <3>3. QED
      BY <2>3, <3>1, <3>2
  <2>5. QED
    BY <1>6, <2>4
<1>7. CASE date # None /\ call.op = "addExistingSubkey"
  <2>1. told = date % Unsigned32 /\ date \in 0..(Unsigned32 - 1) /\ due = date
    BY <1>2, <1>7 DEF Rightly, SubkeyTime, DatedOps
  <2>2. Expires(call) = date
    BY <1>1, <1>7, <2>1, Fits DEF Expires
  <2>3. QED
    BY <1>7, <2>1, <2>2
<1>8. QED
  BY <1>3, <1>4, <1>5, <1>6, <1>7 DEF DatedOps

\* A key, a subkey or a certification expires when it was asked to, however long its job
\* waited for its thread, and a change to a past date never makes it unlimited (the worker
\* functions of the jobs with a date, and what they tell GpgME).
THEOREM ExpiryKept == Spec => []ExpiryIsKept
<1> DEFINE Inv == OwnerInv /\ CallsInv /\ DatesInv
<1>1. Init => Inv
  <2>1. Init => DatesInv
    BY DEF Init, DatesInv
  <2>2. QED
    BY <2>1, OwnerInit, CallsInit
<1>2. Inv /\ [Next]_vars => Inv'
  BY OwnerStep, CallsStep, DatesStep
<1>3. Inv => ExpiryIsKept
  <2> SUFFICES ASSUME Inv, NEW call \in DatedCalls
               PROVE  /\ Date = None => Expires(call) = Never
                      /\ Date # None /\ Wanted(call) > entered =>
                           Expires(call) \in Wanted(call)..(Wanted(call) + call.at - entered)
                      /\ Date # None /\ call.op = "setExpire" /\ Date <= entered =>
                           Expires(call) \in (entered + 1)..(call.at + 1)
    BY DEF ExpiryIsKept
  <2>0. req \in RequestSet
    BY Zenon DEF OwnerInv
  <2>1. req.kind \in DatedKinds /\ call.op \in DatedOps
    BY DEF DatedCalls
  <2>2. Rightly(call, req, entered) /\ call.at \in entered..clock /\ clock \in Nat /\ entered \in 0..clock
    BY <2>1 DEF DatesInv, DatedCalls, Calls
  <2>3. entered \in Nat /\ call.at \in Nat /\ entered <= call.at
    BY <2>2
  <2>4. Date = DateOf(req) /\ Wanted(call) = IF call.op = "signKey" THEN Min({Date, LastDate}) ELSE Date
    BY DEF Date, Wanted
  <2>5. QED
    BY <2>0, <2>1, <2>2, <2>3, <2>4, RightlyExpires
<1>4. QED
  BY <1>1, <1>2, <1>3, PTL DEF Spec

------------------------------------------------------------------------------
(* The key for a mailbox                                                   *)

Best(best, c, canEncrypt) == IF Eligible(c, canEncrypt) /\ Better(c, best, canEncrypt) THEN c ELSE best

\* The choice is made one candidate after the other.
LEMMA ChosenSteps ==
  ASSUME NEW C, NEW cands \in Seq(C), NEW canEncrypt
  PROVE  \E g \in [0..Len(cands) -> C \cup {NoCandidate}] :
           /\ g[0] = NoCandidate
           /\ \A i \in 0..(Len(cands) - 1) : g[i + 1] = Best(g[i], cands[i + 1], canEncrypt)
           /\ g[Len(cands)] = Chosen(cands, canEncrypt)
<1> DEFINE n == Len(cands)
           A == C \cup {NoCandidate}
           step == [p \in A \X (1..n) |-> Best(p[1], cands[p[2]], canEncrypt)]
           Is(h) == h = [s \in SUBSET (1..n) |->
                           IF s = {} THEN NoCandidate
                           ELSE Best(h[s \ {Max(s)}], cands[Max(s)], canEncrypt)]
<1>1. n \in Nat /\ DOMAIN cands = 1..n /\ \A i \in 1..n : cands[i] \in C
  OBVIOUS
<1>2. Chosen(cands, canEncrypt) = (CHOOSE h : Is(h))[1..n]
  BY <1>1 DEF Chosen, FoldLeft, MapThenFoldSet, Best
<1>3. NoCandidate \in A /\ step \in [A \X (1..n) -> A]
  BY <1>1 DEF Best
<1>4. \A a \in A, i \in 1..n : step[<<a, i>>] = Best(a, cands[i], canEncrypt)
  OBVIOUS
<1> HIDE DEF A, step, n
<1>5. PICK h : Folds(A, step, NoCandidate, n, h)
  BY <1>1, <1>3, FoldExists
<1>6. Is(h)
  <2>1. ASSUME NEW s \in SUBSET (1..n)
        PROVE  h[s] = IF s = {} THEN NoCandidate ELSE Best(h[s \ {Max(s)}], cands[Max(s)], canEncrypt)
    <3>1. s # {} => Max(s) \in 1..n /\ h[s \ {Max(s)}] \in A
      BY <1>1, <1>5, GreatestIn DEF Folds
    <3>2. QED
      BY <1>4, <1>5, <3>1 DEF Folds, FoldStep
  <2>2. h = [s \in SUBSET (1..n) |-> h[s]]
    BY <1>5 DEF Folds
  <2>3. QED
    BY <2>1, <2>2
<1>7. PICK f : Is(f) /\ f = (CHOOSE k : Is(k))
  <2> HIDE DEF Is
  <2>1. QED
    BY <1>6
<1>8. Follows(A, step, NoCandidate, n, f)
  BY <1>1, <1>3, <1>4, <1>7, GreatestIn DEF Follows
<1> HIDE DEF Is
<1>9. PICK g : Steps(A, step, NoCandidate, n, g) /\ g[n] = f[1..n]
  BY ONLY <1>8, FoldSteps
<1>10. \A i \in 0..(n - 1) : g[i + 1] = Best(g[i], cands[i + 1], canEncrypt)
  <2>1. \A i \in 0..(n - 1) : i \in 0..n /\ i + 1 \in 1..n
    BY <1>1
  <2>2. QED
    BY <1>4, <1>9, <2>1 DEF Steps
<1>11. g[n] = Chosen(cands, canEncrypt)
  BY <1>2, <1>7, <1>9
<1>12. QED
  BY <1>9, <1>10, <1>11 DEF n, A, Steps
\* A candidate, as requests have them.
CandidateSet == [encrypts : BOOLEAN, ok : BOOLEAN, validity : Nat, time : Nat, place : Nat \ {0}]

Usual(c) == c.ok \/ c.validity = 0
AllUsual(cands, canEncrypt) == \A j \in 1..Len(cands) : Eligible(cands[j], canEncrypt) => Usual(cands[j])

\* What BestKey says of the first n candidates.
Outdoes(best, c, canEncrypt) ==
  /\ c.validity <= best.validity
  /\ c.ok => best.ok
  /\ c.ok /\ c.validity = best.validity => Age(c, canEncrypt) <= Age(best, canEncrypt)

OneOf(best, cands, canEncrypt, n) ==
  /\ best = NoCandidate \/ \E j \in 1..n : best = cands[j] /\ Eligible(cands[j], canEncrypt)
  /\ \A j \in 1..n : Eligible(cands[j], canEncrypt) => best # NoCandidate

UsableFirst(best, cands, canEncrypt, n) ==
  \A j \in 1..n : Eligible(cands[j], canEncrypt) /\ cands[j].ok => best.ok \/ best.validity > 0

BestOf(best, cands, canEncrypt, n) ==
  /\ OneOf(best, cands, canEncrypt, n)
  /\ UsableFirst(best, cands, canEncrypt, n)
  /\ AllUsual(cands, canEncrypt) =>
       \A j \in 1..n : Eligible(cands[j], canEncrypt) => Outdoes(best, cands[j], canEncrypt)

\* Better is transitive as far as it is needed: what the better one replaces it outdoes.
LEMMA BetterOutdoes ==
  ASSUME NEW new \in CandidateSet, NEW old \in CandidateSet \cup {NoCandidate}, NEW other \in CandidateSet,
         NEW canEncrypt \in BOOLEAN, Usual(new), Usual(old), Usual(other)
  PROVE  /\ old # NoCandidate /\ Better(new, old, canEncrypt) /\ Outdoes(old, other, canEncrypt)
            => Outdoes(new, other, canEncrypt)
         /\ old # NoCandidate /\ ~Better(new, old, canEncrypt) => Outdoes(old, new, canEncrypt)
<1>1. new.place # 0 /\ NoCandidate.place = 0 /\ (old # NoCandidate => old.place # 0)
  BY DEF CandidateSet, NoCandidate
<1>2. ASSUME NEW c \in CandidateSet \cup {NoCandidate}
      PROVE  c.ok \in BOOLEAN /\ c.validity \in Nat /\ Age(c, canEncrypt) \in Nat
  <2>1. CASE c = NoCandidate
    BY <2>1 DEF NoCandidate, Age
  <2>2. CASE c \in CandidateSet
    BY <2>2 DEF CandidateSet, Age
  <2>3. QED
    BY <2>1, <2>2
<1>4. new.ok \in BOOLEAN /\ new.validity \in Nat /\ Age(new, canEncrypt) \in Nat
  BY <1>2
<1>5. old.ok \in BOOLEAN /\ old.validity \in Nat /\ Age(old, canEncrypt) \in Nat
  BY <1>2
<1>6. other.ok \in BOOLEAN /\ other.validity \in Nat /\ Age(other, canEncrypt) \in Nat
  BY <1>2
<1> DEFINE nv == new.validity  ov == old.validity  tv == other.validity
           na == Age(new, canEncrypt)  oa == Age(old, canEncrypt)  ta == Age(other, canEncrypt)
<1>7. (old # NoCandidate /\ Better(new, old, canEncrypt)) <=>
      (old # NoCandidate /\ ((~old.ok /\ new.ok) \/ ov < nv \/ (ov = nv /\ new.ok /\ na > oa)))
  BY <1>1 DEF Better
<1> HIDE DEF nv, ov, tv, na, oa, ta
<1>8. QED
  BY <1>1, <1>4, <1>5, <1>6, <1>7 DEF Usual, Outdoes, nv, ov, tv, na, oa, ta

LEMMA ChosenIsBest ==
  ASSUME NEW cands \in Seq(CandidateSet), NEW canEncrypt \in BOOLEAN
  PROVE  BestOf(Chosen(cands, canEncrypt), cands, canEncrypt, Len(cands))
<1> DEFINE n == Len(cands)
<1>1. n \in Nat /\ \A i \in 1..n : cands[i] \in CandidateSet
  OBVIOUS
<1>2. PICK g \in [0..n -> CandidateSet \cup {NoCandidate}] :
        /\ g[0] = NoCandidate
        /\ \A i \in 0..(n - 1) : g[i + 1] = Best(g[i], cands[i + 1], canEncrypt)
        /\ g[n] = Chosen(cands, canEncrypt)
  BY ChosenSteps
<1> DEFINE Good == {i \in Nat : i <= n => BestOf(g[i], cands, canEncrypt, i)}
<1>3. 0 \in Good
  BY <1>2 DEF BestOf, OneOf, UsableFirst
<1>4. ASSUME NEW i \in Nat, i \in Good, i + 1 <= n PROVE BestOf(g[i + 1], cands, canEncrypt, i + 1)
  <2> DEFINE new == cands[i + 1]  old == g[i]
  <2>1. i \in 0..(n - 1) /\ i \in 0..n /\ i + 1 \in 1..n
    BY <1>1, <1>4
  <2>2. new \in CandidateSet /\ old \in CandidateSet \cup {NoCandidate}
    BY <1>1, <1>2, <2>1
  <2>3. OneOf(old, cands, canEncrypt, i) /\ BestOf(old, cands, canEncrypt, i)
    BY <1>4 DEF BestOf
  <2>4. 1..(i + 1) = 1..i \cup {i + 1} /\ \A j \in 1..i : j \in 1..n
    BY <1>4, <1>1
  <2>5. g[i + 1] = Best(old, new, canEncrypt)
    BY <1>2, <2>1
  <2>6. ASSUME AllUsual(cands, canEncrypt)
        PROVE  /\ Usual(old) /\ (Eligible(new, canEncrypt) => Usual(new))
               /\ \A j \in 1..i : Eligible(cands[j], canEncrypt) => Usual(cands[j])
    <3>1. \A j \in 1..n : Eligible(cands[j], canEncrypt) => Usual(cands[j])
      BY <2>6 DEF AllUsual
    <3>2. Usual(NoCandidate)
      BY DEF Usual, NoCandidate
    <3>3. old = NoCandidate \/ \E j \in 1..i : old = cands[j] /\ Eligible(cands[j], canEncrypt)
      BY <2>3 DEF OneOf
    <3> HIDE DEF n
    <3>4. QED
      BY <2>1, <2>4, <3>1, <3>2, <3>3
  <2>7. new # NoCandidate /\ Better(new, NoCandidate, canEncrypt) /\ new = cands[i + 1]
    BY <2>2 DEF CandidateSet, NoCandidate, Better
  <2>8. \A j \in 1..i : cands[j] \in CandidateSet
    BY <1>1, <2>4
  <2> HIDE DEF new, old
  <2>9. CASE Eligible(new, canEncrypt) /\ Better(new, old, canEncrypt)
    <3>1. g[i + 1] = new
      BY <2>5, <2>9 DEF Best
    <3>2. OneOf(new, cands, canEncrypt, i + 1)
      BY <2>4, <2>7, <2>9 DEF OneOf
    <3>3. ASSUME AllUsual(cands, canEncrypt), NEW j \in 1..i, Eligible(cands[j], canEncrypt)
          PROVE  Outdoes(new, cands[j], canEncrypt)
      <4>1. old # NoCandidate /\ Outdoes(old, cands[j], canEncrypt)
        BY <2>3, <3>3 DEF BestOf, OneOf
      <4>2. cands[j] \in CandidateSet /\ Usual(cands[j]) /\ Usual(old) /\ Usual(new)
        BY <2>6, <2>8, <2>9, <3>3
      <4>3. QED
        BY <2>2, <2>9, <4>1, <4>2, BetterOutdoes
    <3>4. Outdoes(new, new, canEncrypt)
      BY <2>2 DEF CandidateSet, Age, Outdoes
    <3>5. UsableFirst(new, cands, canEncrypt, i + 1)
      <4>1. CASE old = NoCandidate
        <5>1. \A j \in 1..i : ~Eligible(cands[j], canEncrypt)
          BY <2>3, <4>1 DEF OneOf
        <5>2. QED
          BY <2>4, <2>7, <5>1 DEF UsableFirst
      <4>2. CASE old # NoCandidate
        <5>1. old.place # 0 /\ old.validity \in Nat /\ new.validity \in Nat
          BY <2>2, <4>2 DEF CandidateSet
        <5>2. new.ok \/ new.validity > 0
          BY <2>9, <5>1 DEF Better
        <5>3. QED
          BY <5>2 DEF UsableFirst
      <4>3. QED
        BY <4>1, <4>2
    <3>6. QED
      BY <2>4, <2>7, <3>1, <3>2, <3>3, <3>4, <3>5 DEF BestOf
  <2>10. CASE ~(Eligible(new, canEncrypt) /\ Better(new, old, canEncrypt))
    <3>1. g[i + 1] = old
      BY <2>5, <2>10 DEF Best
    <3>2. Eligible(new, canEncrypt) => old # NoCandidate
      BY <2>7, <2>10
    <3>3. OneOf(old, cands, canEncrypt, i + 1)
      BY <2>3, <2>4, <2>7, <3>2 DEF OneOf
    <3>4. AllUsual(cands, canEncrypt) /\ Eligible(new, canEncrypt) => Outdoes(old, new, canEncrypt)
      BY <2>2, <2>6, <2>10, <3>2, BetterOutdoes
    <3>5. UsableFirst(old, cands, canEncrypt, i + 1)
      <4>1. Eligible(new, canEncrypt) /\ new.ok => old.ok
        BY <2>2, <2>10 DEF Better, CandidateSet, NoCandidate
      <4>2. UsableFirst(old, cands, canEncrypt, i)
        BY <2>3 DEF BestOf
      <4>3. QED
        BY <2>4, <2>7, <4>1, <4>2 DEF UsableFirst
    <3>6. QED
      BY <2>3, <2>4, <2>7, <3>1, <3>3, <3>4, <3>5 DEF BestOf
  <2>11. QED
    BY <2>9, <2>10
<1>5. Good = Nat
  <2>1. ASSUME NEW i \in Nat, i \in Good PROVE i + 1 \in Good
    BY <1>4, <2>1
  <2>2. Good \in SUBSET Nat
    OBVIOUS
  <2> HIDE DEF Good
  <2>3. QED
    BY <1>3, <2>1, <2>2, AllNumbers
<1>6. BestOf(g[n], cands, canEncrypt, n)
  <2>1. n \in Good
    BY <1>1, <1>5
  <2>2. QED
    BY <1>1, <2>1
<1>7. QED
  BY <1>2, <1>6

\* There is a key for the mailbox once the job is done without an error, and that is the choice.
ChoiceInv == req.kind = "keyForMailbox" =>
  /\ stage \notin {"working", "logging"}
  /\ stage \notin Ended => found = NothingFound
  /\ stage \in Ended /\ code = "ok" => found.best = Chosen(req.a.ring, req.a.canEncrypt)

LEMMA ChoiceOutside ==
  ASSUME OwnerInv, ChoiceInv,
         CreateJob \/ Configure \/ Reconfigure \/ Start \/ StartNow \/ Tick \/ Report
         \/ DeferredDelete \/ DeleteWrapper
  PROVE  ChoiceInv'
<1>1. UNCHANGED req
  BY DEF CreateJob, Configure, Reconfigure, Start, StartNow, Tick, Report, DeferredDelete, DeleteWrapper
<1>2. CASE CreateJob \/ Start \/ StartNow
  <2>1. stage' \in {"created", "crashed", "no job", "refused", "prepared", "idle", "started"}
    BY <1>2 DEF CreateJob, Start, StartNow
  <2>2. UNCHANGED found
    BY <1>2 DEF CreateJob, Start, StartNow, resultVars
  <2>3. stage \notin Ended
    BY <1>2 DEF CreateJob, Start, StartNow, Ended
  <2>4. QED
    BY <1>1, <2>1, <2>2, <2>3 DEF ChoiceInv, Ended
<1>3. CASE Configure \/ Reconfigure \/ Tick \/ Report \/ DeferredDelete \/ DeleteWrapper
  <2>1. UNCHANGED <<code, found>>
    BY <1>3 DEF Configure, Reconfigure, Tick, Report, DeferredDelete, DeleteWrapper, resultVars
  <2>2. /\ stage' \notin {"working", "logging"} \/ stage' = stage
        /\ stage' \in Ended <=> stage \in Ended
    BY <1>3 DEF Configure, Reconfigure, Tick, Report, DeferredDelete, DeleteWrapper, Ended
  <2>3. QED
    BY <1>1, <2>1, <2>2 DEF ChoiceInv
<1>4. QED
  BY <1>2, <1>3

LEMMA ChoiceWorker ==
  ASSUME OwnerInv, ChoiceInv, WorkerStep \/ DataStep \/ ListingStops
  PROVE  ChoiceInv'
<1>1. UNCHANGED req
  BY WorkerStays
<1> SUFFICES ASSUME req.kind = "keyForMailbox"
             PROVE  /\ stage' \notin {"working", "logging"}
                    /\ stage' \notin Ended => found' = NothingFound
                    /\ stage' \in Ended /\ code' = "ok" => found'.best = Chosen(req.a.ring, req.a.canEncrypt)
  BY <1>1 DEF ChoiceInv
<1>2. stage \in {"started", "listing"}
  BY WorkerStays DEF ChoiceInv, Running
<1>3. CASE EnterWorker \/ NothingToRefresh
  BY <1>3 DEF EnterWorker, NothingToRefresh, NestingKinds
<1>4. CASE NoPartFile
  BY <1>4 DEF NoPartFile, Ended
<1>5. CASE EnterListing \/ ListingStep \/ ListingStops
  <2>1. stage' = "listing"
    BY <1>2, <1>5 DEF EnterListing, ListingStep, ListingStops
  <2>2. UNCHANGED found
    BY <1>5 DEF EnterListing, ListingStep, ListingStops, resultVars
  <2>3. QED
    BY <1>2, <2>1, <2>2 DEF ChoiceInv, Ended
<1>6. CASE ListingReturns \/ RefreshEnds
  BY <1>6 DEF ListingReturns, RefreshEnds, ListingKinds
<1>7. CASE ChooseKey
  <2>1. PICK n \in 0..Len(req.a.ring) :
          /\ result = "ok" => n = Len(req.a.ring)
          /\ found' = IF result \in {"ok", "canceled"}
                      THEN [found EXCEPT !.best = Chosen(SubSeq(req.a.ring, 1, n), req.a.canEncrypt)]
                      ELSE found
    BY <1>7 DEF ChooseKey
  <2>2. stage' = "returned" /\ code' = result
    BY <1>7 DEF ChooseKey
  <2>3. req.a.ring \in Seq(CandidateSet)
    BY CandidatesKnown DEF OwnerInv, CandidateSet
  <2>4. SubSeq(req.a.ring, 1, Len(req.a.ring)) = req.a.ring
    BY <2>3, SubSeqFull
  <2>5. found = NothingFound
    BY <1>2 DEF ChoiceInv, Ended
  <2>6. code' = "ok" => found' = [NothingFound EXCEPT !.best = Chosen(req.a.ring, req.a.canEncrypt)]
    BY <2>1, <2>2, <2>4, <2>5
  <2>7. QED
    BY <2>2, <2>6 DEF NothingFound, Ended
<1>8. CASE DataStep \/ ProcessSends \/ ReadDevice \/ TakeLog \/ CallEngine \/ CallImport \/ RunProcess \/ CallList
           \/ ReturnEarly
  BY <1>2, <1>8, DataStays DEF ProcessSends, ReadDevice, TakeLog, CallEngine, CallImport, RunProcess, CallList,
                               ReturnEarly, IsNext
<1>9. QED
  BY <1>3, <1>4, <1>5, <1>6, <1>7, <1>8 DEF WorkerStep

LEMMA ChoiceStep ==
  ASSUME OwnerInv, ChoiceInv, [Next]_vars
  PROVE  ChoiceInv'
<1>1. CASE CreateJob \/ Configure \/ Reconfigure \/ Start \/ StartNow \/ Tick \/ Report
           \/ DeferredDelete \/ DeleteWrapper
  BY <1>1, ChoiceOutside
<1>2. CASE WorkerStep \/ DataStep \/ ListingStops
  BY <1>2, ChoiceWorker
<1>3. CASE UNCHANGED vars
  BY <1>3 DEF ChoiceInv, vars, resultVars
<1>4. QED
  BY <1>1, <1>2, <1>3 DEF Next

\* do_work() finds a key for the mailbox if and only if there is one. It is one of them, one
\* that is not usable displaces a usable one only by a validity of its own, and if only usable
\* keys have a validity it has the highest one, and is one that is not usable only if there is
\* no other (keyformailboxjob.h:58-60).
THEOREM BestIsChosen == Spec => []BestKey
<1>1. Init => ChoiceInv
  BY DEF Init, ChoiceInv, Ended
<1>2. OwnerInv /\ ChoiceInv => BestKey
  <2> SUFFICES ASSUME OwnerInv, ChoiceInv, stage \in Ended, req.kind = "keyForMailbox", code = "ok"
               PROVE  BestKey
    BY DEF BestKey
  <2> DEFINE ring == req.a.ring  canEncrypt == req.a.canEncrypt  best == found.best
  <2>1. ring \in Seq(CandidateSet) /\ canEncrypt \in BOOLEAN
    BY CandidatesKnown DEF OwnerInv, CandidateSet
  <2>2. BestOf(best, ring, canEncrypt, Len(ring)) /\ OneOf(best, ring, canEncrypt, Len(ring))
    BY <2>1, ChosenIsBest DEF ChoiceInv, BestOf
  <2>3. \A other \in Usable : \E j \in 1..Len(ring) : other = ring[j] /\ Eligible(ring[j], canEncrypt)
    BY <2>1 DEF Usable
  <2>4. \A j \in 1..Len(ring) : Eligible(ring[j], canEncrypt) => ring[j] \in Usable
    BY <2>1 DEF Usable
  <2>5. \A j \in 1..Len(ring) : ring[j].place # 0
    <3>1. \A j \in 1..Len(ring) : ring[j] \in CandidateSet
      BY <2>1
    <3>2. \A c \in CandidateSet : c.place # 0
      BY DEF CandidateSet
    <3>3. QED
      BY <3>1, <3>2
  <2> HIDE DEF ring, canEncrypt, best
  <2>6. (best.place = 0 <=> Usable = {}) /\ (best.place # 0 => best \in Usable)
    <3>1. CASE best = NoCandidate
      <4>1. best.place = 0
        BY <3>1 DEF NoCandidate
      <4>2. QED
        BY <2>2, <2>3, <3>1, <4>1 DEF OneOf
    <3>2. CASE \E j \in 1..Len(ring) : best = ring[j] /\ Eligible(ring[j], canEncrypt)
      BY <2>4, <2>5, <3>2
    <3>3. QED
      BY <2>2, <3>1, <3>2 DEF OneOf
  <2>7. ASSUME \A c \in Usable : c.ok \/ c.validity = 0, NEW other \in Usable
        PROVE  Outdoes(best, other, canEncrypt)
    <3>1. AllUsual(ring, canEncrypt)
      BY <2>4, <2>7 DEF AllUsual, Usual
    <3>2. QED
      BY <2>2, <2>3, <3>1 DEF BestOf
  <2>8. ASSUME NEW c \in Usable, c.ok
        PROVE  best.ok \/ best.validity > 0
    BY <2>2, <2>3, <2>8 DEF BestOf, UsableFirst
  <2>9. QED
    BY <2>6, <2>7, <2>8 DEF BestKey, Outdoes, best, canEncrypt
<1>3. QED
  BY <1>1, <1>2, OwnerInit, OwnerStep, ChoiceStep, PTL DEF Spec

------------------------------------------------------------------------------
(* The lists of all keys                                                   *)

\* Keys, lists of keys in the order of their fingerprints, and lists that hold no key twice.
KeySet == [fpr : Nat, secret : BOOLEAN]
Elements(list) == {list[i] : i \in 1..Len(list)}
Ascending(list) == \A i, k \in 1..Len(list) : i < k => list[i].fpr <= list[k].fpr
Strict(list) == \A i, k \in 1..Len(list) : i < k => list[i].fpr < list[k].fpr
AscendingLists == {list \in Seq(KeySet) : Ascending(list)}

LEMMA KeyTypes ==
  ASSUME NEW list \in Seq(KeySet)
  PROVE  /\ Len(list) \in Nat /\ DOMAIN list = 1..Len(list)
         /\ \A i \in 1..Len(list) : list[i] \in KeySet /\ list[i].fpr \in Nat /\ list[i].secret \in BOOLEAN
<1>1. \A key \in KeySet : key.fpr \in Nat /\ key.secret \in BOOLEAN
  BY DEF KeySet
<1>2. \A i \in 1..Len(list) : list[i] \in KeySet
  OBVIOUS
<1>3. QED
  BY <1>1, <1>2

LEMMA AscendingTypes ==
  ASSUME NEW list \in AscendingLists
  PROVE  list \in Seq(KeySet) /\ Ascending(list)
  BY DEF AscendingLists

\* The keys that go before another one are the first of a list.
LEMMA FirstOnes ==
  ASSUME NEW list \in AscendingLists, NEW key \in KeySet
  PROVE  \E m \in 0..Len(list) :
           /\ {i \in DOMAIN list : list[i].fpr <= key.fpr} = 1..m
           /\ Cardinality({i \in DOMAIN list : list[i].fpr <= key.fpr}) = m
<1> DEFINE n == Len(list)  S == {i \in DOMAIN list : list[i].fpr <= key.fpr}
           Out == (1..(n + 1)) \ S
<1>1. n \in Nat /\ DOMAIN list = 1..n /\ key.fpr \in Nat /\ Ascending(list)
      /\ \A i \in 1..n : list[i].fpr \in Nat
  <2>1. key.fpr \in Nat
    BY DEF KeySet
  <2>2. QED
    BY <2>1, AscendingTypes, KeyTypes
<1>2. Out \in SUBSET Nat /\ n + 1 \in Out
  BY <1>1
<1>3. PICK p \in Out : \A q \in Out : p <= q
  BY <1>2, LeastNumber
<1>4. p \in 1..(n + 1) /\ p \notin S
  BY <1>3
<1>5. ASSUME NEW i \in 1..(p - 1) PROVE i \in S
  <2>1. i \in 1..(n + 1) /\ i < p
    BY <1>1, <1>4
  <2>2. QED
    BY <1>1, <1>3, <1>4, <2>1
<1>6. ASSUME NEW i \in S PROVE i \in 1..(p - 1)
  <2>1. i \in 1..n /\ list[i].fpr <= key.fpr
    BY <1>1
  <2>2. i > p => p \in 1..n /\ list[p].fpr <= list[i].fpr
    BY <1>1, <1>4, <2>1 DEF Ascending
  <2>3. i > p => list[p].fpr <= key.fpr
    BY <1>1, <2>1, <2>2
  <2>4. ~(i > p) /\ i # p
    BY <1>1, <1>4, <2>2, <2>3
  <2>5. QED
    BY <1>1, <1>4, <2>1, <2>4
<1>7. S = 1..(p - 1) /\ p - 1 \in 0..n
  BY <1>1, <1>4, <1>5, <1>6
<1>8. Cardinality(1..(p - 1)) = p - 1
  BY <1>1, <1>7, FS_Interval
<1>9. QED
  BY <1>7, <1>8

LEMMA PartOf ==
  ASSUME NEW S, NEW seq \in Seq(S), NEW m \in 0..Len(seq)
  PROVE  /\ SubSeq(seq, 1, m) \in Seq(S) /\ Len(SubSeq(seq, 1, m)) = m
         /\ \A i \in 1..m : SubSeq(seq, 1, m)[i] = seq[i]
         /\ SubSeq(seq, m + 1, Len(seq)) \in Seq(S) /\ Len(SubSeq(seq, m + 1, Len(seq))) = Len(seq) - m
         /\ \A i \in 1..(Len(seq) - m) : SubSeq(seq, m + 1, Len(seq))[i] = seq[m + i]
<1>1. SubSeq(seq, 1, m) \in Seq(S) /\ Len(SubSeq(seq, 1, m)) = m
  OBVIOUS
<1>2. \A i \in 1..m : SubSeq(seq, 1, m)[i] = seq[i]
  OBVIOUS
<1>3. SubSeq(seq, m + 1, Len(seq)) \in Seq(S) /\ Len(SubSeq(seq, m + 1, Len(seq))) = Len(seq) - m
  OBVIOUS
<1>4. \A i \in 1..(Len(seq) - m) : SubSeq(seq, m + 1, Len(seq))[i] = seq[m + i]
  OBVIOUS
<1>5. QED
  BY <1>1, <1>2, <1>3, <1>4

LEMMA InsertOne ==
  ASSUME NEW list \in AscendingLists, NEW key \in KeySet
  PROVE  /\ Insert(key, list) \in AscendingLists
         /\ Elements(Insert(key, list)) = Elements(list) \cup {key}
         /\ Strict(list) /\ (\A e \in Elements(list) : e.fpr # key.fpr) => Strict(Insert(key, list))
<1> DEFINE n == Len(list)
<1>1. PICK m \in 0..n :
        /\ {i \in DOMAIN list : list[i].fpr <= key.fpr} = 1..m
        /\ Cardinality({i \in DOMAIN list : list[i].fpr <= key.fpr}) = m
  BY FirstOnes
<1>2. /\ n \in Nat /\ DOMAIN list = 1..n /\ list \in Seq(KeySet) /\ Ascending(list)
      /\ key.fpr \in Nat /\ \A i \in 1..n : list[i] \in KeySet /\ list[i].fpr \in Nat
  <2>1. key.fpr \in Nat
    BY DEF KeySet
  <2>2. QED
    BY <2>1, AscendingTypes, KeyTypes
<1> DEFINE a == SubSeq(list, 1, m)  b == SubSeq(list, m + 1, n)  t == Insert(key, list)
<1>3. t = SubSeq(list, 1, (m + 1) - 1) \o <<key>> \o SubSeq(list, m + 1, n)
  BY <1>1 DEF Insert, InsertAt
<1>4. (m + 1) - 1 = m
  BY <1>1
<1>5. t = a \o <<key>> \o b
  BY <1>3, <1>4
<1>6. /\ a \in Seq(KeySet) /\ Len(a) = m /\ \A i \in 1..m : a[i] = list[i]
      /\ b \in Seq(KeySet) /\ Len(b) = n - m /\ \A i \in 1..(n - m) : b[i] = list[m + i]
  <2>1. /\ a \in Seq(KeySet) /\ Len(a) = m /\ \A i \in 1..m : a[i] = list[i]
    BY <1>1, <1>2, PartOf
  <2>2. /\ b \in Seq(KeySet) /\ Len(b) = n - m /\ \A i \in 1..(n - m) : b[i] = list[m + i]
    BY <1>1, <1>2, PartOf
  <2>3. QED
    BY <2>1, <2>2
<1> HIDE DEF a, b, t
<1>7. t \in Seq(KeySet) /\ Len(t) = n + 1
  BY <1>1, <1>2, <1>5, <1>6
<1>8. /\ \A i \in 1..m : t[i] = list[i]
      /\ t[m + 1] = key
      /\ \A i \in (m + 2)..(n + 1) : t[i] = list[i - 1]
  <2>1. \A i \in 1..m : t[i] = list[i]
    BY <1>1, <1>2, <1>5, <1>6
  <2>2. t[m + 1] = key
    <3>1. a \o <<key>> \in Seq(KeySet) /\ Len(a \o <<key>>) = m + 1 /\ (a \o <<key>>)[m + 1] = key
      BY <1>1, <1>6
    <3>2. t[m + 1] = (a \o <<key>>)[m + 1]
      BY <1>1, <1>5, <1>6, <3>1
    <3>3. QED
      BY <3>1, <3>2
  <2>3. ASSUME NEW i \in (m + 2)..(n + 1) PROVE t[i] = list[i - 1]
    <3>1. i - (m + 1) \in 1..(n - m) /\ m + (i - (m + 1)) = i - 1
      BY <1>1, <1>2
    <3>2. t[i] = b[i - (m + 1)]
      BY <1>1, <1>2, <1>5, <1>6, <3>1
    <3>3. QED
      BY <1>6, <3>1, <3>2
  <2>4. QED
    BY <2>1, <2>2, <2>3
<1>9. /\ \A i \in 1..m : list[i].fpr <= key.fpr
      /\ \A i \in (m + 1)..n : list[i].fpr > key.fpr
  <2>1. \A i \in 1..m : list[i].fpr <= key.fpr
    BY <1>1
  <2>2. \A i \in (m + 1)..n : i \in 1..n /\ i \notin 1..m
    BY <1>1, <1>2
  <2>3. \A i \in (m + 1)..n : ~(list[i].fpr <= key.fpr)
    BY <1>1, <1>2, <2>2
  <2>4. QED
    BY <1>2, <2>1, <2>2, <2>3
<1>10. ASSUME NEW i \in 1..Len(t), NEW k \in 1..Len(t), i < k
       PROVE  /\ t[i].fpr <= t[k].fpr
              /\ Strict(list) /\ (\A e \in Elements(list) : e.fpr # key.fpr) => t[i].fpr < t[k].fpr
  <2>1. CASE k <= m
    <3>1. i \in 1..n /\ k \in 1..n /\ t[i] = list[i] /\ t[k] = list[k]
      BY <1>1, <1>2, <1>7, <1>8, <1>10, <2>1
    <3>2. QED
      BY <1>2, <1>10, <3>1 DEF Ascending, Strict
  <2>2. CASE k = m + 1
    <3>1. i \in 1..m /\ i \in 1..n /\ t[i] = list[i] /\ t[k] = key
      BY <1>1, <1>2, <1>7, <1>8, <1>10, <2>2
    <3>2. list[i] \in Elements(list) /\ list[i].fpr <= key.fpr
      BY <1>9, <3>1 DEF Elements
    <3>3. QED
      BY <1>2, <3>1, <3>2
  <2>3. CASE k > m + 1
    <3>1. k \in (m + 2)..(n + 1) /\ k - 1 \in (m + 1)..n /\ k - 1 \in 1..n
      BY <1>1, <1>2, <1>7, <1>10, <2>3
    <3>2. t[k] = list[k - 1] /\ list[k - 1].fpr > key.fpr
      BY <1>8, <1>9, <3>1
    <3>3. CASE i <= m
      <4>1. i \in 1..m /\ i \in 1..n /\ i < k - 1
        BY <1>1, <1>2, <1>7, <1>10, <2>3, <3>3
      <4>2. t[i] = list[i]
        BY <1>8, <4>1
      <4>3. QED
        BY <1>2, <3>1, <3>2, <4>1, <4>2 DEF Ascending, Strict
    <3>4. CASE i = m + 1
      BY <1>2, <1>8, <3>1, <3>2, <3>4
    <3>5. CASE i > m + 1
      <4>1. i \in (m + 2)..(n + 1) /\ i - 1 \in 1..n /\ i - 1 < k - 1
        BY <1>1, <1>2, <1>7, <1>10, <2>3, <3>5
      <4>2. t[i] = list[i - 1]
        BY <1>8, <4>1
      <4>3. QED
        BY <1>2, <3>1, <3>2, <4>1, <4>2 DEF Ascending, Strict
    <3>6. QED
      BY <1>1, <1>7, <3>3, <3>4, <3>5
  <2>4. QED
    BY <1>1, <1>7, <2>1, <2>2, <2>3
<1>11. Elements(t) = Elements(list) \cup {key}
  <2>1. ASSUME NEW i \in 1..Len(t) PROVE t[i] \in Elements(list) \cup {key}
    <3>1. CASE i \in 1..m
      BY <1>1, <1>2, <1>8, <3>1 DEF Elements
    <3>2. CASE i = m + 1
      BY <1>8, <3>2
    <3>3. CASE i \in (m + 2)..(n + 1)
      <4>1. i - 1 \in 1..n
        BY <1>1, <1>2, <3>3
      <4>2. QED
        BY <1>8, <3>3, <4>1 DEF Elements
    <3>4. QED
      BY <1>1, <1>7, <3>1, <3>2, <3>3
  <2>2. ASSUME NEW i \in 1..n PROVE list[i] \in Elements(t)
    <3>1. CASE i <= m
      <4>1. i \in 1..m /\ i \in 1..(n + 1)
        BY <3>1, <1>1
      <4>2. QED
        BY <1>7, <1>8, <4>1 DEF Elements
    <3>2. CASE i > m
      <4>1. i + 1 \in (m + 2)..(n + 1) /\ i + 1 \in 1..(n + 1) /\ (i + 1) - 1 = i
        BY <1>1, <3>2
      <4>2. QED
        BY <1>7, <1>8, <4>1 DEF Elements
    <3>3. QED
      BY <1>1, <3>1, <3>2
  <2>3. key \in Elements(t)
    <3>1. m + 1 \in 1..(n + 1)
      BY <1>1, <1>2
    <3>2. QED
      BY <1>7, <1>8, <3>1 DEF Elements
  <2>4. QED
    BY <2>1, <2>2, <2>3 DEF Elements
<1>12. t \in AscendingLists
  BY <1>7, <1>10 DEF AscendingLists, Ascending
<1>13. Strict(list) /\ (\A e \in Elements(list) : e.fpr # key.fpr) => Strict(t)
  BY <1>10 DEF Strict
<1>14. QED
  BY <1>11, <1>12, <1>13 DEF t

\* A list with some keys inserted one after the other.
InsertedInto(base, list) == FoldLeft(LAMBDA all, key : Insert(key, all), base, list)

LEMMA InsertedSteps ==
  ASSUME NEW base \in AscendingLists, NEW list \in Seq(KeySet)
  PROVE  \E g \in [0..Len(list) -> AscendingLists] :
           /\ g[0] = base
           /\ \A i \in 0..(Len(list) - 1) : g[i + 1] = Insert(list[i + 1], g[i])
           /\ g[Len(list)] = InsertedInto(base, list)
<1> DEFINE n == Len(list)
           A == AscendingLists
           step == [p \in A \X (1..n) |-> Insert(list[p[2]], p[1])]
           Is(h) == h = [s \in SUBSET (1..n) |->
                           IF s = {} THEN base ELSE Insert(list[Max(s)], h[s \ {Max(s)}])]
<1>1. n \in Nat /\ DOMAIN list = 1..n /\ \A i \in 1..n : list[i] \in KeySet
  OBVIOUS
<1>2. InsertedInto(base, list) = (CHOOSE h : Is(h))[1..n]
  BY <1>1 DEF InsertedInto, FoldLeft, MapThenFoldSet
<1>3. base \in A /\ step \in [A \X (1..n) -> A]
  BY <1>1, InsertOne
<1>4. \A a \in A, i \in 1..n : step[<<a, i>>] = Insert(list[i], a)
  OBVIOUS
<1> HIDE DEF A, step, n
<1>5. PICK h : Folds(A, step, base, n, h)
  BY <1>1, <1>3, FoldExists
<1>6. Is(h)
  <2>1. ASSUME NEW s \in SUBSET (1..n)
        PROVE  h[s] = IF s = {} THEN base ELSE Insert(list[Max(s)], h[s \ {Max(s)}])
    <3>1. s # {} => Max(s) \in 1..n /\ h[s \ {Max(s)}] \in A
      BY <1>1, <1>5, GreatestIn DEF Folds
    <3>2. QED
      BY <1>4, <1>5, <3>1 DEF Folds, FoldStep
  <2>2. h = [s \in SUBSET (1..n) |-> h[s]]
    BY <1>5 DEF Folds
  <2>3. QED
    BY <2>1, <2>2
<1>7. PICK f : Is(f) /\ f = (CHOOSE k : Is(k))
  <2> HIDE DEF Is
  <2>1. QED
    BY <1>6
<1>8. Follows(A, step, base, n, f)
  BY <1>1, <1>3, <1>4, <1>7, GreatestIn DEF Follows
<1> HIDE DEF Is
<1>9. PICK g : Steps(A, step, base, n, g) /\ g[n] = f[1..n]
  BY ONLY <1>8, FoldSteps
<1>10. \A i \in 0..(n - 1) : g[i + 1] = Insert(list[i + 1], g[i])
  <2>1. \A i \in 0..(n - 1) : i \in 0..n /\ i + 1 \in 1..n
    BY <1>1
  <2>2. QED
    BY <1>4, <1>9, <2>1 DEF Steps
<1>11. g[n] = InsertedInto(base, list)
  BY <1>2, <1>7, <1>9
<1>12. QED
  BY <1>9, <1>10, <1>11 DEF n, A, Steps

\* The first keys of a list.
FirstOf(list, i) == {list[j] : j \in 1..i}
Distinct(list) == \A i, k \in 1..Len(list) : i # k => list[i].fpr # list[k].fpr

LEMMA OneMore ==
  ASSUME NEW list, NEW i \in Nat
  PROVE  FirstOf(list, i + 1) = FirstOf(list, i) \cup {list[i + 1]}
<1>1. 1..(i + 1) = 1..i \cup {i + 1}
  OBVIOUS
<1>2. QED
  BY <1>1 DEF FirstOf

LEMMA Inserted ==
  ASSUME NEW base \in AscendingLists, NEW list \in Seq(KeySet)
  PROVE  /\ InsertedInto(base, list) \in AscendingLists
         /\ Elements(InsertedInto(base, list)) = Elements(base) \cup Elements(list)
         /\ base = <<>> /\ Distinct(list) => Strict(InsertedInto(base, list))
<1> DEFINE n == Len(list)
<1>1. n \in Nat /\ \A i \in 1..n : list[i] \in KeySet
  OBVIOUS
<1>2. PICK g \in [0..n -> AscendingLists] :
        /\ g[0] = base
        /\ \A i \in 0..(n - 1) : g[i + 1] = Insert(list[i + 1], g[i])
        /\ g[n] = InsertedInto(base, list)
  BY InsertedSteps
<1> DEFINE Good == {i \in Nat : i <= n =>
                      /\ Elements(g[i]) = Elements(base) \cup FirstOf(list, i)
                      /\ base = <<>> /\ Distinct(list) => Strict(g[i])}
<1>3. 0 \in Good
  <2>1. FirstOf(list, 0) = {}
    BY DEF FirstOf
  <2>2. base = <<>> => Strict(base)
    BY DEF Strict
  <2>3. QED
    BY <1>2, <2>1, <2>2
<1>4. ASSUME NEW i \in Nat, i \in Good, i + 1 <= n
      PROVE  /\ Elements(g[i + 1]) = Elements(base) \cup FirstOf(list, i + 1)
             /\ base = <<>> /\ Distinct(list) => Strict(g[i + 1])
  <2>1. i \in 0..(n - 1) /\ i \in 0..n /\ i + 1 \in 1..n
    BY <1>1, <1>4
  <2>2. g[i] \in AscendingLists /\ list[i + 1] \in KeySet /\ g[i + 1] = Insert(list[i + 1], g[i])
    BY <1>1, <1>2, <2>1
  <2>3. /\ Elements(g[i]) = Elements(base) \cup FirstOf(list, i)
        /\ base = <<>> /\ Distinct(list) => Strict(g[i])
    BY <1>4
  <2>4. /\ Elements(g[i + 1]) = Elements(g[i]) \cup {list[i + 1]}
        /\ Strict(g[i]) /\ (\A e \in Elements(g[i]) : e.fpr # list[i + 1].fpr) => Strict(g[i + 1])
    BY <2>2, InsertOne
  <2>5. FirstOf(list, i + 1) = FirstOf(list, i) \cup {list[i + 1]}
    BY OneMore
  <2>6. ASSUME base = <<>>, Distinct(list) PROVE Strict(g[i + 1])
    <3>1. Elements(base) = {}
      BY <2>6 DEF Elements
    <3>2. ASSUME NEW e \in FirstOf(list, i) PROVE e.fpr # list[i + 1].fpr
      <4>1. PICK j \in 1..i : e = list[j]
        BY DEF FirstOf
      <4>2. j \in 1..n /\ j # i + 1
        BY <1>1, <1>4, <4>1
      <4>3. QED
        BY <2>1, <2>6, <4>1, <4>2 DEF Distinct
    <3>3. QED
      BY <2>3, <2>4, <2>6, <3>1, <3>2
  <2>7. QED
    BY <2>3, <2>4, <2>5, <2>6
<1>5. Good = Nat
  <2>1. ASSUME NEW i \in Nat, i \in Good PROVE i + 1 \in Good
    <3>1. i + 1 <= n => /\ Elements(g[i + 1]) = Elements(base) \cup FirstOf(list, i + 1)
                        /\ base = <<>> /\ Distinct(list) => Strict(g[i + 1])
      BY <1>4, <2>1
    <3>2. QED
      BY <3>1
  <2>2. Good \in SUBSET Nat
    OBVIOUS
  <2> HIDE DEF Good
  <2>3. QED
    BY <1>3, <2>1, <2>2, AllNumbers
<1>6. n \in Good /\ n \in 0..n /\ FirstOf(list, n) = Elements(list)
  BY <1>1, <1>5 DEF FirstOf, Elements
<1>7. /\ Elements(g[n]) = Elements(base) \cup FirstOf(list, n)
      /\ base = <<>> /\ Distinct(list) => Strict(g[n])
  BY <1>1, <1>6
<1>8. g[n] \in AscendingLists
  BY <1>2, <1>6
<1>9. QED
  BY <1>2, <1>6, <1>7, <1>8

\* std::sort() keeps all keys, and no two become one.
LEMMA SortedList ==
  ASSUME NEW list \in Seq(KeySet)
  PROVE  /\ Sorted(list) \in AscendingLists
         /\ Elements(Sorted(list)) = Elements(list)
         /\ Distinct(list) => Strict(Sorted(list))
<1>1. <<>> \in AscendingLists /\ Elements(<<>>) = {}
  BY DEF AscendingLists, Ascending, Elements
<1>2. Sorted(list) = InsertedInto(<<>>, list)
  BY DEF Sorted, InsertedInto
<1>3. QED
  BY <1>1, <1>2, Inserted

\* std::copy_if(), one key after the other.
Kept(secret, key) == IF key.secret THEN Append(secret, key) ELSE secret

LEMMA SecretSteps ==
  ASSUME NEW list \in Seq(KeySet)
  PROVE  \E g \in [0..Len(list) -> Seq(KeySet)] :
           /\ g[0] = <<>>
           /\ \A i \in 0..(Len(list) - 1) : g[i + 1] = Kept(g[i], list[i + 1])
           /\ g[Len(list)] = SecretOnes(list)
<1> DEFINE n == Len(list)
           A == Seq(KeySet)
           step == [p \in A \X (1..n) |-> Kept(p[1], list[p[2]])]
           Is(h) == h = [s \in SUBSET (1..n) |->
                           IF s = {} THEN <<>> ELSE Kept(h[s \ {Max(s)}], list[Max(s)])]
<1>1. n \in Nat /\ DOMAIN list = 1..n /\ \A i \in 1..n : list[i] \in KeySet
  OBVIOUS
<1>2. SecretOnes(list) = (CHOOSE h : Is(h))[1..n]
  BY <1>1 DEF SecretOnes, FoldLeft, MapThenFoldSet, Kept
<1>3. <<>> \in A /\ step \in [A \X (1..n) -> A]
  BY <1>1 DEF Kept
<1>4. \A a \in A, i \in 1..n : step[<<a, i>>] = Kept(a, list[i])
  OBVIOUS
<1> HIDE DEF A, step, n
<1>5. PICK h : Folds(A, step, <<>>, n, h)
  BY <1>1, <1>3, FoldExists
<1>6. Is(h)
  <2>1. ASSUME NEW s \in SUBSET (1..n)
        PROVE  h[s] = IF s = {} THEN <<>> ELSE Kept(h[s \ {Max(s)}], list[Max(s)])
    <3>1. s # {} => Max(s) \in 1..n /\ h[s \ {Max(s)}] \in A
      BY <1>1, <1>5, GreatestIn DEF Folds
    <3>2. QED
      BY <1>4, <1>5, <3>1 DEF Folds, FoldStep
  <2>2. h = [s \in SUBSET (1..n) |-> h[s]]
    BY <1>5 DEF Folds
  <2>3. QED
    BY <2>1, <2>2
<1>7. PICK f : Is(f) /\ f = (CHOOSE k : Is(k))
  <2> HIDE DEF Is
  <2>1. QED
    BY <1>6
<1>8. Follows(A, step, <<>>, n, f)
  BY <1>1, <1>3, <1>4, <1>7, GreatestIn DEF Follows
<1> HIDE DEF Is
<1>9. PICK g : Steps(A, step, <<>>, n, g) /\ g[n] = f[1..n]
  BY ONLY <1>8, FoldSteps
<1>10. \A i \in 0..(n - 1) : g[i + 1] = Kept(g[i], list[i + 1])
  <2>1. \A i \in 0..(n - 1) : i \in 0..n /\ i + 1 \in 1..n
    BY <1>1
  <2>2. QED
    BY <1>4, <1>9, <2>1 DEF Steps
<1>11. g[n] = SecretOnes(list)
  BY <1>2, <1>7, <1>9
<1>12. QED
  BY <1>9, <1>10, <1>11 DEF n, A, Steps

LEMMA ElementsAppended ==
  ASSUME NEW list \in Seq(KeySet), NEW key \in KeySet
  PROVE  /\ Append(list, key) \in Seq(KeySet) /\ Len(Append(list, key)) = Len(list) + 1
         /\ Elements(Append(list, key)) = Elements(list) \cup {key}
         /\ Distinct(list) /\ (\A e \in Elements(list) : e.fpr # key.fpr) => Distinct(Append(list, key))
         /\ Strict(list) /\ (\A e \in Elements(list) : e.fpr < key.fpr) => Strict(Append(list, key))
<1> DEFINE n == Len(list)  t == Append(list, key)
<1>1. n \in Nat /\ t \in Seq(KeySet) /\ Len(t) = n + 1 /\ t[n + 1] = key /\ \A i \in 1..n : t[i] = list[i]
  OBVIOUS
<1>2. 1..(n + 1) = 1..n \cup {n + 1}
  BY <1>1
<1>3. \A i \in 1..n : list[i] \in Elements(list)
  BY DEF Elements
<1>4. \A i \in 1..n : list[i].fpr \in Nat
  BY KeyTypes
<1>5. key.fpr \in Nat
  BY DEF KeySet
<1> HIDE DEF t
<1>6. Elements(t) = Elements(list) \cup {key}
  BY <1>1, <1>2 DEF Elements
<1>7. Distinct(list) /\ (\A e \in Elements(list) : e.fpr # key.fpr) => Distinct(t)
  BY <1>1, <1>2, <1>3 DEF Distinct
<1>8. Strict(list) /\ (\A e \in Elements(list) : e.fpr < key.fpr) => Strict(t)
  <2> SUFFICES ASSUME Strict(list), \A e \in Elements(list) : e.fpr < key.fpr,
                      NEW i \in 1..(n + 1), NEW k \in 1..(n + 1), i < k
               PROVE  t[i].fpr < t[k].fpr
    BY <1>1 DEF Strict
  <2>1. i \in 1..n /\ t[i] = list[i]
    BY <1>1
  <2>2. CASE k = n + 1
    BY <1>1, <1>3, <2>1, <2>2
  <2>3. CASE k # n + 1
    BY <1>1, <2>1, <2>3 DEF Strict
  <2>4. QED
    BY <2>2, <2>3
<1>9. QED
  BY <1>1, <1>6, <1>7, <1>8 DEF t

\* The secret keys of a list stay in their order.
LEMMA SecretList ==
  ASSUME NEW list \in Seq(KeySet)
  PROVE  /\ SecretOnes(list) \in Seq(KeySet)
         /\ Elements(SecretOnes(list)) = {key \in Elements(list) : key.secret}
         /\ Distinct(list) => Distinct(SecretOnes(list))
         /\ Strict(list) => Strict(SecretOnes(list))
<1> DEFINE n == Len(list)
<1>1. n \in Nat /\ \A i \in 1..n : list[i] \in KeySet /\ list[i].fpr \in Nat
  BY KeyTypes
<1>2. PICK g \in [0..n -> Seq(KeySet)] :
        /\ g[0] = <<>>
        /\ \A i \in 0..(n - 1) : g[i + 1] = Kept(g[i], list[i + 1])
        /\ g[n] = SecretOnes(list)
  BY SecretSteps
<1> DEFINE Good == {i \in Nat : i <= n =>
                      /\ Elements(g[i]) = {key \in FirstOf(list, i) : key.secret}
                      /\ Distinct(list) => Distinct(g[i])
                      /\ Strict(list) => Strict(g[i])}
<1>3. 0 \in Good
  <2>1. FirstOf(list, 0) = {} /\ Elements(<<>>) = {}
    BY DEF FirstOf, Elements
  <2>2. Distinct(<<>>) /\ Strict(<<>>)
    BY DEF Strict, Distinct
  <2>3. QED
    BY <1>2, <2>1, <2>2
<1>4. ASSUME NEW i \in Nat, i \in Good, i + 1 <= n
      PROVE  /\ Elements(g[i + 1]) = {key \in FirstOf(list, i + 1) : key.secret}
             /\ Distinct(list) => Distinct(g[i + 1])
             /\ Strict(list) => Strict(g[i + 1])
  <2>1. i \in 0..(n - 1) /\ i \in 0..n /\ i + 1 \in 1..n
    BY <1>1, <1>4
  <2>2. g[i] \in Seq(KeySet) /\ list[i + 1] \in KeySet /\ g[i + 1] = Kept(g[i], list[i + 1])
    BY <1>1, <1>2, <2>1
  <2>3. /\ Elements(g[i]) = {key \in FirstOf(list, i) : key.secret}
        /\ Distinct(list) => Distinct(g[i])
        /\ Strict(list) => Strict(g[i])
    BY <1>4, <2>1
  <2>4. FirstOf(list, i + 1) = FirstOf(list, i) \cup {list[i + 1]}
    BY OneMore
  <2>5. CASE ~list[i + 1].secret
    <3>1. g[i + 1] = g[i]
      BY <2>2, <2>5 DEF Kept
    <3>2. {key \in FirstOf(list, i + 1) : key.secret} = {key \in FirstOf(list, i) : key.secret}
      BY <2>4, <2>5
    <3>3. QED
      BY <2>3, <3>1, <3>2
  <2>6. CASE list[i + 1].secret
    <3>1. g[i + 1] = Append(g[i], list[i + 1])
      BY <2>2, <2>6 DEF Kept
    <3>2. {key \in FirstOf(list, i + 1) : key.secret} = {key \in FirstOf(list, i) : key.secret} \cup {list[i + 1]}
      BY <2>4, <2>6
    <3>3. ASSUME NEW e \in Elements(g[i])
          PROVE  /\ Distinct(list) => e.fpr # list[i + 1].fpr
                 /\ Strict(list) => e.fpr < list[i + 1].fpr
      <4>1. PICK j \in 1..i : e = list[j]
        BY <2>3 DEF FirstOf
      <4>2. j \in 1..n /\ j < i + 1
        BY <1>1, <1>4, <4>1
      <4>3. QED
        BY <2>1, <4>1, <4>2 DEF Distinct, Strict
    <3>4. QED
      BY <2>2, <2>3, <3>1, <3>2, <3>3, ElementsAppended
  <2>7. QED
    BY <2>5, <2>6
<1>5. Good = Nat
  <2>1. ASSUME NEW i \in Nat, i \in Good PROVE i + 1 \in Good
    <3>1. i + 1 <= n => /\ Elements(g[i + 1]) = {key \in FirstOf(list, i + 1) : key.secret}
                        /\ Distinct(list) => Distinct(g[i + 1])
                        /\ Strict(list) => Strict(g[i + 1])
      BY <1>4, <2>1
    <3>2. QED
      BY <3>1
  <2>2. Good \in SUBSET Nat
    OBVIOUS
  <2> HIDE DEF Good
  <2>3. QED
    BY <1>3, <2>1, <2>2, AllNumbers
<1>6. n \in Good /\ n \in 0..n /\ FirstOf(list, n) = Elements(list)
  <2>1. n \in Good /\ n \in 0..n
    <3> HIDE DEF Good
    <3>1. QED
      BY <1>1, <1>5
  <2>2. FirstOf(list, n) = Elements(list)
    BY DEF FirstOf, Elements
  <2>3. QED
    BY <2>1, <2>2
<1>7. /\ Elements(g[n]) = {key \in FirstOf(list, n) : key.secret}
      /\ Distinct(list) => Distinct(g[n])
      /\ Strict(list) => Strict(g[n])
  BY <1>1, <1>6
<1>8. g[n] \in Seq(KeySet)
  BY <1>2, <1>6
<1>9. QED
  BY <1>2, <1>6, <1>7, <1>8

\* One step of unique_by_merge().
Merged(done, key) ==
  IF done # <<>> /\ Last(done).fpr = key.fpr
  THEN [done EXCEPT ![Len(done)] = mergeWith(@, key)]
  ELSE Append(done, key)

LEMMA MergedType ==
  ASSUME NEW done \in Seq(KeySet), NEW key \in KeySet
  PROVE  /\ Merged(done, key) \in Seq(KeySet)
         /\ done # <<>> => Len(done) \in 1..Len(done) /\ mergeWith(done[Len(done)], key) \in KeySet
<1>1. done # <<>> => Len(done) \in 1..Len(done) /\ done[Len(done)] \in KeySet
  OBVIOUS
<1>2. \A k \in KeySet : mergeWith(k, key) \in KeySet
  BY DEF mergeWith, KeySet
<1>3. done # <<>> => [done EXCEPT ![Len(done)] = mergeWith(@, key)] \in Seq(KeySet)
  BY <1>1, <1>2
<1>4. QED
  BY <1>1, <1>2, <1>3 DEF Merged

LEMMA MergedSteps ==
  ASSUME NEW list \in Seq(KeySet)
  PROVE  \E g \in [0..Len(list) -> Seq(KeySet)] :
           /\ g[0] = <<>>
           /\ \A i \in 0..(Len(list) - 1) : g[i + 1] = Merged(g[i], list[i + 1])
           /\ g[Len(list)] = unique_by_merge(list)
<1> DEFINE n == Len(list)
           A == Seq(KeySet)
           step == [p \in A \X (1..n) |-> Merged(p[1], list[p[2]])]
           Is(h) == h = [s \in SUBSET (1..n) |->
                           IF s = {} THEN <<>> ELSE Merged(h[s \ {Max(s)}], list[Max(s)])]
<1>1. n \in Nat /\ DOMAIN list = 1..n /\ \A i \in 1..n : list[i] \in KeySet
  OBVIOUS
<1>2. unique_by_merge(list) = (CHOOSE h : Is(h))[1..n]
  BY <1>1 DEF unique_by_merge, FoldLeft, MapThenFoldSet, Merged
<1>3. <<>> \in A /\ step \in [A \X (1..n) -> A]
  BY <1>1, MergedType
<1>4. \A a \in A, i \in 1..n : step[<<a, i>>] = Merged(a, list[i])
  OBVIOUS
<1> HIDE DEF A, step, n
<1>5. PICK h : Folds(A, step, <<>>, n, h)
  BY <1>1, <1>3, FoldExists
<1>6. Is(h)
  <2>1. ASSUME NEW s \in SUBSET (1..n)
        PROVE  h[s] = IF s = {} THEN <<>> ELSE Merged(h[s \ {Max(s)}], list[Max(s)])
    <3>1. s # {} => Max(s) \in 1..n /\ h[s \ {Max(s)}] \in A
      BY <1>1, <1>5, GreatestIn DEF Folds
    <3>2. QED
      BY <1>4, <1>5, <3>1 DEF Folds, FoldStep
  <2>2. h = [s \in SUBSET (1..n) |-> h[s]]
    BY <1>5 DEF Folds
  <2>3. QED
    BY <2>1, <2>2
<1>7. PICK f : Is(f) /\ f = (CHOOSE k : Is(k))
  <2> HIDE DEF Is
  <2>1. QED
    BY <1>6
<1>8. Follows(A, step, <<>>, n, f)
  BY <1>1, <1>3, <1>4, <1>7, GreatestIn DEF Follows
<1> HIDE DEF Is
<1>9. PICK g : Steps(A, step, <<>>, n, g) /\ g[n] = f[1..n]
  BY ONLY <1>8, FoldSteps
<1>10. \A i \in 0..(n - 1) : g[i + 1] = Merged(g[i], list[i + 1])
  <2>1. \A i \in 0..(n - 1) : i \in 0..n /\ i + 1 \in 1..n
    BY <1>1
  <2>2. QED
    BY <1>4, <1>9, <2>1 DEF Steps
<1>11. g[n] = unique_by_merge(list)
  BY <1>2, <1>7, <1>9
<1>12. QED
  BY <1>9, <1>10, <1>11 DEF n, A, Steps


\* The fingerprints of the secret keys of a list.
SecretFprs(list) == {list[i].fpr : i \in {k \in DOMAIN list : list[k].secret}}

LEMMA MergeOne ==
  ASSUME NEW done \in Seq(KeySet), NEW key \in KeySet, Strict(done),
         done # <<>> => done[Len(done)].fpr <= key.fpr
  PROVE  /\ Strict(Merged(done, key))
         /\ Merged(done, key) # <<>> /\ Merged(done, key)[Len(Merged(done, key))].fpr = key.fpr
         /\ FprsOf(Merged(done, key)) = FprsOf(done) \cup {key.fpr}
         /\ SecretFprs(Merged(done, key)) = SecretFprs(done) \cup (IF key.secret THEN {key.fpr} ELSE {})
<1> DEFINE n == Len(done)  t == Merged(done, key)
<1>1. /\ n \in Nat /\ DOMAIN done = 1..n
      /\ \A i \in 1..n : done[i] \in KeySet /\ done[i].fpr \in Nat /\ done[i].secret \in BOOLEAN
  BY KeyTypes
<1>2. key.fpr \in Nat /\ key.secret \in BOOLEAN
  BY DEF KeySet
<1>3. t \in Seq(KeySet)
  BY MergedType
<1>4. CASE done # <<>> /\ done[n].fpr = key.fpr
  <2> DEFINE m == mergeWith(done[n], key)
  <2>1. n \in 1..n
    BY <1>4
  <2>2. t = [done EXCEPT ![n] = m]
    BY <1>4 DEF Merged, Last
  <2>3. m.fpr = key.fpr /\ m.secret = (done[n].secret \/ key.secret)
    <3>1. \A k \in KeySet : mergeWith(k, key).fpr = k.fpr /\ mergeWith(k, key).secret = (k.secret \/ key.secret)
      BY DEF mergeWith, KeySet
    <3>2. QED
      BY <1>1, <1>4, <2>1, <3>1
  <2> HIDE DEF m
  <2>4. Len(t) = n /\ DOMAIN t = 1..n /\ t[n] = m /\ \A i \in 1..n : i # n => t[i] = done[i]
    BY <1>1, <2>1, <2>2
  <2> HIDE DEF t
  <2>5. \A i \in 1..n : t[i].fpr = done[i].fpr
    BY <1>4, <2>3, <2>4
  <2>6. Strict(t)
    BY <2>4, <2>5 DEF Strict
  <2>7. t # <<>> /\ t[Len(t)].fpr = key.fpr
    BY <1>3, <1>4, <2>1, <2>3, <2>4, EmptySeq
  <2>8. FprsOf(t) = FprsOf(done) \cup {key.fpr}
    <3>1. FprsOf(t) = {t[i].fpr : i \in 1..n} /\ FprsOf(done) = {done[i].fpr : i \in 1..n}
      BY <1>1, <2>4 DEF FprsOf
    <3>2. FprsOf(t) = FprsOf(done)
      BY <2>5, <3>1
    <3>3. key.fpr \in FprsOf(done)
      BY <1>4, <2>1, <3>1
    <3>4. QED
      BY <3>2, <3>3
  <2>9. SecretFprs(t) = SecretFprs(done) \cup (IF key.secret THEN {key.fpr} ELSE {})
    <3>1. \A i \in 1..n : t[i].secret <=> done[i].secret \/ (i = n /\ key.secret)
      BY <2>3, <2>4
    <3>2. ASSUME NEW i \in 1..n, t[i].secret
          PROVE  t[i].fpr \in SecretFprs(done) \cup (IF key.secret THEN {key.fpr} ELSE {})
      <4>1. CASE done[i].secret
        BY <1>1, <2>5, <4>1 DEF SecretFprs
      <4>2. CASE i = n /\ key.secret
        BY <2>7, <2>4, <4>2
      <4>3. QED
        BY <3>1, <3>2, <4>1, <4>2
    <3>3. ASSUME NEW i \in 1..n, done[i].secret PROVE done[i].fpr \in SecretFprs(t)
      <4>1. i \in {k \in DOMAIN t : t[k].secret} /\ t[i].fpr = done[i].fpr
        BY <2>4, <2>5, <3>1, <3>3
      <4>2. QED
        BY <4>1 DEF SecretFprs
    <3>4. ASSUME key.secret PROVE key.fpr \in SecretFprs(t)
      <4>1. n \in {k \in DOMAIN t : t[k].secret} /\ t[n].fpr = key.fpr
        BY <2>1, <2>4, <2>7, <3>1, <3>4
      <4>2. QED
        BY <4>1 DEF SecretFprs
    <3>5. SecretFprs(t) \subseteq SecretFprs(done) \cup (IF key.secret THEN {key.fpr} ELSE {})
      BY <2>4, <3>2 DEF SecretFprs
    <3>6. SecretFprs(done) \subseteq SecretFprs(t)
      BY <1>1, <3>3 DEF SecretFprs
    <3>7. QED
      BY <3>4, <3>5, <3>6
  <2>10. QED
    BY <2>6, <2>7, <2>8, <2>9 DEF t
<1>5. CASE ~(done # <<>> /\ done[n].fpr = key.fpr)
  <2>1. t = Append(done, key)
    BY <1>5 DEF Merged, Last
  <2>2. Len(t) = n + 1 /\ DOMAIN t = 1..(n + 1) /\ t[n + 1] = key /\ \A i \in 1..n : t[i] = done[i]
    BY <1>1, <2>1
  <2>3. \A e \in Elements(done) : e.fpr < key.fpr
    <3>1. ASSUME NEW i \in 1..n PROVE done[i].fpr < key.fpr
      <4> HIDE DEF t
      <4>1. n \in 1..n /\ done # <<>> /\ done[n].fpr < key.fpr
        <5>1. n \in 1..n
          BY <1>1
        <5>2. done # <<>>
          <6>1. done = <<>> => n = 0
            OBVIOUS
          <6>2. QED
            BY <5>1, <6>1
        <5>3. done[n].fpr \in Nat /\ done[n].fpr <= key.fpr /\ done[n].fpr # key.fpr
          BY <1>1, <1>5, <5>1, <5>2
        <5>4. QED
          BY <1>2, <5>1, <5>2, <5>3
      <4>2. i # n => done[i].fpr < done[n].fpr
        <5>1. i # n => i < n
          <6>1. n \in Nat
            BY <1>1
          <6>2. QED
            BY <6>1
        <5>2. QED
          BY <4>1, <5>1 DEF Strict
      <4>3. done[i].fpr \in Nat /\ done[n].fpr \in Nat
        BY <1>1, <4>1
      <4>4. QED
        BY <1>2, <4>1, <4>2, <4>3
    <3>2. QED
      BY <3>1 DEF Elements
  <2>4. Strict(t)
    BY <2>1, <2>3, ElementsAppended
  <2> HIDE DEF t
  <2>5. t # <<>> /\ t[Len(t)].fpr = key.fpr
    BY <1>1, <2>2
  <2>6. 1..(n + 1) = 1..n \cup {n + 1}
    BY <1>1
  <2>7. FprsOf(t) = FprsOf(done) \cup {key.fpr}
    BY <1>1, <2>2, <2>6 DEF FprsOf
  <2>8. SecretFprs(t) = SecretFprs(done) \cup (IF key.secret THEN {key.fpr} ELSE {})
    BY <1>1, <2>2, <2>6 DEF SecretFprs
  <2>9. QED
    BY <2>4, <2>5, <2>7, <2>8 DEF t
<1>6. QED
  BY <1>4, <1>5

\* Of equal keys of a list in order, unique_by_merge() leaves one, which is secret if one of them is.
LEMMA MergedList ==
  ASSUME NEW list \in AscendingLists
  PROVE  /\ unique_by_merge(list) \in Seq(KeySet)
         /\ Strict(unique_by_merge(list))
         /\ FprsOf(unique_by_merge(list)) = FprsOf(list)
         /\ SecretFprs(unique_by_merge(list)) = SecretFprs(list)
<1> DEFINE n == Len(list)
           Part(i) == {list[j].fpr : j \in 1..i}
           SecretPart(i) == {list[j].fpr : j \in {k \in 1..i : list[k].secret}}
<1>1. /\ list \in Seq(KeySet) /\ n \in Nat /\ DOMAIN list = 1..n /\ Ascending(list)
      /\ \A i \in 1..n : list[i] \in KeySet /\ list[i].fpr \in Nat
  BY AscendingTypes, KeyTypes
<1>2. PICK g \in [0..n -> Seq(KeySet)] :
        /\ g[0] = <<>>
        /\ \A i \in 0..(n - 1) : g[i + 1] = Merged(g[i], list[i + 1])
        /\ g[n] = unique_by_merge(list)
  BY <1>1, MergedSteps
<1> DEFINE Right(i) == /\ Strict(g[i])
                       /\ g[i] # <<>> => i # 0 /\ g[i][Len(g[i])].fpr = list[i].fpr
                       /\ FprsOf(g[i]) = Part(i) /\ SecretFprs(g[i]) = SecretPart(i)
           Good == {i \in Nat : i <= n => Right(i)}
<1>3. 0 \in Good
  <2>1. FprsOf(<<>>) = {} /\ SecretFprs(<<>>) = {} /\ Strict(<<>>)
    BY DEF FprsOf, SecretFprs, Strict
  <2>2. Part(0) = {} /\ SecretPart(0) = {}
    OBVIOUS
  <2>3. Right(0)
    BY <1>2, <2>1, <2>2
  <2>4. QED
    BY <2>3
<1>4. ASSUME NEW i \in Nat, i \in Good, i + 1 <= n PROVE Right(i + 1)
  <2>1. i \in 0..(n - 1) /\ i \in 0..n /\ i + 1 \in 1..n
    BY <1>1, <1>4
  <2>2. g[i] \in Seq(KeySet) /\ list[i + 1] \in KeySet /\ g[i + 1] = Merged(g[i], list[i + 1])
    BY <1>1, <1>2, <2>1
  <2>3. Right(i)
    BY <1>4, <2>1
  <2>4. g[i] # <<>> => g[i][Len(g[i])].fpr <= list[i + 1].fpr
    <3>1. g[i] # <<>> => i \in 1..n /\ i < i + 1
      BY <2>1, <2>3
    <3>2. QED
      BY <1>1, <2>1, <2>3, <3>1 DEF Ascending
  <2>5. /\ Strict(g[i + 1])
        /\ g[i + 1] # <<>> /\ g[i + 1][Len(g[i + 1])].fpr = list[i + 1].fpr
        /\ FprsOf(g[i + 1]) = FprsOf(g[i]) \cup {list[i + 1].fpr}
        /\ SecretFprs(g[i + 1]) = SecretFprs(g[i]) \cup (IF list[i + 1].secret THEN {list[i + 1].fpr} ELSE {})
    BY <2>2, <2>3, <2>4, MergeOne
  <2>6. 1..(i + 1) = 1..i \cup {i + 1}
    BY <2>1
  <2>7. Part(i + 1) = Part(i) \cup {list[i + 1].fpr}
    BY <2>6
  <2>8. SecretPart(i + 1) = SecretPart(i) \cup (IF list[i + 1].secret THEN {list[i + 1].fpr} ELSE {})
    BY <2>6
  <2>9. i + 1 # 0
    BY <2>1
  <2> HIDE DEF Part, SecretPart
  <2>10. QED
    BY <2>3, <2>5, <2>7, <2>8, <2>9
<1>5. Good = Nat
  <2> HIDE DEF Right
  <2>1. ASSUME NEW i \in Nat, i \in Good PROVE i + 1 \in Good
    <3>1. i + 1 <= n => Right(i + 1)
      BY <1>4, <2>1
    <3>2. QED
      BY <3>1
  <2>2. Good \in SUBSET Nat
    OBVIOUS
  <2> HIDE DEF Good
  <2>3. QED
    BY <1>3, <2>1, <2>2, AllNumbers
<1>6. Right(n)
  <2> HIDE DEF Right
  <2>1. n \in Good
    <3> HIDE DEF Good
    <3>1. QED
      BY <1>1, <1>5
  <2>2. QED
    BY <1>1, <2>1
<1>7. Part(n) = FprsOf(list) /\ SecretPart(n) = SecretFprs(list)
  BY <1>1 DEF FprsOf, SecretFprs
<1>8. g[n] \in Seq(KeySet)
  <2>1. n \in 0..n
    BY <1>1
  <2>2. QED
    BY <1>2, <2>1
<1>9. QED
  BY <1>2, <1>6, <1>7, <1>8

\* There is one order: two lists without doubles that hold the same keys are equal.
LEMMA StrictPrefix ==
  ASSUME NEW s \in Seq(KeySet), NEW t \in Seq(KeySet), Strict(s), Strict(t), Elements(s) = Elements(t)
  PROVE  Len(s) <= Len(t) /\ \A i \in 1..Len(s) : s[i] = t[i]
<1> DEFINE n == Len(s)  m == Len(t)
           Good == {i \in Nat : i <= n => i <= m /\ \A j \in 1..i : s[j] = t[j]}
<1>1. /\ n \in Nat /\ \A i \in 1..n : s[i].fpr \in Nat
      /\ m \in Nat /\ \A i \in 1..m : t[i].fpr \in Nat
  BY KeyTypes
<1>2. ASSUME NEW i \in Nat, i \in Good, i + 1 <= n PROVE i + 1 <= m /\ s[i + 1] = t[i + 1]
  <2>1. i <= m /\ i + 1 \in 1..n /\ \A j \in 1..i : s[j] = t[j] /\ j \in 1..n
    BY <1>1, <1>2
  <2>2. PICK k \in 1..m : s[i + 1] = t[k]
    BY <2>1 DEF Elements
  <2>3. k > i
    <3> SUFFICES ASSUME k <= i PROVE FALSE
      BY <1>1, <2>1
    <3>1. k \in 1..i /\ k < i + 1
      BY <1>1, <2>1
    <3>2. s[k] = s[i + 1] /\ k \in 1..n
      BY <2>1, <2>2, <3>1
    <3>3. s[k].fpr < s[i + 1].fpr
      BY <2>1, <3>1, <3>2 DEF Strict
    <3>4. QED
      BY <1>1, <2>1, <3>2, <3>3
  <2>4. i + 1 \in 1..m
    BY <1>1, <2>3
  <2>5. PICK l \in 1..n : t[i + 1] = s[l]
    BY <2>4 DEF Elements
  <2>6. l > i
    <3> SUFFICES ASSUME l <= i PROVE FALSE
      BY <1>1, <2>1
    <3>1. l \in 1..i /\ l < i + 1
      BY <1>1, <2>1
    <3>2. t[l] = t[i + 1] /\ l \in 1..m
      BY <1>1, <2>1, <2>5, <3>1
    <3>3. t[l].fpr < t[i + 1].fpr
      BY <2>4, <3>1, <3>2 DEF Strict
    <3>4. QED
      BY <1>1, <2>4, <3>2, <3>3
  <2>7. CASE k = i + 1
    BY <2>2, <2>4, <2>7
  <2>8. CASE k # i + 1
    <3>1. i + 1 < k
      BY <1>1, <2>3, <2>8
    <3>2. t[i + 1].fpr < t[k].fpr
      BY <2>4, <3>1 DEF Strict
    <3>3. l = i + 1 \/ s[i + 1].fpr < s[l].fpr
      BY <1>1, <2>1, <2>6 DEF Strict
    <3>4. {s[i + 1].fpr, s[l].fpr, t[i + 1].fpr, t[k].fpr} \subseteq Nat
      BY <1>1, <2>1, <2>4
    <3>5. s[l].fpr < s[i + 1].fpr
      BY <2>2, <2>5, <3>2
    <3>6. QED
      BY <3>3, <3>4, <3>5
  <2>9. QED
    BY <2>4, <2>7, <2>8
<1>3. Good = Nat
  <2>1. 0 \in Good
    BY <1>1
  <2>2. ASSUME NEW i \in Nat, i \in Good PROVE i + 1 \in Good
    <3>1. i + 1 <= n => i + 1 <= m /\ s[i + 1] = t[i + 1]
      BY <1>2, <2>2
    <3>2. i + 1 <= n => \A j \in 1..i : s[j] = t[j]
      BY <1>1, <2>2
    <3>3. 1..(i + 1) = 1..i \cup {i + 1}
      OBVIOUS
    <3>4. QED
      BY <3>1, <3>2, <3>3
  <2>3. Good \in SUBSET Nat
    OBVIOUS
  <2> HIDE DEF Good
  <2>4. QED
    BY <2>1, <2>2, <2>3, AllNumbers
<1>4. n \in Good
  <2> HIDE DEF Good
  <2>1. QED
    BY <1>1, <1>3
<1>5. QED
  BY <1>1, <1>4

LEMMA StrictEqual ==
  ASSUME NEW s \in Seq(KeySet), NEW t \in Seq(KeySet), Strict(s), Strict(t), Elements(s) = Elements(t)
  PROVE  s = t
<1>1. Len(s) <= Len(t) /\ \A i \in 1..Len(s) : s[i] = t[i]
  BY StrictPrefix
<1>2. Len(t) <= Len(s)
  BY StrictPrefix
<1>3. Len(s) = Len(t)
  BY <1>1, <1>2
<1>4. QED
  BY <1>1, <1>3, SeqEqual

LEMMA FprsOfElements ==
  ASSUME NEW list \in Seq(KeySet)
  PROVE  /\ FprsOf(list) = {key.fpr : key \in Elements(list)}
         /\ SecretFprs(list) = {key.fpr : key \in {k \in Elements(list) : k.secret}}
<1>1. DOMAIN list = 1..Len(list)
  OBVIOUS
<1>2. FprsOf(list) = {key.fpr : key \in Elements(list)}
  BY <1>1 DEF FprsOf, Elements
<1>3. SecretFprs(list) = {key.fpr : key \in {k \in Elements(list) : k.secret}}
  <2>1. ASSUME NEW f \in SecretFprs(list) PROVE f \in {key.fpr : key \in {k \in Elements(list) : k.secret}}
    BY <1>1 DEF SecretFprs, Elements
  <2>2. ASSUME NEW key \in Elements(list), key.secret PROVE key.fpr \in SecretFprs(list)
    BY <1>1, <2>2 DEF SecretFprs, Elements
  <2>3. QED
    BY <2>1, <2>2
<1>4. QED
  BY <1>2, <1>3

LEMMA PartOfDistinct ==
  ASSUME NEW list \in Seq(KeySet), Distinct(list), NEW n \in 0..Len(list)
  PROVE  SubSeq(list, 1, n) \in Seq(KeySet) /\ Distinct(SubSeq(list, 1, n))
<1> DEFINE t == SubSeq(list, 1, n)
<1>1. t \in Seq(KeySet) /\ Len(t) = n /\ \A i \in 1..n : t[i] = list[i]
  BY PartOf
<1>2. \A i \in 1..n : i \in 1..Len(list)
  OBVIOUS
<1> HIDE DEF t
<1>3. Distinct(t)
  BY <1>1, <1>2 DEF Distinct
<1>4. QED
  BY <1>1, <1>3 DEF t

\* The public keys of a ring, as the engine lists them.
Unsecret(ring) == [i \in DOMAIN ring |-> [ring[i] EXCEPT !.secret = FALSE]]

LEMMA UnsecretRing ==
  ASSUME NEW ring \in Seq(KeySet), Distinct(ring)
  PROVE  /\ Unsecret(ring) \in Seq(KeySet) /\ Distinct(Unsecret(ring))
         /\ FprsOf(Unsecret(ring)) = FprsOf(ring) /\ SecretFprs(Unsecret(ring)) = {}
<1> DEFINE t == Unsecret(ring)  n == Len(ring)
<1>1. n \in Nat /\ DOMAIN ring = 1..n /\ \A i \in 1..n : ring[i] \in KeySet
  BY KeyTypes
<1>2. \A key \in KeySet : /\ [key EXCEPT !.secret = FALSE] \in KeySet
                          /\ [key EXCEPT !.secret = FALSE].fpr = key.fpr
                          /\ ~[key EXCEPT !.secret = FALSE].secret
  BY DEF KeySet
<1>3. \A i \in 1..n : t[i] \in KeySet /\ t[i].fpr = ring[i].fpr /\ ~t[i].secret
  BY <1>1, <1>2 DEF Unsecret
<1>4. t = [i \in 1..n |-> t[i]]
  BY <1>1 DEF Unsecret
<1> HIDE DEF t
<1>5. t \in Seq(KeySet) /\ Len(t) = n /\ DOMAIN t = 1..n
  BY <1>1, <1>3, <1>4
<1>6. Distinct(t)
  BY <1>3, <1>5 DEF Distinct
<1>7. FprsOf(t) = FprsOf(ring)
  BY <1>1, <1>3, <1>5 DEF FprsOf
<1>8. SecretFprs(t) = {}
  BY <1>3, <1>5 DEF SecretFprs
<1>9. QED
  BY <1>5, <1>6, <1>7, <1>8 DEF t

LEMMA StrictAscends ==
  ASSUME NEW list \in Seq(KeySet), Strict(list)
  PROVE  list \in AscendingLists
<1>1. \A i \in 1..Len(list) : list[i].fpr \in Nat
  BY KeyTypes
<1>2. QED
  BY <1>1 DEF Strict, AscendingLists, Ascending

\* merge_keys() of two sorted lists keeps the keys of both, and which of them are secret.
LEMMA MergedKeys ==
  ASSUME NEW pub \in Seq(KeySet), NEW sec \in Seq(KeySet), Strict(pub)
  PROVE  /\ merge_keys(pub, sec) \in Seq(KeySet) /\ Strict(merge_keys(pub, sec))
         /\ FprsOf(merge_keys(pub, sec)) = FprsOf(pub) \cup FprsOf(sec)
         /\ SecretFprs(merge_keys(pub, sec)) = SecretFprs(pub) \cup SecretFprs(sec)
<1> DEFINE all == InsertedInto(pub, sec)
<1>1. all \in AscendingLists /\ Elements(all) = Elements(pub) \cup Elements(sec)
  BY StrictAscends, Inserted
<1>2. merge_keys(pub, sec) = unique_by_merge(all)
  BY DEF merge_keys, InsertedInto
<1> HIDE DEF all
<1>3. all \in Seq(KeySet)
  BY <1>1, AscendingTypes
<1>4. FprsOf(all) = FprsOf(pub) \cup FprsOf(sec)
  <2>1. FprsOf(all) = {key.fpr : key \in Elements(all)}
    BY <1>3, FprsOfElements
  <2>2. FprsOf(pub) = {key.fpr : key \in Elements(pub)} /\ FprsOf(sec) = {key.fpr : key \in Elements(sec)}
    BY FprsOfElements
  <2>3. QED
    BY <1>1, <2>1, <2>2
<1>5. SecretFprs(all) = SecretFprs(pub) \cup SecretFprs(sec)
  <2>1. SecretFprs(all) = {key.fpr : key \in {k \in Elements(all) : k.secret}}
    BY <1>3, FprsOfElements
  <2>2. SecretFprs(pub) = {key.fpr : key \in {k \in Elements(pub) : k.secret}}
    BY FprsOfElements
  <2>3. SecretFprs(sec) = {key.fpr : key \in {k \in Elements(sec) : k.secret}}
    BY FprsOfElements
  <2>4. QED
    BY <1>1, <2>1, <2>2, <2>3
<1>6. QED
  BY <1>1, <1>2, <1>4, <1>5, MergedList

\* Of a list without doubles, the secret keys are all that another such list with their
\* fingerprints can hold.
LEMMA SecretOnesAre ==
  ASSUME NEW list \in Seq(KeySet), NEW sec \in Seq(KeySet), Strict(list), Strict(sec),
         \A key \in Elements(sec) : key.secret, SecretFprs(list) = FprsOf(sec)
  PROVE  SecretOnes(list) = sec
<1> DEFINE t == SecretOnes(list)
<1>1. t \in Seq(KeySet) /\ Strict(t) /\ Elements(t) = {key \in Elements(list) : key.secret}
  BY SecretList
<1> HIDE DEF t
<1>2. {key.fpr : key \in Elements(t)} = {key.fpr : key \in Elements(sec)}
  <2>1. SecretFprs(list) = {key.fpr : key \in {k \in Elements(list) : k.secret}}
    BY FprsOfElements
  <2>2. FprsOf(sec) = {key.fpr : key \in Elements(sec)}
    BY FprsOfElements
  <2>3. QED
    BY <1>1, <2>1, <2>2
<1>3. \A k, l \in KeySet : k.secret /\ l.secret /\ k.fpr = l.fpr => k = l
  <2>1. \A k \in KeySet : k.secret => k = [fpr |-> k.fpr, secret |-> TRUE]
    BY DEF KeySet
  <2>2. QED
    BY <2>1
<1>4. Elements(t) \subseteq KeySet /\ Elements(sec) \subseteq KeySet
  BY <1>1, KeyTypes DEF Elements
<1>5. Elements(t) = Elements(sec)
  <2>1. ASSUME NEW k \in Elements(t) PROVE k \in Elements(sec)
    <3>1. PICK l \in Elements(sec) : l.fpr = k.fpr
      <4>1. k.fpr \in {key.fpr : key \in Elements(t)}
        OBVIOUS
      <4>2. k.fpr \in {key.fpr : key \in Elements(sec)}
        BY <1>2, <4>1
      <4>3. QED
        BY <4>2
    <3>2. k \in KeySet /\ l \in KeySet /\ k.secret /\ l.secret
      BY <1>1, <1>4, <3>1
    <3>3. QED
      BY <1>3, <3>1, <3>2
  <2>2. ASSUME NEW l \in Elements(sec) PROVE l \in Elements(t)
    <3>1. PICK k \in Elements(t) : l.fpr = k.fpr
      <4>1. l.fpr \in {key.fpr : key \in Elements(sec)}
        OBVIOUS
      <4>2. l.fpr \in {key.fpr : key \in Elements(t)}
        BY <1>2, <4>1
      <4>3. QED
        BY <4>2
    <3>2. k \in KeySet /\ l \in KeySet /\ k.secret /\ l.secret
      BY <1>1, <1>4, <3>1
    <3>3. QED
      BY <1>3, <3>1, <3>2
  <2>3. QED
    BY <2>1, <2>2
<1>6. QED
  BY <1>1, <1>5, StrictEqual DEF t

------------------------------------------------------------------------------
AllSucceeded == \A i \in DOMAIN made : made[i].outcome = "ok"

\* What ListIsMerged says of a complete list.
ListComplete(public, secret, ring, mergeKeys, version) ==
  /\ FprsOf(public) = FprsOf(ring)
  /\ FprsOf(secret) = FprsOf(SecretOnes(ring))
  /\ mergeKeys \/ version >= V2_1_0 => SecretOnes(public) = secret

FoundLists == [public : Seq(KeySet), secret : Seq(KeySet), best : {NoCandidate}, statuses : {{}}]

\* The lists are sorted at any time; after the public keys of an older engine come its
\* secret ones, and the public ones are complete by then, unless their listing failed.
MergeInv == req.kind = "listAllKeys" =>
  /\ stage \notin {"logging", "listing"}
  /\ found \in FoundLists /\ Strict(found.public) /\ Strict(found.secret)
  /\ stage = "working" =>
       \/ made = <<>> /\ todo = list_keys(req.version)
       \/ /\ req.version < V2_1_0 /\ todo = <<Ask("list", "secret")>>
          /\ AllSucceeded => FprsOf(found.public) = FprsOf(req.a.ring) /\ SecretFprs(found.public) = {}
  /\ stage \in Ended /\ AllSucceeded =>
       ListComplete(found.public, found.secret, req.a.ring, req.a.mergeKeys, req.version)

LEMMA RingOf ==
  ASSUME OwnerInv, req.kind = "listAllKeys"
  PROVE  /\ req.a.ring \in Seq(KeySet) /\ Distinct(req.a.ring)
         /\ req.a.mergeKeys \in BOOLEAN /\ req.version \in Nat
<1>1. req \in RequestSet
  BY DEF OwnerInv
<1>2. /\ req.a.ring \in Seq(KeySet) /\ req.a.mergeKeys \in BOOLEAN
      /\ \A i, k \in DOMAIN req.a.ring : i # k => req.a.ring[i].fpr # req.a.ring[k].fpr
  BY <1>1, RingsKnown DEF KeySet
<1>3. DOMAIN req.a.ring = 1..Len(req.a.ring)
  BY <1>2
<1>4. req.version \in Nat
  BY <1>1, ListAllOptions
<1>5. QED
  BY <1>2, <1>3, <1>4 DEF Distinct

\* What the engine lists.
LEMMA EngineListed ==
  ASSUME OwnerInv, req.kind = "listAllKeys", NEW what \in {"public", "secret", "all"},
         NEW n \in 0..Len(EngineLists(what))
  PROVE  /\ EngineLists(what) \in Seq(KeySet) /\ Distinct(EngineLists(what))
         /\ SubSeq(EngineLists(what), 1, n) \in Seq(KeySet) /\ Distinct(SubSeq(EngineLists(what), 1, n))
         /\ n = Len(EngineLists(what)) => SubSeq(EngineLists(what), 1, n) = EngineLists(what)
<1> DEFINE ring == req.a.ring  list == EngineLists(what)
<1>1. ring \in Seq(KeySet) /\ Distinct(ring)
  BY RingOf
<1>2. list = CASE what = "public" -> Unsecret(ring) [] what = "secret" -> SecretOnes(ring) [] what = "all" -> ring
  BY DEF EngineLists, Unsecret
<1> HIDE DEF list, ring
<1>3. list \in Seq(KeySet) /\ Distinct(list)
  BY <1>1, <1>2, UnsecretRing, SecretList
<1>4. n \in 0..Len(list)
  BY DEF list
<1>5. SubSeq(list, 1, n) \in Seq(KeySet) /\ Distinct(SubSeq(list, 1, n))
  BY <1>3, <1>4, PartOfDistinct
<1>6. n = Len(list) => SubSeq(list, 1, n) = list
  BY <1>3, SubSeqFull
<1>7. QED
  BY <1>3, <1>5, <1>6 DEF list

\* Listing the public keys of an older engine.
LEMMA PublicListed ==
  ASSUME OwnerInv, req.kind = "listAllKeys", found \in FoundLists, Strict(found.secret),
         NEW n \in 0..Len(EngineLists("public")),
         found' = Found("public", SubSeq(EngineLists("public"), 1, n))
  PROVE  /\ found' \in FoundLists /\ Strict(found'.public) /\ Strict(found'.secret)
         /\ n = Len(EngineLists("public")) =>
              FprsOf(found'.public) = FprsOf(req.a.ring) /\ SecretFprs(found'.public) = {}
<1> DEFINE ring == req.a.ring  listed == SubSeq(EngineLists("public"), 1, n)
<1>1. ring \in Seq(KeySet) /\ Distinct(ring)
  BY RingOf
<1>2. /\ listed \in Seq(KeySet) /\ Distinct(listed)
      /\ n = Len(EngineLists("public")) => listed = EngineLists("public")
  BY EngineListed
<1>3. EngineLists("public") = Unsecret(ring)
  BY DEF EngineLists, Unsecret
<1>4. found' = [found EXCEPT !.public = Sorted(listed)]
  BY DEF Found
<1> HIDE DEF listed, ring
<1>5. /\ Sorted(listed) \in Seq(KeySet) /\ Strict(Sorted(listed))
      /\ Elements(Sorted(listed)) = Elements(listed)
  BY <1>2, SortedList, AscendingTypes
<1>6. found' \in FoundLists /\ found'.public = Sorted(listed) /\ found'.secret = found.secret
  BY <1>4, <1>5 DEF FoundLists
<1>7. FprsOf(Sorted(listed)) = FprsOf(listed) /\ SecretFprs(Sorted(listed)) = SecretFprs(listed)
  BY <1>2, <1>5, FprsOfElements
<1>8. FprsOf(Unsecret(ring)) = FprsOf(ring) /\ SecretFprs(Unsecret(ring)) = {}
  BY <1>1, UnsecretRing
<1>9. QED
  BY <1>2, <1>3, <1>5, <1>6, <1>7, <1>8 DEF ring

\* Listing the secret keys of an older engine, and merging them with the public ones.
LEMMA SecretListed ==
  ASSUME OwnerInv, req.kind = "listAllKeys", req.version < V2_1_0,
         found \in FoundLists, Strict(found.public), Strict(found.secret),
         NEW n \in 0..Len(EngineLists("secret")),
         found' = Found("secret", SubSeq(EngineLists("secret"), 1, n))
  PROVE  /\ found' \in FoundLists /\ Strict(found'.public) /\ Strict(found'.secret)
         /\ n = Len(EngineLists("secret")) /\ FprsOf(found.public) = FprsOf(req.a.ring)
              /\ SecretFprs(found.public) = {} =>
              ListComplete(found'.public, found'.secret, req.a.ring, req.a.mergeKeys, req.version)
<1> DEFINE ring == req.a.ring  mergeKeys == req.a.mergeKeys  listed == SubSeq(EngineLists("secret"), 1, n)
           pub == found.public  sec == Sorted(listed)
<1>1. ring \in Seq(KeySet) /\ Distinct(ring) /\ mergeKeys \in BOOLEAN /\ req.version \in Nat
  BY RingOf
<1>2. /\ listed \in Seq(KeySet) /\ Distinct(listed)
      /\ n = Len(EngineLists("secret")) => listed = EngineLists("secret")
  BY EngineListed
<1>3. EngineLists("secret") = SecretOnes(ring)
  BY DEF EngineLists
<1>4. found' = [found EXCEPT !.secret = sec, !.public = IF mergeKeys THEN merge_keys(@, sec) ELSE @]
  BY DEF Found
<1>5. pub \in Seq(KeySet)
  BY DEF FoundLists
<1> HIDE DEF listed, ring, mergeKeys
<1>6. sec \in Seq(KeySet) /\ Strict(sec) /\ Elements(sec) = Elements(listed)
  BY <1>2, SortedList, AscendingTypes
<1> HIDE DEF sec
<1>7. /\ merge_keys(pub, sec) \in Seq(KeySet) /\ Strict(merge_keys(pub, sec))
      /\ FprsOf(merge_keys(pub, sec)) = FprsOf(pub) \cup FprsOf(sec)
      /\ SecretFprs(merge_keys(pub, sec)) = SecretFprs(pub) \cup SecretFprs(sec)
  BY <1>5, <1>6, MergedKeys
<1>8. /\ found' \in FoundLists /\ found'.secret = sec
      /\ found'.public = IF mergeKeys THEN merge_keys(pub, sec) ELSE pub
  BY <1>1, <1>4, <1>5, <1>6, <1>7 DEF FoundLists
<1>9. ASSUME n = Len(EngineLists("secret")), FprsOf(pub) = FprsOf(ring), SecretFprs(pub) = {}
      PROVE  ListComplete(found'.public, found'.secret, ring, mergeKeys, req.version)
  <2>1. listed = SecretOnes(ring) /\ Elements(listed) = {key \in Elements(ring) : key.secret}
    BY <1>1, <1>2, <1>3, <1>9, SecretList
  <2>2. FprsOf(sec) = FprsOf(SecretOnes(ring))
    BY <1>2, <1>6, <2>1, FprsOfElements
  <2>3. FprsOf(sec) \subseteq FprsOf(ring)
    <3>1. FprsOf(sec) = {key.fpr : key \in Elements(sec)} /\ FprsOf(ring) = {key.fpr : key \in Elements(ring)}
      BY <1>1, <1>6, FprsOfElements
    <3>2. Elements(sec) \subseteq Elements(ring)
      BY <1>6, <2>1
    <3>3. QED
      BY <3>1, <3>2
  <2>4. FprsOf(found'.public) = FprsOf(ring)
    BY <1>1, <1>7, <1>8, <1>9, <2>3
  <2>5. mergeKeys => SecretOnes(found'.public) = sec
    <3>1. \A key \in Elements(sec) : key.secret
      BY <1>6, <2>1
    <3>2. SecretFprs(merge_keys(pub, sec)) = FprsOf(sec)
      <4>1. SecretFprs(sec) = FprsOf(sec)
        <5>1. {k \in Elements(sec) : k.secret} = Elements(sec)
          BY <3>1
        <5>2. QED
          BY <1>6, <5>1, FprsOfElements
      <4>2. QED
        BY <1>7, <1>9, <4>1
    <3>3. SecretOnes(merge_keys(pub, sec)) = sec
      BY <1>6, <1>7, <3>1, <3>2, SecretOnesAre
    <3>4. QED
      BY <1>8, <3>3
  <2>6. ~(req.version >= V2_1_0)
    BY <1>1 DEF V2_1_0
  <2>7. QED
    BY <1>8, <2>2, <2>4, <2>5, <2>6 DEF ListComplete
<1>10. QED
  BY <1>1, <1>6, <1>7, <1>8, <1>9 DEF ring, mergeKeys

\* Listing all keys of a newer engine.
LEMMA AllListed ==
  ASSUME OwnerInv, req.kind = "listAllKeys", found \in FoundLists,
         NEW n \in 0..Len(EngineLists("all")),
         found' = Found("all", SubSeq(EngineLists("all"), 1, n))
  PROVE  /\ found' \in FoundLists /\ Strict(found'.public) /\ Strict(found'.secret)
         /\ n = Len(EngineLists("all")) =>
              ListComplete(found'.public, found'.secret, req.a.ring, req.a.mergeKeys, req.version)
<1> DEFINE ring == req.a.ring  listed == SubSeq(EngineLists("all"), 1, n)  pub == Sorted(listed)
<1>1. ring \in Seq(KeySet) /\ Distinct(ring)
  BY RingOf
<1>2. /\ listed \in Seq(KeySet) /\ Distinct(listed)
      /\ n = Len(EngineLists("all")) => listed = EngineLists("all")
  BY EngineListed
<1>3. EngineLists("all") = ring
  BY DEF EngineLists
<1>4. found' = [found EXCEPT !.public = pub, !.secret = SecretOnes(pub)]
  BY DEF Found
<1> HIDE DEF listed, ring
<1>5. pub \in Seq(KeySet) /\ Strict(pub) /\ Elements(pub) = Elements(listed)
  BY <1>2, SortedList, AscendingTypes
<1> HIDE DEF pub
<1>6. /\ SecretOnes(pub) \in Seq(KeySet) /\ Strict(SecretOnes(pub))
      /\ Elements(SecretOnes(pub)) = {key \in Elements(pub) : key.secret}
  BY <1>5, SecretList
<1>7. found' \in FoundLists /\ found'.public = pub /\ found'.secret = SecretOnes(pub)
  BY <1>4, <1>5, <1>6 DEF FoundLists
<1>8. ASSUME listed = ring PROVE ListComplete(pub, SecretOnes(pub), ring, req.a.mergeKeys, req.version)
  <2>1. FprsOf(pub) = FprsOf(ring)
    BY <1>1, <1>5, <1>8, FprsOfElements
  <2>2. SecretOnes(ring) \in Seq(KeySet) /\ Elements(SecretOnes(ring)) = {key \in Elements(ring) : key.secret}
    BY <1>1, SecretList
  <2>3. FprsOf(SecretOnes(pub)) = FprsOf(SecretOnes(ring))
    BY <1>5, <1>6, <1>8, <2>2, FprsOfElements
  <2>4. QED
    BY <2>1, <2>3 DEF ListComplete
<1>9. QED
  BY <1>2, <1>3, <1>5, <1>6, <1>7, <1>8 DEF ring

LEMMA MergeOutside ==
  ASSUME OwnerInv, CallsInv, MergeInv,
         CreateJob \/ Configure \/ Reconfigure \/ Start \/ StartNow \/ Tick \/ Report
         \/ DeferredDelete \/ DeleteWrapper
  PROVE  MergeInv'
<1>1. UNCHANGED <<req, todo, made, found>>
  BY DEF CreateJob, Configure, Reconfigure, Start, StartNow, Tick, Report, DeferredDelete, DeleteWrapper, resultVars
<1>2. \/ stage' \notin Ended \cup {"working", "logging", "listing"}
      \/ stage' = stage
      \/ stage \in Ended /\ stage' \in Ended
  BY DEF CreateJob, Configure, Reconfigure, Start, StartNow, Tick, Report, DeferredDelete, DeleteWrapper, Ended
<1>3. Ended \cap {"working", "logging", "listing"} = {}
  BY DEF Ended
<1>4. AllSucceeded' <=> AllSucceeded
  BY <1>1 DEF AllSucceeded
<1>5. QED
  BY <1>1, <1>2, <1>3, <1>4 DEF MergeInv

LEMMA MergeCalled ==
  ASSUME OwnerInv, CallsInv, MergeInv, CallList
  PROVE  MergeInv'
<1>1. req.kind = "listAllKeys" /\ stage = "working" /\ todo # <<>> /\ UNCHANGED req
  BY DEF CallList, IsNext
<1> DEFINE call == Head(todo)  what == Head(todo).what
<1>2. PICK outcome \in Outcomes, n \in 0..Len(EngineLists(what)) :
        /\ outcome = "ok" => n = Len(EngineLists(what))
        /\ Goes(call, outcome)
        /\ found' = Found(what, SubSeq(EngineLists(what), 1, n))
  BY DEF CallList
<1>3. found \in FoundLists /\ Strict(found.public) /\ Strict(found.secret)
  BY <1>1 DEF MergeInv
<1>4. call.op = "list"
  BY DEF CallList, IsNext
<1>5. ~HasLog(call)
  BY <1>1 DEF HasLog, NoLogKinds
<1>6. /\ stage' \in {"working", "returned"}
      /\ stage' = "working" => todo' = Tail(todo) /\ todo' # <<>>
      /\ made' # <<>>
      /\ AllSucceeded' => AllSucceeded /\ outcome = "ok"
      /\ outcome = "ok" => todo' = Tail(todo) /\ (Tail(todo) # <<>> => stage' = "working")
  <2>1. IsSequence(made)
    BY DEF CallsInv, MadeInv
  <2>2. /\ Len(made) \in Nat /\ made' # <<>> /\ Len(made') = Len(made) + 1
        /\ DOMAIN made = 1..Len(made) /\ DOMAIN made' = 1..Len(made')
        /\ \A i \in DOMAIN made : made'[i] = made[i]
        /\ made'[Len(made')].outcome = outcome
        /\ stage' \in {"working", "logging", "returned"}
        /\ stage' = "working" => todo' = Tail(todo) /\ todo' # <<>>
        /\ stage' = "logging" => HasLog(call)
    BY <1>1, <1>2, <2>1, CallMade
  <2>3. AllSucceeded' => AllSucceeded /\ outcome = "ok"
    BY <2>2 DEF AllSucceeded
  <2>4. outcome = "ok" => todo' = Tail(todo) /\ (Tail(todo) # <<>> => stage' = "working")
    BY <1>1, <1>2 DEF Goes, Stops
  <2>5. QED
    BY <1>5, <2>2, <2>3, <2>4
<1>7. Ended \cap {"working"} = {} /\ "returned" \in Ended /\ "listAllKeys" = req'.kind
  BY <1>1 DEF Ended
<1>8. CASE todo = list_keys(req.version) /\ made = <<>> /\ req.version < V2_1_0
  <2>1. todo = <<Ask("list", "public"), Ask("list", "secret")>>
    BY <1>8 DEF list_keys, list_keys_legacy
  <2>2. what = "public" /\ Tail(todo) = <<Ask("list", "secret")>> /\ Tail(todo) # <<>>
    <3>1. Head(todo) = Ask("list", "public") /\ Tail(todo) = <<Ask("list", "secret")>>
      BY <2>1
    <3>2. Ask("list", "public").what = "public"
      BY DEF Ask
    <3>3. QED
      BY <3>1, <3>2
  <2>3. /\ found' \in FoundLists /\ Strict(found'.public) /\ Strict(found'.secret)
        /\ outcome = "ok" => FprsOf(found'.public) = FprsOf(req.a.ring) /\ SecretFprs(found'.public) = {}
    BY <1>1, <1>2, <1>3, <2>2, PublicListed
  <2>4. stage' = "working" => todo' = <<Ask("list", "secret")>>
    BY <1>6, <2>2
  <2>5. stage' \in Ended => ~AllSucceeded'
    BY <1>6, <1>7, <2>2
  <2>6. QED
    BY <1>1, <1>6, <1>7, <1>8, <2>3, <2>4, <2>5 DEF MergeInv
<1>9. CASE todo = list_keys(req.version) /\ ~(req.version < V2_1_0)
  <2>1. todo = <<Ask("list", "all")>>
    BY <1>9 DEF list_keys, do_list_keys
  <2>2. what = "all" /\ Tail(todo) = <<>>
    <3>1. Head(todo) = Ask("list", "all") /\ Tail(todo) = <<>>
      BY <2>1, OneCall
    <3>2. Ask("list", "all").what = "all"
      BY DEF Ask
    <3>3. QED
      BY <3>1, <3>2
  <2>3. /\ found' \in FoundLists /\ Strict(found'.public) /\ Strict(found'.secret)
        /\ outcome = "ok" =>
             ListComplete(found'.public, found'.secret, req.a.ring, req.a.mergeKeys, req.version)
    BY <1>1, <1>2, <1>3, <2>2, AllListed
  <2>4. stage' = "returned"
    BY <1>6, <2>2
  <2>5. QED
    BY <1>1, <1>6, <1>7, <2>3, <2>4 DEF MergeInv
<1>10. CASE /\ req.version < V2_1_0 /\ todo = <<Ask("list", "secret")>>
            /\ AllSucceeded => FprsOf(found.public) = FprsOf(req.a.ring) /\ SecretFprs(found.public) = {}
  <2>1. what = "secret" /\ Tail(todo) = <<>>
    <3>1. Head(todo) = Ask("list", "secret") /\ Tail(todo) = <<>>
      BY <1>10, OneCall
    <3>2. Ask("list", "secret").what = "secret"
      BY DEF Ask
    <3>3. QED
      BY <3>1, <3>2
  <2>2. /\ found' \in FoundLists /\ Strict(found'.public) /\ Strict(found'.secret)
        /\ outcome = "ok" /\ AllSucceeded =>
             ListComplete(found'.public, found'.secret, req.a.ring, req.a.mergeKeys, req.version)
    BY <1>1, <1>2, <1>3, <1>10, <2>1, SecretListed
  <2>3. stage' = "returned"
    BY <1>6, <2>1
  <2>4. QED
    BY <1>1, <1>6, <1>7, <2>2, <2>3 DEF MergeInv
<1>11. QED
  BY <1>1, <1>8, <1>9, <1>10 DEF MergeInv

LEMMA MergeWorker ==
  ASSUME OwnerInv, CallsInv, MergeInv, WorkerStep \/ DataStep \/ ListingStops
  PROVE  MergeInv'
<1>1. UNCHANGED req
  BY WorkerStays
<1> SUFFICES ASSUME req.kind = "listAllKeys" PROVE MergeInv'
  BY <1>1 DEF MergeInv
<1>2. stage \notin {"logging", "listing"}
  BY DEF MergeInv
<1>3. CASE EnterWorker
  <2>1. /\ stage = "started" /\ stage' = "working" /\ UNCHANGED <<made, found>>
        /\ \E c, s, now : todo' = Program(req, c, s, now)
    BY <1>3 DEF EnterWorker
  <2>2. todo' = list_keys(req.version)
    BY <2>1, ProgramOf
  <2>3. made = <<>>
    BY <2>1 DEF CallsInv, MadeInv, Before
  <2>4. stage' \notin Ended \cup {"logging", "listing"}
    BY <2>1 DEF Ended
  <2>5. QED
    BY <1>1, <2>1, <2>2, <2>3, <2>4 DEF MergeInv
<1>4. CASE CallList
  BY <1>4, MergeCalled
<1>5. CASE ProcessSends \/ ReadDevice \/ DataStep
  <2>1. UNCHANGED <<todo, made, found>> /\ (UNCHANGED stage \/ stage' = "crashed")
    BY <1>5, DataStays DEF ProcessSends, ReadDevice, resultVars
  <2>2. QED
    BY <1>1, <2>1 DEF MergeInv, AllSucceeded, Ended
<1>6. CASE NoPartFile \/ EnterListing \/ NothingToRefresh \/ ListingStep \/ ListingStops \/ ListingReturns
           \/ ChooseKey \/ RefreshEnds \/ TakeLog
  <2>1. stage \notin {"listing", "logging"}
    BY <1>2
  <2>2. ~(NoPartFile \/ EnterListing \/ NothingToRefresh)
    BY DEF NoPartFile, EnterListing, NothingToRefresh, WithFiles, FileJobKinds, ListingKinds, NestingKinds,
           WithPartFile
  <2>3. QED
    BY <1>6, <2>1, <2>2 DEF ListingStep, ListingStops, ListingReturns, ChooseKey, RefreshEnds, TakeLog
<1>7. CASE CallEngine \/ CallImport \/ RunProcess \/ ReturnEarly
  <2>1. stage = "working" /\ todo # <<>> /\ Head(todo).op # "list"
    BY <1>7 DEF CallEngine, CallImport, RunProcess, ReturnEarly, IsNext, Special
  <2>2. QED
    BY <2>1, HeadOfList DEF CallsInv, TodoInv
<1>8. QED
  BY <1>3, <1>4, <1>5, <1>6, <1>7 DEF WorkerStep

LEMMA MergeStep ==
  ASSUME OwnerInv, CallsInv, MergeInv, [Next]_vars
  PROVE  MergeInv'
<1>1. CASE CreateJob \/ Configure \/ Reconfigure \/ Start \/ StartNow \/ Tick \/ Report
           \/ DeferredDelete \/ DeleteWrapper
  BY <1>1, MergeOutside
<1>2. CASE WorkerStep \/ DataStep \/ ListingStops
  BY <1>2, MergeWorker
<1>3. CASE UNCHANGED vars
  BY <1>3 DEF MergeInv, AllSucceeded, vars, resultVars
<1>4. QED
  BY <1>1, <1>2, <1>3 DEF Next

\* The lists of all keys are sorted and hold each key once, even if a listing failed; a
\* complete list holds the whole ring, and merging two listings keeps which of the keys are
\* secret (list_keys_legacy(), merge_keys() and list_keys()).
THEOREM ListsAreMerged == Spec => []ListIsMerged
<1>1. Init => MergeInv
  BY DEF Init, MergeInv, NothingFound, FoundLists, Strict, Ended
<1>2. OwnerInv /\ MergeInv => ListIsMerged
  <2> SUFFICES ASSUME OwnerInv, MergeInv, stage \in Ended, req.kind = "listAllKeys" PROVE ListIsMerged
    BY DEF ListIsMerged
  <2>1. found \in FoundLists /\ Strict(found.public) /\ Strict(found.secret)
    BY DEF MergeInv
  <2>2. /\ DOMAIN found.public = 1..Len(found.public)
        /\ DOMAIN found.secret = 1..Len(found.secret)
    BY <2>1 DEF FoundLists
  <2>3. \A list \in {found.public, found.secret} :
          \A i, k \in DOMAIN list : i < k => list[i].fpr < list[k].fpr
    BY <2>1, <2>2 DEF Strict
  <2>4. (\A call \in Calls : call.outcome = "ok") => AllSucceeded
    BY DEF Calls, AllSucceeded
  <2>5. FprsOf(req.a.ring) = RingFprs
    BY DEF FprsOf, RingFprs
  <2>6. (\A call \in Calls : call.outcome = "ok") =>
          ListComplete(found.public, found.secret, req.a.ring, req.a.mergeKeys, req.version)
    BY <2>4 DEF MergeInv
  <2>7. QED
    BY <2>3, <2>5, <2>6 DEF ListIsMerged, ListComplete
<1>3. QED
  BY <1>1, <1>2, OwnerInit, OwnerStep, CallsInit, CallsStep, MergeStep, PTL DEF Spec

------------------------------------------------------------------------------
(* The names of files, and the signers                                     *)

\* The folds of encodeFilenames() before it drops the last NUL, of the names as a file has
\* them, of the keys that are added for signers, and of those that are not null.
Encoded(bytes, name) == IF name = <<>> THEN bytes ELSE bytes \o Append(name, 0)
AllEncoded(names) ==
  FoldLeft(LAMBDA bytes, name : IF name = <<>> THEN bytes ELSE bytes \o Append(name, 0), <<>>, names)
Joined(joined, name) ==
  CASE name = <<>> -> joined
    [] name # <<>> /\ joined = <<>> -> name
    [] OTHER -> joined \o <<0>> \o name
Adding(signer) == Ask("addSigningKey", signer)
AddCalls(S) == {Adding(signer) : signer \in S}
Added(calls, signer) == IF signer = "null" THEN calls ELSE Append(calls, Adding(signer))
Keyed(keyed, signer) == IF signer = "null" THEN keyed ELSE Append(keyed, signer)

LEMMA EncodedSteps ==
  ASSUME NEW list \in Seq(Seq(Nat))
  PROVE  \E g \in [0..Len(list) -> Seq(Nat)] :
           /\ g[0] = <<>>
           /\ \A i \in 0..(Len(list) - 1) : g[i + 1] = Encoded(g[i], list[i + 1])
           /\ g[Len(list)] = AllEncoded(list)
<1> DEFINE n == Len(list)
           A == Seq(Nat)
           step == [p \in A \X (1..n) |-> Encoded(p[1], list[p[2]])]
           Is(h) == h = [s \in SUBSET (1..n) |->
                           IF s = {} THEN <<>> ELSE Encoded(h[s \ {Max(s)}], list[Max(s)])]
<1>1. n \in Nat /\ DOMAIN list = 1..n /\ \A i \in 1..n : list[i] \in Seq(Nat)
  OBVIOUS
<1>2. AllEncoded(list) = (CHOOSE h : Is(h))[1..n]
  BY <1>1 DEF AllEncoded, FoldLeft, MapThenFoldSet, Encoded
<1>3. <<>> \in A /\ step \in [A \X (1..n) -> A]
  BY <1>1 DEF Encoded
<1>4. \A a \in A, i \in 1..n : step[<<a, i>>] = Encoded(a, list[i])
  OBVIOUS
<1> HIDE DEF A, step, n
<1>5. PICK h : Folds(A, step, <<>>, n, h)
  BY <1>1, <1>3, FoldExists
<1>6. Is(h)
  <2>1. ASSUME NEW s \in SUBSET (1..n)
        PROVE  h[s] = IF s = {} THEN <<>> ELSE Encoded(h[s \ {Max(s)}], list[Max(s)])
    <3>1. s # {} => Max(s) \in 1..n /\ h[s \ {Max(s)}] \in A
      BY <1>1, <1>5, GreatestIn DEF Folds
    <3>2. QED
      BY <1>4, <1>5, <3>1 DEF Folds, FoldStep
  <2>2. h = [s \in SUBSET (1..n) |-> h[s]]
    BY <1>5 DEF Folds
  <2>3. QED
    BY <2>1, <2>2
<1>7. PICK f : Is(f) /\ f = (CHOOSE k : Is(k))
  <2> HIDE DEF Is
  <2>1. QED
    BY <1>6
<1>8. Follows(A, step, <<>>, n, f)
  BY <1>1, <1>3, <1>4, <1>7, GreatestIn DEF Follows
<1> HIDE DEF Is
<1>9. PICK g : Steps(A, step, <<>>, n, g) /\ g[n] = f[1..n]
  BY ONLY <1>8, FoldSteps
<1>10. \A i \in 0..(n - 1) : g[i + 1] = Encoded(g[i], list[i + 1])
  <2>1. \A i \in 0..(n - 1) : i \in 0..n /\ i + 1 \in 1..n
    BY <1>1
  <2>2. QED
    BY <1>4, <1>9, <2>1 DEF Steps
<1>11. g[n] = AllEncoded(list)
  BY <1>2, <1>7, <1>9
<1>12. QED
  BY <1>9, <1>10, <1>11 DEF n, A, Steps

LEMMA JoinedSteps ==
  ASSUME NEW list \in Seq(Seq(Nat))
  PROVE  \E g \in [0..Len(list) -> Seq(Nat)] :
           /\ g[0] = <<>>
           /\ \A i \in 0..(Len(list) - 1) : g[i + 1] = Joined(g[i], list[i + 1])
           /\ g[Len(list)] = JoinedByNul(list)
<1> DEFINE n == Len(list)
           A == Seq(Nat)
           step == [p \in A \X (1..n) |-> Joined(p[1], list[p[2]])]
           Is(h) == h = [s \in SUBSET (1..n) |->
                           IF s = {} THEN <<>> ELSE Joined(h[s \ {Max(s)}], list[Max(s)])]
<1>1. n \in Nat /\ DOMAIN list = 1..n /\ \A i \in 1..n : list[i] \in Seq(Nat)
  OBVIOUS
<1>2. JoinedByNul(list) = (CHOOSE h : Is(h))[1..n]
  BY <1>1 DEF JoinedByNul, FoldLeft, MapThenFoldSet, Joined
<1>3. <<>> \in A /\ step \in [A \X (1..n) -> A]
  BY <1>1 DEF Joined
<1>4. \A a \in A, i \in 1..n : step[<<a, i>>] = Joined(a, list[i])
  OBVIOUS
<1> HIDE DEF A, step, n
<1>5. PICK h : Folds(A, step, <<>>, n, h)
  BY <1>1, <1>3, FoldExists
<1>6. Is(h)
  <2>1. ASSUME NEW s \in SUBSET (1..n)
        PROVE  h[s] = IF s = {} THEN <<>> ELSE Joined(h[s \ {Max(s)}], list[Max(s)])
    <3>1. s # {} => Max(s) \in 1..n /\ h[s \ {Max(s)}] \in A
      BY <1>1, <1>5, GreatestIn DEF Folds
    <3>2. QED
      BY <1>4, <1>5, <3>1 DEF Folds, FoldStep
  <2>2. h = [s \in SUBSET (1..n) |-> h[s]]
    BY <1>5 DEF Folds
  <2>3. QED
    BY <2>1, <2>2
<1>7. PICK f : Is(f) /\ f = (CHOOSE k : Is(k))
  <2> HIDE DEF Is
  <2>1. QED
    BY <1>6
<1>8. Follows(A, step, <<>>, n, f)
  BY <1>1, <1>3, <1>4, <1>7, GreatestIn DEF Follows
<1> HIDE DEF Is
<1>9. PICK g : Steps(A, step, <<>>, n, g) /\ g[n] = f[1..n]
  BY ONLY <1>8, FoldSteps
<1>10. \A i \in 0..(n - 1) : g[i + 1] = Joined(g[i], list[i + 1])
  <2>1. \A i \in 0..(n - 1) : i \in 0..n /\ i + 1 \in 1..n
    BY <1>1
  <2>2. QED
    BY <1>4, <1>9, <2>1 DEF Steps
<1>11. g[n] = JoinedByNul(list)
  BY <1>2, <1>7, <1>9
<1>12. QED
  BY <1>9, <1>10, <1>11 DEF n, A, Steps

LEMMA AddedSteps ==
  ASSUME NEW S, NEW list \in Seq(S)
  PROVE  \E g \in [0..Len(list) -> Seq(AddCalls(S))] :
           /\ g[0] = <<>>
           /\ \A i \in 0..(Len(list) - 1) : g[i + 1] = Added(g[i], list[i + 1])
           /\ g[Len(list)] = AddSigningKeys(list)
<1> DEFINE n == Len(list)
           A == Seq(AddCalls(S))
           step == [p \in A \X (1..n) |-> Added(p[1], list[p[2]])]
           Is(h) == h = [s \in SUBSET (1..n) |->
                           IF s = {} THEN <<>> ELSE Added(h[s \ {Max(s)}], list[Max(s)])]
<1>1. n \in Nat /\ DOMAIN list = 1..n /\ \A i \in 1..n : list[i] \in S
  OBVIOUS
<1>2. AddSigningKeys(list) = (CHOOSE h : Is(h))[1..n]
  BY <1>1 DEF AddSigningKeys, FoldLeft, MapThenFoldSet, Added, Adding
<1>3. <<>> \in A /\ step \in [A \X (1..n) -> A]
  BY <1>1 DEF Added, AddCalls
<1>4. \A a \in A, i \in 1..n : step[<<a, i>>] = Added(a, list[i])
  OBVIOUS
<1> HIDE DEF A, step, n
<1>5. PICK h : Folds(A, step, <<>>, n, h)
  BY <1>1, <1>3, FoldExists
<1>6. Is(h)
  <2>1. ASSUME NEW s \in SUBSET (1..n)
        PROVE  h[s] = IF s = {} THEN <<>> ELSE Added(h[s \ {Max(s)}], list[Max(s)])
    <3>1. s # {} => Max(s) \in 1..n /\ h[s \ {Max(s)}] \in A
      BY <1>1, <1>5, GreatestIn DEF Folds
    <3>2. QED
      BY <1>4, <1>5, <3>1 DEF Folds, FoldStep
  <2>2. h = [s \in SUBSET (1..n) |-> h[s]]
    BY <1>5 DEF Folds
  <2>3. QED
    BY <2>1, <2>2
<1>7. PICK f : Is(f) /\ f = (CHOOSE k : Is(k))
  <2> HIDE DEF Is
  <2>1. QED
    BY <1>6
<1>8. Follows(A, step, <<>>, n, f)
  BY <1>1, <1>3, <1>4, <1>7, GreatestIn DEF Follows
<1> HIDE DEF Is
<1>9. PICK g : Steps(A, step, <<>>, n, g) /\ g[n] = f[1..n]
  BY ONLY <1>8, FoldSteps
<1>10. \A i \in 0..(n - 1) : g[i + 1] = Added(g[i], list[i + 1])
  <2>1. \A i \in 0..(n - 1) : i \in 0..n /\ i + 1 \in 1..n
    BY <1>1
  <2>2. QED
    BY <1>4, <1>9, <2>1 DEF Steps
<1>11. g[n] = AddSigningKeys(list)
  BY <1>2, <1>7, <1>9
<1>12. QED
  BY <1>9, <1>10, <1>11 DEF n, A, Steps

LEMMA KeyedSteps ==
  ASSUME NEW S, NEW list \in Seq(S)
  PROVE  \E g \in [0..Len(list) -> Seq(S)] :
           /\ g[0] = <<>>
           /\ \A i \in 0..(Len(list) - 1) : g[i + 1] = Keyed(g[i], list[i + 1])
           /\ g[Len(list)] = NotNull(list)
<1> DEFINE n == Len(list)
           A == Seq(S)
           step == [p \in A \X (1..n) |-> Keyed(p[1], list[p[2]])]
           Is(h) == h = [s \in SUBSET (1..n) |->
                           IF s = {} THEN <<>> ELSE Keyed(h[s \ {Max(s)}], list[Max(s)])]
<1>1. n \in Nat /\ DOMAIN list = 1..n /\ \A i \in 1..n : list[i] \in S
  OBVIOUS
<1>2. NotNull(list) = (CHOOSE h : Is(h))[1..n]
  BY <1>1 DEF NotNull, FoldLeft, MapThenFoldSet, Keyed
<1>3. <<>> \in A /\ step \in [A \X (1..n) -> A]
  BY <1>1 DEF Keyed
<1>4. \A a \in A, i \in 1..n : step[<<a, i>>] = Keyed(a, list[i])
  OBVIOUS
<1> HIDE DEF A, step, n
<1>5. PICK h : Folds(A, step, <<>>, n, h)
  BY <1>1, <1>3, FoldExists
<1>6. Is(h)
  <2>1. ASSUME NEW s \in SUBSET (1..n)
        PROVE  h[s] = IF s = {} THEN <<>> ELSE Keyed(h[s \ {Max(s)}], list[Max(s)])
    <3>1. s # {} => Max(s) \in 1..n /\ h[s \ {Max(s)}] \in A
      BY <1>1, <1>5, GreatestIn DEF Folds
    <3>2. QED
      BY <1>4, <1>5, <3>1 DEF Folds, FoldStep
  <2>2. h = [s \in SUBSET (1..n) |-> h[s]]
    BY <1>5 DEF Folds
  <2>3. QED
    BY <2>1, <2>2
<1>7. PICK f : Is(f) /\ f = (CHOOSE k : Is(k))
  <2> HIDE DEF Is
  <2>1. QED
    BY <1>6
<1>8. Follows(A, step, <<>>, n, f)
  BY <1>1, <1>3, <1>4, <1>7, GreatestIn DEF Follows
<1> HIDE DEF Is
<1>9. PICK g : Steps(A, step, <<>>, n, g) /\ g[n] = f[1..n]
  BY ONLY <1>8, FoldSteps
<1>10. \A i \in 0..(n - 1) : g[i + 1] = Keyed(g[i], list[i + 1])
  <2>1. \A i \in 0..(n - 1) : i \in 0..n /\ i + 1 \in 1..n
    BY <1>1
  <2>2. QED
    BY <1>4, <1>9, <2>1 DEF Steps
<1>11. g[n] = NotNull(list)
  BY <1>2, <1>7, <1>9
<1>12. QED
  BY <1>9, <1>10, <1>11 DEF n, A, Steps

\* What stands behind an appended element.
LEMMA EmptyBefore == ASSUME NEW S, NEW v \in Seq(S) PROVE <<>> \o v = v
  OBVIOUS

LEMMA AppendedBehind ==
  ASSUME NEW S, NEW u \in Seq(S), NEW v \in Seq(S), NEW x \in S
  PROVE  u \o Append(v, x) = Append(u \o v, x)
<1>1. u \o Append(v, x) \in Seq(S) /\ Append(u \o v, x) \in Seq(S)
  OBVIOUS
<1>2. Len(u \o Append(v, x)) = Len(Append(u \o v, x))
  OBVIOUS
<1>3. \A i \in 1..Len(u \o Append(v, x)) : (u \o Append(v, x))[i] = Append(u \o v, x)[i]
  OBVIOUS
<1>4. QED
  BY <1>1, <1>2, <1>3, SeqEqual

LEMMA AppendedBefore ==
  ASSUME NEW S, NEW u \in Seq(S), NEW v \in Seq(S), NEW x \in S
  PROVE  Append(u, x) \o v = (u \o <<x>>) \o v /\ (u \o <<x>>) \o v \in Seq(S)
<1>1. Append(u, x) \o v \in Seq(S) /\ <<x>> \in Seq(S) /\ u \o <<x>> \in Seq(S)
  OBVIOUS
<1>2. u \o <<x>> = Append(u, x)
  <2>1. Len(u \o <<x>>) = Len(Append(u, x)) /\ Append(u, x) \in Seq(S)
    BY <1>1
  <2>2. \A i \in 1..Len(u \o <<x>>) : (u \o <<x>>)[i] = Append(u, x)[i]
    BY <1>1
  <2>3. QED
    BY <1>1, <2>1, <2>2, SeqEqual
<1>3. QED
  BY <1>1, <1>2

LEMMA AppendedNotEmpty ==
  ASSUME NEW S, NEW u \in Seq(S), NEW v \in Seq(S), NEW x \in S
  PROVE  Append(u, x) # <<>> /\ Append(u, x) \o v # <<>>
  OBVIOUS

LEMMA LastTakenOff ==
  ASSUME NEW S, NEW u \in Seq(S), NEW x \in S
  PROVE  SubSeq(Append(u, x), 1, Len(Append(u, x)) - 1) = u
<1> DEFINE t == Append(u, x)
<1>1. t \in Seq(S) /\ Len(t) = Len(u) + 1 /\ \A i \in 1..Len(u) : t[i] = u[i]
  OBVIOUS
<1>2. Len(u) \in Nat
  OBVIOUS
<1> HIDE DEF t
<1>3. SubSeq(t, 1, Len(t) - 1) = [i \in 1..Len(u) |-> t[i]]
  BY <1>1, <1>2
<1>4. u = [i \in 1..Len(u) |-> u[i]]
  OBVIOUS
<1>5. QED
  BY <1>1, <1>3, <1>4 DEF t

\* encodeFilenames() writes the names that are not empty with one NUL between two of them,
\* and none at the end.
LEMMA NamesJoined ==
  ASSUME NEW names \in Seq(Seq(Nat))
  PROVE  encodeFilenames(names) = JoinedByNul(names) /\ JoinedByNul(names) \in Seq(Nat)
<1> DEFINE n == Len(names)
<1>1. n \in Nat /\ 0 \in Nat /\ \A i \in 1..n : names[i] \in Seq(Nat)
  OBVIOUS
<1>2. PICK g \in [0..n -> Seq(Nat)] :
        /\ g[0] = <<>>
        /\ \A i \in 0..(n - 1) : g[i + 1] = Encoded(g[i], names[i + 1])
        /\ g[n] = AllEncoded(names)
  BY EncodedSteps
<1>3. PICK h \in [0..n -> Seq(Nat)] :
        /\ h[0] = <<>>
        /\ \A i \in 0..(n - 1) : h[i + 1] = Joined(h[i], names[i + 1])
        /\ h[n] = JoinedByNul(names)
  BY JoinedSteps
<1> DEFINE Same(bytes, joined) == bytes = IF joined = <<>> THEN <<>> ELSE Append(joined, 0)
           Good == {i \in Nat : i <= n => Same(g[i], h[i])}
<1>4. ASSUME NEW joined \in Seq(Nat), NEW bytes \in Seq(Nat), NEW name \in Seq(Nat), Same(bytes, joined)
      PROVE  Same(Encoded(bytes, name), Joined(joined, name))
  <2>1. CASE name = <<>>
    BY <1>4, <2>1 DEF Encoded, Joined
  <2>2. CASE name # <<>> /\ joined = <<>>
    <3>1. bytes = <<>> /\ Joined(joined, name) = name /\ Encoded(bytes, name) = <<>> \o Append(name, 0)
      BY <1>4, <2>2 DEF Encoded, Joined
    <3>2. Append(name, 0) \in Seq(Nat)
      BY <1>1
    <3>3. <<>> \o Append(name, 0) = Append(name, 0)
      BY <3>2, EmptyBefore
    <3>4. QED
      BY <2>2, <3>1, <3>3
  <2>3. CASE name # <<>> /\ joined # <<>>
    <3>1. /\ bytes = Append(joined, 0) /\ Joined(joined, name) = joined \o <<0>> \o name
          /\ Encoded(bytes, name) = bytes \o Append(name, 0)
      BY <1>4, <2>3 DEF Encoded, Joined
    <3>2. bytes \o Append(name, 0) = Append(bytes \o name, 0)
      BY <1>1, AppendedBehind
    <3>3. Append(joined, 0) \o name = joined \o <<0>> \o name
      BY <1>1, AppendedBefore
    <3>4. Append(joined, 0) \o name # <<>>
      BY <1>1, AppendedNotEmpty
    <3>5. QED
      BY <3>1, <3>2, <3>3, <3>4
  <2>4. QED
    BY <2>1, <2>2, <2>3
<1>5. Same(<<>>, <<>>)
  OBVIOUS
<1> HIDE DEF Same
<1>6. 0 \in Good
  BY <1>2, <1>3, <1>5
<1>7. ASSUME NEW i \in Nat, i \in Good PROVE i + 1 \in Good
  <2>1. ASSUME i + 1 <= n PROVE Same(g[i + 1], h[i + 1])
    <3>1. i \in 0..(n - 1) /\ i \in 0..n /\ i + 1 \in 1..n /\ i <= n
      BY <1>1, <2>1
    <3>2. Same(g[i], h[i]) /\ g[i] \in Seq(Nat) /\ h[i] \in Seq(Nat) /\ names[i + 1] \in Seq(Nat)
      BY <1>1, <1>2, <1>3, <1>7, <3>1
    <3>3. g[i + 1] = Encoded(g[i], names[i + 1]) /\ h[i + 1] = Joined(h[i], names[i + 1])
      BY <1>2, <1>3, <3>1
    <3>4. QED
      BY <1>4, <3>2, <3>3
  <2>2. QED
    BY <2>1
<1>8. Good = Nat
  <2>1. Good \in SUBSET Nat
    OBVIOUS
  <2> HIDE DEF Good
  <2>2. QED
    BY <1>6, <1>7, <2>1, AllNumbers
<1>9. Same(AllEncoded(names), JoinedByNul(names)) /\ JoinedByNul(names) \in Seq(Nat)
  <2>1. n \in Good /\ n \in 0..n
    <3> HIDE DEF Good
    <3>1. QED
      BY <1>1, <1>8
  <2>2. Same(g[n], h[n])
    <3>1. \A i \in Good : i <= n => Same(g[i], h[i])
      OBVIOUS
    <3> HIDE DEF Good
    <3>2. n <= n
      BY <1>1
    <3>3. QED
      BY <2>1, <3>1, <3>2
  <2>3. h[n] \in Seq(Nat)
    BY <1>3, <2>1
  <2>4. QED
    BY <1>2, <1>3, <2>2, <2>3
<1>10. encodeFilenames(names) = Chopped(AllEncoded(names))
  BY DEF encodeFilenames, AllEncoded
<1> DEFINE joined == JoinedByNul(names)
<1>11. joined \in Seq(Nat) /\ AllEncoded(names) = IF joined = <<>> THEN <<>> ELSE Append(joined, 0)
  BY <1>9 DEF Same
<1> HIDE DEF joined
<1>12. Chopped(<<>>) = <<>>
  BY DEF Chopped
<1>13. joined # <<>> => Chopped(Append(joined, 0)) = joined
  <2>1. Append(joined, 0) # <<>>
    BY <1>1, <1>11, AppendedNotEmpty
  <2>2. SubSeq(Append(joined, 0), 1, Len(Append(joined, 0)) - 1) = joined
    BY <1>1, <1>11, LastTakenOff
  <2>3. QED
    BY <2>1, <2>2 DEF Chopped, Front
<1>14. QED
  BY <1>10, <1>11, <1>12, <1>13 DEF joined

\* A signing key is added for each signer who is not null, in their order.
LEMMA SignersAdded ==
  ASSUME NEW S, NEW signers \in Seq(S)
  PROVE  /\ AddSigningKeys(signers) \in Seq(AddCalls(S)) /\ NotNull(signers) \in Seq(S)
         /\ Len(AddSigningKeys(signers)) = Len(NotNull(signers))
         /\ \A i \in 1..Len(NotNull(signers)) : AddSigningKeys(signers)[i] = Adding(NotNull(signers)[i])
<1> DEFINE n == Len(signers)
<1>1. n \in Nat /\ \A i \in 1..n : signers[i] \in S
  OBVIOUS
<1>2. PICK g \in [0..n -> Seq(AddCalls(S))] :
        /\ g[0] = <<>>
        /\ \A i \in 0..(n - 1) : g[i + 1] = Added(g[i], signers[i + 1])
        /\ g[n] = AddSigningKeys(signers)
  BY AddedSteps
<1>3. PICK h \in [0..n -> Seq(S)] :
        /\ h[0] = <<>>
        /\ \A i \in 0..(n - 1) : h[i + 1] = Keyed(h[i], signers[i + 1])
        /\ h[n] = NotNull(signers)
  BY KeyedSteps
<1> DEFINE Same(calls, keyed) == Len(calls) = Len(keyed) /\ \A i \in 1..Len(keyed) : calls[i] = Adding(keyed[i])
           Good == {i \in Nat : i <= n => Same(g[i], h[i])}
<1>4. ASSUME NEW calls \in Seq(AddCalls(S)), NEW keyed \in Seq(S), NEW signer \in S, Same(calls, keyed)
      PROVE  Same(Added(calls, signer), Keyed(keyed, signer))
  <2>1. CASE signer = "null"
    BY <1>4, <2>1 DEF Added, Keyed
  <2>2. CASE signer # "null"
    <3>1. Added(calls, signer) = Append(calls, Adding(signer)) /\ Keyed(keyed, signer) = Append(keyed, signer)
      BY <2>2 DEF Added, Keyed
    <3>2. Adding(signer) \in AddCalls(S)
      BY DEF AddCalls
    <3> DEFINE k == Len(keyed)
    <3>3. k \in Nat /\ Len(calls) = k /\ Len(Append(keyed, signer)) = k + 1 /\ Append(keyed, signer)[k + 1] = signer
          /\ \A i \in 1..k : Append(keyed, signer)[i] = keyed[i]
      BY <1>4
    <3>4. Len(Append(calls, Adding(signer))) = k + 1 /\ Append(calls, Adding(signer))[k + 1] = Adding(signer)
          /\ \A i \in 1..k : Append(calls, Adding(signer))[i] = calls[i]
      BY <3>2, <3>3
    <3>5. 1..(k + 1) = 1..k \cup {k + 1}
      BY <3>3
    <3>6. \A i \in 1..k : calls[i] = Adding(keyed[i])
      BY <1>4
    <3> HIDE DEF k
    <3>7. \A i \in 1..(k + 1) : Append(calls, Adding(signer))[i] = Adding(Append(keyed, signer)[i])
      BY <3>3, <3>4, <3>5, <3>6
    <3>8. QED
      BY <3>1, <3>3, <3>4, <3>7
  <2>3. QED
    BY <2>1, <2>2
<1>5. Same(<<>>, <<>>)
  OBVIOUS
<1> HIDE DEF Same
<1>6. 0 \in Good
  BY <1>2, <1>3, <1>5
<1>7. ASSUME NEW i \in Nat, i \in Good PROVE i + 1 \in Good
  <2>1. ASSUME i + 1 <= n PROVE Same(g[i + 1], h[i + 1])
    <3>1. i \in 0..(n - 1) /\ i \in 0..n /\ i + 1 \in 1..n /\ i <= n
      BY <1>1, <2>1
    <3>2. Same(g[i], h[i]) /\ g[i] \in Seq(AddCalls(S)) /\ h[i] \in Seq(S) /\ signers[i + 1] \in S
      BY <1>1, <1>2, <1>3, <1>7, <3>1
    <3>3. g[i + 1] = Added(g[i], signers[i + 1]) /\ h[i + 1] = Keyed(h[i], signers[i + 1])
      BY <1>2, <1>3, <3>1
    <3>4. QED
      BY <1>4, <3>2, <3>3
  <2>2. QED
    BY <2>1
<1>8. Good = Nat
  <2>1. Good \in SUBSET Nat
    OBVIOUS
  <2> HIDE DEF Good
  <2>2. QED
    BY <1>6, <1>7, <2>1, AllNumbers
<1>9. Same(AddSigningKeys(signers), NotNull(signers))
  <2>1. n \in Good /\ n \in 0..n
    <3> HIDE DEF Good
    <3>1. QED
      BY <1>1, <1>8
  <2>2. QED
    BY <1>1, <1>2, <1>3, <2>1
<1>10. AddSigningKeys(signers) \in Seq(AddCalls(S)) /\ NotNull(signers) \in Seq(S)
  <2>1. n \in 0..n
    BY <1>1
  <2>2. QED
    BY <1>2, <1>3, <2>1
<1>11. QED
  BY <1>9, <1>10 DEF Same

------------------------------------------------------------------------------
(* The data of the providers                                               *)

\* While the worker function runs, the provider is what a file in its place would be, but
\* a byte array only where its place is an int.
AsFile ==
  /\ req.kind = "decrypt" =>
       provider = [array |-> file.content, off |-> file.pos, sequential |-> req.a.sequential]
  /\ req.kind # "decrypt" =>
       /\ provider = [array |-> file.content, off |-> provider.off]
       /\ file.pos < IntSize => provider.off = file.pos
BytesInv ==
  /\ agree = TRUE
  /\ stage = "working" => file \in [content : Seq(Nat), pos : Nat] /\ AsFile

\* A device is not read after it has told an end or an error; a process has ended by then.
DeviceInv ==
  /\ device \in [process : {"none", "running", "exited", "failed"}, left : Nat, end : {"0", "-1", "EIO"},
                 errorOccurred : BOOLEAN, read : {"none", "bytes", "0", "EIO"}, errno : BOOLEAN]
  /\ device.errorOccurred => device.read \in {"0", "EIO"}
  /\ device.read \in {"0", "EIO"} => device.process # "running"
  /\ device.read = "EIO" =>
       device.process = "failed" \/ device.end = "EIO" \/ (device.end = "-1" /\ device.errno)
  /\ device.read = "0" => device.process # "failed" /\ device.left = 0

\* What is read of the array is what is read of a file.
LEMMA ReadsTheSame ==
  ASSUME NEW n \in 1..2, file \in [content : Seq(Nat), pos : Nat],
         provider = [array |-> file.content, off |-> file.pos]
  PROVE  /\ BytesRead(provider, n) = FileRead(n)
         /\ read(provider, n) = [array |-> file.content, off |-> file.pos + Len(FileRead(n))]
         /\ file.pos + Len(FileRead(n)) \in Nat
<1> DEFINE content == file.content  pos == file.pos  end == Min({pos + n, Len(content)})
<1>1. content \in Seq(Nat) /\ pos \in Nat /\ n \in Nat /\ Len(content) \in Nat
  OBVIOUS
<1>2. provider.array = content /\ provider.off = pos /\ Size(provider) = Len(content)
  BY DEF Size
<1>3. end = IF pos + n <= Len(content) THEN pos + n ELSE Len(content)
  BY <1>1, LesserOfTwo
<1>4. FileRead(n) = SubSeq(content, pos + 1, end)
  BY DEF FileRead
<1> HIDE DEF content, pos, end
<1>5. CASE pos >= Len(content)
  <2>1. FileRead(n) = <<>> /\ Len(FileRead(n)) = 0
    BY <1>1, <1>3, <1>4, <1>5
  <2>2. BytesRead(provider, n) = <<>> /\ read(provider, n) = provider
    BY <1>2, <1>5 DEF BytesRead, read, AtEnd
  <2>3. QED
    BY <1>1, <2>1, <2>2 DEF content, pos
<1>6. CASE pos < Len(content)
  <2>1. end = pos + Amount(provider, n) /\ end \in Nat /\ end <= Len(content) /\ pos < end
    BY <1>1, <1>2, <1>3, <1>6 DEF Amount
  <2>2. Len(FileRead(n)) = end - pos
    BY <1>1, <1>4, <2>1
  <2>3. ~AtEnd(provider)
    BY <1>1, <1>2, <1>6 DEF AtEnd
  <2>4. BytesRead(provider, n) = FileRead(n)
    BY <1>2, <1>4, <2>1, <2>3 DEF BytesRead
  <2>5. read(provider, n) = [provider EXCEPT !.off = pos + Amount(provider, n)]
    BY <1>2, <2>3 DEF read
  <2>6. pos + Amount(provider, n) = pos + Len(FileRead(n)) /\ pos + Len(FileRead(n)) = end
    BY <1>1, <2>1, <2>2
  <2>7. QED
    BY <2>1, <2>4, <2>5, <2>6 DEF content, pos
<1>7. QED
  BY <1>1, <1>5, <1>6

\* An array that has grown is as long as it should be, and new bytes are 0.
LEMMA GrownBytes ==
  ASSUME NEW bytes \in Seq(Nat), NEW size \in Nat, size >= Len(bytes)
  PROVE  /\ DOMAIN resizeAndInit(bytes, size) = 1..size /\ Len(resizeAndInit(bytes, size)) = size
         /\ \A i \in 1..size : resizeAndInit(bytes, size)[i] = IF i <= Len(bytes) THEN bytes[i] ELSE 0
<1> DEFINE zeros == [i \in 1..(size - Len(bytes)) |-> 0]
<1>1. size - Len(bytes) \in Nat /\ Len(bytes) \in Nat
  OBVIOUS
<1>2. zeros \in Seq(Nat) /\ Len(zeros) = size - Len(bytes) /\ \A i \in 1..(size - Len(bytes)) : zeros[i] = 0
  BY <1>1
<1> HIDE DEF zeros
<1>3. bytes \o zeros \in Seq(Nat) /\ Len(bytes \o zeros) = size
  BY <1>1, <1>2
<1>4. \A i \in 1..size : (bytes \o zeros)[i] = IF i <= Len(bytes) THEN bytes[i] ELSE 0
  BY <1>1, <1>2
<1>5. resizeAndInit(bytes, size) = bytes \o zeros
  BY DEF resizeAndInit, zeros
<1>6. QED
  BY <1>3, <1>4, <1>5

\* What write() makes of an array that has grown, if it had to.
LEMMA WrittenOver ==
  ASSUME NEW bytes \in Seq(Nat), NEW content \in Seq(Nat), NEW pos \in Nat, NEW array,
         file = [content |-> content, pos |-> pos],
         LET size == IF pos + Len(bytes) > Len(content) THEN pos + Len(bytes) ELSE Len(content) IN
         /\ DOMAIN array = 1..size
         /\ \A i \in 1..size : array[i] = IF i <= Len(content) THEN content[i] ELSE 0
  PROVE  /\ FileWritten(bytes) = [i \in DOMAIN array |-> IF i \in (pos + 1)..(pos + Len(bytes)) THEN bytes[i - pos]
                                                         ELSE array[i]]
         /\ FileWritten(bytes) \in Seq(Nat)
<1> DEFINE size == IF pos + Len(bytes) > Len(content) THEN pos + Len(bytes) ELSE Len(content)
           new == [i \in 1..size |-> IF i \in (pos + 1)..(pos + Len(bytes)) THEN bytes[i - pos] ELSE array[i]]
<1>1. size \in Nat /\ Len(bytes) \in Nat /\ Len(content) \in Nat
  OBVIOUS
<1>2. Max({Len(content), pos + Len(bytes)}) = size
  <2>1. Len(content) \in Int /\ pos + Len(bytes) \in Int
    BY <1>1
  <2>2. Max({Len(content), pos + Len(bytes)}) =
          IF Len(content) >= pos + Len(bytes) THEN Len(content) ELSE pos + Len(bytes)
    BY <2>1, GreaterOfTwo
  <2>3. QED
    BY <2>1, <2>2
<1>3. \A i \in 1..size :
        (CASE i \in (pos + 1)..(pos + Len(bytes)) -> bytes[i - pos]
           [] i \notin (pos + 1)..(pos + Len(bytes)) /\ i <= Len(content) -> content[i]
           [] OTHER -> 0) = IF i \in (pos + 1)..(pos + Len(bytes)) THEN bytes[i - pos] ELSE array[i]
  BY <1>1
<1>4. file.content = content /\ file.pos = pos
  OBVIOUS
<1>5. FileWritten(bytes) = new
  <2> HIDE DEF size
  <2>1. FileWritten(bytes) =
          [i \in 1..size |->
             CASE i \in (pos + 1)..(pos + Len(bytes)) -> bytes[i - pos]
               [] i \notin (pos + 1)..(pos + Len(bytes)) /\ i <= Len(content) -> content[i]
               [] OTHER -> 0]
    BY <1>2, <1>4 DEF FileWritten
  <2>2. QED
    BY <1>3, <2>1
<1>6. \A i \in 1..size : new[i] \in Nat
  <2>1. ASSUME NEW i \in 1..size PROVE new[i] \in Nat
    <3>1. CASE i \in (pos + 1)..(pos + Len(bytes))
      <4>1. i - pos \in 1..Len(bytes)
        BY <1>1, <3>1
      <4>2. bytes[i - pos] \in Nat
        BY <4>1
      <4>3. QED
        BY <3>1, <4>2
    <3>2. CASE i \notin (pos + 1)..(pos + Len(bytes))
      <4>1. array[i] \in Nat
        BY <1>1
      <4>2. QED
        BY <3>2, <4>1
    <3>3. QED
      BY <3>1, <3>2
  <2>2. QED
    BY <2>1
<1>7. new \in Seq(Nat)
  <2>1. new \in [1..size -> Nat]
    <3> HIDE DEF size
    <3>1. QED
      BY <1>6
  <2> HIDE DEF new, size
  <2>2. QED
    BY <1>1, <2>1
<1>8. DOMAIN array = 1..size
  OBVIOUS
<1>9. QED
  BY <1>5, <1>7, <1>8

\* write() of the array writes like a file, if it begins at the end or ends inside.
LEMMA WritesTheSame ==
  ASSUME NEW bytes \in Seq(Nat), bytes # <<>>, file \in [content : Seq(Nat), pos : Nat],
         provider = [array |-> file.content, off |-> file.pos],
         file.pos >= Len(file.content) \/ file.pos + Len(bytes) <= Len(file.content)
  PROVE  /\ MayWrite(provider, Len(bytes)) /\ FileWritten(bytes) \in Seq(Nat)
         /\ write(provider, bytes) = [array |-> FileWritten(bytes), off |-> file.pos + Len(bytes)]
<1> DEFINE content == file.content  pos == file.pos  n == Len(bytes)  array == Grown(provider, n)
           size == IF pos + n > Len(content) THEN pos + n ELSE Len(content)
<1>1. content \in Seq(Nat) /\ pos \in Nat /\ n \in Nat \ {0} /\ Len(content) \in Nat
  OBVIOUS
<1>2. provider.array = content /\ provider.off = pos /\ Size(provider) = Len(content)
  BY DEF Size
<1>3. file = [content |-> content, pos |-> pos]
  OBVIOUS
<1> HIDE DEF content, pos, n
<1>4. /\ DOMAIN array = 1..size /\ Len(array) = size
      /\ \A i \in 1..size : array[i] = IF i <= Len(content) THEN content[i] ELSE 0
  <2>1. CASE pos >= Len(content)
    <3>1. array = resizeAndInit(content, pos + n) /\ size = pos + n /\ size \in Nat /\ size >= Len(content)
      BY <1>1, <1>2, <2>1 DEF Grown, AtEnd
    <3> HIDE DEF array, size
    <3>2. QED
      BY <1>1, <3>1, GrownBytes
  <2>2. CASE pos < Len(content)
    <3>1. array = content
      BY <1>1, <1>2, <2>2 DEF Grown, AtEnd
    <3>2. size = Len(content)
      BY <1>1, <2>2 DEF content, pos, n
    <3> HIDE DEF array, size
    <3>3. QED
      BY <1>1, <3>1, <3>2
  <2>3. QED
    BY <1>1, <2>1, <2>2
<1>5. MayWrite(provider, n)
  BY <1>1, <1>2, <1>4 DEF MayWrite
<1> HIDE DEF array
<1>6. /\ FileWritten(bytes) = [i \in DOMAIN array |-> IF i \in (pos + 1)..(pos + n) THEN bytes[i - pos] ELSE array[i]]
      /\ FileWritten(bytes) \in Seq(Nat)
  BY <1>1, <1>3, <1>4, WrittenOver DEF n
<1>7. write(provider, bytes) =
        [array |-> [i \in DOMAIN array |-> IF i \in (pos + 1)..(pos + n) THEN bytes[i - pos] ELSE array[i]],
         off |-> pos + n]
  BY <1>2 DEF write, array, n
<1>8. QED
  BY <1>5, <1>6, <1>7 DEF pos, n

\* write() to a device writes like a file, wherever it begins and ends.
LEMMA DeviceWritesTheSame ==
  ASSUME NEW bytes \in Seq(Nat), file \in [content : Seq(Nat), pos : Nat], NEW sequential,
         provider = [array |-> file.content, off |-> file.pos, sequential |-> sequential]
  PROVE  /\ FileWritten(bytes) \in Seq(Nat)
         /\ DeviceWrite(provider, bytes) =
              [array |-> FileWritten(bytes), off |-> file.pos + Len(bytes), sequential |-> sequential]
<1> DEFINE content == file.content  pos == file.pos  n == Len(bytes)
           array == IF pos + n > Len(content) THEN resizeAndInit(content, pos + n) ELSE content
           size == IF pos + n > Len(content) THEN pos + n ELSE Len(content)
<1>1. content \in Seq(Nat) /\ pos \in Nat /\ n \in Nat /\ Len(content) \in Nat
  OBVIOUS
<1>2. provider.array = content /\ provider.off = pos /\ Size(provider) = Len(content)
  BY DEF Size
<1>3. file = [content |-> content, pos |-> pos]
  OBVIOUS
<1> HIDE DEF content, pos, n
<1>4. /\ DOMAIN array = 1..size
      /\ \A i \in 1..size : array[i] = IF i <= Len(content) THEN content[i] ELSE 0
  <2>1. CASE pos + n > Len(content)
    <3>1. array = resizeAndInit(content, pos + n) /\ size = pos + n /\ size \in Nat /\ size >= Len(content)
      BY <1>1, <2>1
    <3> HIDE DEF array, size
    <3>2. QED
      BY <1>1, <3>1, GrownBytes
  <2>2. CASE ~(pos + n > Len(content))
    <3>1. array = content /\ size = Len(content)
      BY <2>2
    <3> HIDE DEF array, size
    <3>2. QED
      BY <1>1, <3>1
  <2>3. QED
    BY <2>1, <2>2
<1> HIDE DEF array
<1>5. /\ FileWritten(bytes) = [i \in DOMAIN array |-> IF i \in (pos + 1)..(pos + n) THEN bytes[i - pos] ELSE array[i]]
      /\ FileWritten(bytes) \in Seq(Nat)
  BY <1>1, <1>3, <1>4, WrittenOver DEF n
<1>6. DeviceWrite(provider, bytes) =
        [provider EXCEPT
           !.array = [i \in DOMAIN array |-> IF i \in (pos + 1)..(pos + n) THEN bytes[i - pos] ELSE array[i]],
           !.off = pos + n]
  BY <1>2 DEF DeviceWrite, array, n
<1>7. QED
  BY <1>5, <1>6 DEF pos, n

\* The steps that neither enter the worker function nor ask for data.
DataApart == ~(EnterWorker \/ ProcessSends \/ ReadDevice \/ DataStep)

LEMMA DataFrame ==
  ASSUME OwnerInv, DataApart, [Next]_vars
  PROVE  UNCHANGED dataVars /\ (stage' = "working" => stage = "working" /\ UNCHANGED req)
<1>1. CASE CreateJob \/ Start \/ StartNow
  <2>1. stage' \in {"created", "crashed", "no job", "refused", "prepared", "idle", "started"}
    BY <1>1 DEF CreateJob, Start, StartNow
  <2>2. QED
    BY <1>1, <2>1 DEF CreateJob, Start, StartNow
<1>2. CASE Configure \/ Reconfigure \/ Tick
  BY <1>2 DEF Configure, Reconfigure, Tick
<1>3. CASE Report \/ DeferredDelete \/ DeleteWrapper
  <2>1. UNCHANGED dataVars /\ stage' \in {"reported", "gone"}
    BY <1>3 DEF Report, DeferredDelete, DeleteWrapper
  <2>2. QED
    BY <2>1
<1>4. CASE NoPartFile \/ NothingToRefresh \/ ReturnEarly \/ TakeLog
  BY <1>4 DEF NoPartFile, NothingToRefresh, ReturnEarly, TakeLog
<1>5. CASE EnterListing \/ ListingReturns \/ ChooseKey \/ RefreshEnds
  BY <1>5 DEF EnterListing, ListingReturns, ChooseKey, RefreshEnds
<1>6. CASE ListingStep \/ ListingStops
  BY <1>6 DEF ListingStep, ListingStops
<1>7. CASE CallEngine \/ CallImport \/ RunProcess \/ CallList
  BY <1>7 DEF CallEngine, CallImport, RunProcess, CallList, IsNext
<1>8. CASE UNCHANGED vars
  BY <1>8 DEF vars
<1>9. QED
  BY <1>1, <1>2, <1>3, <1>4, <1>5, <1>6, <1>7, <1>8 DEF Next, WorkerStep, DataApart

LEMMA BytesEntered ==
  ASSUME OwnerInv, BytesInv, EnterWorker
  PROVE  BytesInv'
<1>1. Input(req) = InputFile(req) /\ InputFile(req) \in Seq(Nat)
  <2>1. CASE req.kind = "import"
    BY <2>1, DataKnown DEF Input, InputFile, OwnerInv
  <2>2. CASE req.kind = "encryptArchive"
    <3>1. req.a.names \in Seq(Seq(Nat))
      BY <2>2, DataKnown DEF OwnerInv
    <3>2. QED
      BY <2>2, <3>1, NamesJoined DEF Input, InputFile
  <2>3. CASE req.kind \notin {"import", "encryptArchive"}
    BY <2>3 DEF Input, InputFile
  <2>4. QED
    BY <2>1, <2>2, <2>3
<1>2. UNCHANGED <<req, agree>> /\ file' = [content |-> InputFile(req), pos |-> 0]
  BY DEF EnterWorker
<1>3. provider' = IF req.kind = "decrypt" THEN NewDevice(req.a.sequential) ELSE NewProvider(Input(req))
  BY DEF EnterWorker
<1>4. req.kind = "decrypt" => Input(req) = <<>>
  BY DEF Input
<1>5. QED
  BY <1>1, <1>2, <1>3, <1>4 DEF BytesInv, AsFile, NewDevice, NewProvider

\* The assertion of write() fails exactly for a write across the end.
LEMMA AssertsAcrossTheEnd ==
  ASSUME NEW bytes \in Seq(Nat), bytes # <<>>, file \in [content : Seq(Nat), pos : Nat],
         provider = [array |-> file.content, off |-> file.pos]
  PROVE  MayWrite(provider, Len(bytes)) <=> ~AcrossTheEnd(bytes)
<1>1. /\ Len(file.content) \in Nat /\ file.pos \in Nat /\ Len(bytes) \in Nat
      /\ provider.array = file.content /\ provider.off = file.pos
  OBVIOUS
<1>2. CASE AcrossTheEnd(bytes)
  <2>1. file.pos < Len(file.content) /\ Len(file.content) < file.pos + Len(bytes)
    BY <1>2 DEF AcrossTheEnd
  <2>2. ~AtEnd(provider)
    BY <1>1, <2>1 DEF AtEnd, Size
  <2>3. Grown(provider, Len(bytes)) = file.content
    BY <1>1, <2>2 DEF Grown
  <2>4. QED
    BY <1>1, <1>2, <2>1, <2>3 DEF MayWrite
<1>3. CASE ~AcrossTheEnd(bytes)
  <2>1. file.pos >= Len(file.content) \/ file.pos + Len(bytes) <= Len(file.content)
    BY <1>1, <1>3 DEF AcrossTheEnd
  <2>2. QED
    BY <1>3, <2>1, WritesTheSame
<1>4. QED
  BY <1>2, <1>3

\* A place that is an int is kept.
LEMMA IntsAreKept ==
  ASSUME NEW n \in Nat, n < IntSize
  PROVE  AsInt(n) = n
  BY RequestBounds DEF AsInt

\* What GpgME may ask of the data, by the kind of the provider.
LEMMA BytesAsked ==
  ASSUME BytesInv, DataStep
  PROVE  BytesInv'
<1>1. /\ stage = "working" /\ UNCHANGED req /\ agree = TRUE
      /\ file \in [content : Seq(Nat), pos : Nat] /\ AsFile
      /\ req.kind # "decrypt" => file.pos < IntSize
  BY DEF DataStep, ReadData, WriteData, WriteAsserts, SeekData, WriteDevice, SeekDevice, DataAsked, BytesInv
<1> SUFFICES agree' = TRUE /\ file' \in [content : Seq(Nat), pos : Nat] /\ AsFile'
  BY DEF BytesInv
<1>2. <<1>> \in Seq(Nat) /\ <<2, 3>> \in Seq(Nat) /\ <<1>> # <<>> /\ <<2, 3>> # <<>>
  OBVIOUS
<1>3. req.kind # "decrypt" => provider = [array |-> file.content, off |-> file.pos]
  BY <1>1 DEF AsFile
<1>4. CASE ReadData
  <2>1. req.kind # "decrypt"
    BY <1>4 DEF ReadData, DataAsked
  <2>2. PICK n \in 1..2 :
          /\ provider' = read(provider, n)
          /\ agree' = (agree /\ BytesRead(provider, n) = FileRead(n))
          /\ file' = [file EXCEPT !.pos = @ + Len(FileRead(n))]
    BY <1>4 DEF ReadData
  <2>3. /\ BytesRead(provider, n) = FileRead(n)
        /\ read(provider, n) = [array |-> file.content, off |-> file.pos + Len(FileRead(n))]
        /\ file.pos + Len(FileRead(n)) \in Nat
    BY <1>1, <1>3, <2>1, <2>2, ReadsTheSame
  <2>4. /\ file' = [content |-> file.content, pos |-> file.pos + Len(FileRead(n))]
        /\ provider' = [array |-> file.content, off |-> file.pos + Len(FileRead(n))]
    BY <1>1, <2>2, <2>3
  <2>5. agree' = TRUE
    BY <1>1, <2>2, <2>3, Zenon
  <2>6. QED
    BY <1>1, <2>1, <2>3, <2>4, <2>5 DEF AsFile
<1>5. CASE WriteData
  <2>1. req.kind # "decrypt"
    BY <1>5 DEF WriteData, DataAsked, Exports
  <2>2. PICK bytes \in {<<1>>, <<2, 3>>} :
          /\ MayWrite(provider, Len(bytes))
          /\ agree' = (agree /\ ~AcrossTheEnd(bytes))
          /\ provider' = write(provider, bytes)
          /\ file' = [content |-> FileWritten(bytes), pos |-> file.pos + Len(bytes)]
    BY <1>5 DEF WriteData
  <2>3. bytes \in Seq(Nat) /\ bytes # <<>> /\ Len(bytes) \in Nat
    BY <1>2, <2>2
  <2>4. /\ FileWritten(bytes) \in Seq(Nat)
        /\ write(provider, bytes) = [array |-> FileWritten(bytes), off |-> file.pos + Len(bytes)]
    <3>1. ~AcrossTheEnd(bytes)
      BY <1>1, <1>3, <2>1, <2>2, <2>3, AssertsAcrossTheEnd
    <3>2. file.pos >= Len(file.content) \/ file.pos + Len(bytes) <= Len(file.content)
      BY <1>1, <2>3, <3>1 DEF AcrossTheEnd
    <3>3. QED
      BY <1>1, <1>3, <2>1, <2>3, <3>2, WritesTheSame
  <2>5. agree' = TRUE
    <3>1. ~AcrossTheEnd(bytes)
      BY <1>1, <1>3, <2>1, <2>2, <2>3, AssertsAcrossTheEnd
    <3>2. QED
      BY <1>1, <2>2, <3>1, Zenon
  <2>6. /\ file' = [content |-> FileWritten(bytes), pos |-> file.pos + Len(bytes)]
        /\ provider' = [array |-> FileWritten(bytes), off |-> file.pos + Len(bytes)]
        /\ FileWritten(bytes) \in Seq(Nat) /\ file.pos + Len(bytes) \in Nat
    BY <1>1, <2>2, <2>3, <2>4
  <2>7. QED
    BY <1>1, <2>1, <2>5, <2>6 DEF AsFile
<1>6. CASE WriteDevice
  <2>1. req.kind = "decrypt"
    BY <1>6 DEF WriteDevice, DataAsked
  <2>2. PICK bytes \in {<<1>>, <<2, 3>>} :
          /\ provider' = DeviceWrite(provider, bytes)
          /\ file' = [content |-> FileWritten(bytes), pos |-> file.pos + Len(bytes)]
    BY <1>6 DEF WriteDevice
  <2>3. bytes \in Seq(Nat) /\ Len(bytes) \in Nat
    BY <1>2, <2>2
  <2>4. provider = [array |-> file.content, off |-> file.pos, sequential |-> req.a.sequential]
    BY <1>1, <2>1 DEF AsFile
  <2>5. /\ FileWritten(bytes) \in Seq(Nat)
        /\ DeviceWrite(provider, bytes) =
             [array |-> FileWritten(bytes), off |-> file.pos + Len(bytes), sequential |-> req.a.sequential]
    BY <1>1, <2>3, <2>4, DeviceWritesTheSame
  <2>6. UNCHANGED agree
    BY <1>6 DEF WriteDevice
  <2>7. QED
    BY <1>1, <2>1, <2>2, <2>3, <2>5, <2>6 DEF AsFile
<1>7. CASE SeekData
  <2>1. req.kind # "decrypt" /\ UNCHANGED agree
    BY <1>7 DEF SeekData, DataAsked, Exports
  <2>2. PICK offset \in (-1..1) \cup {IntSize}, whence \in {"SEEK_SET", "SEEK_CUR", "SEEK_END"} :
          /\ Place(offset, whence) >= 0
          /\ provider' = seek(provider, offset, whence)
          /\ file' = [file EXCEPT !.pos = Place(offset, whence)]
    BY <1>7 DEF SeekData
  <2> DEFINE place == Place(offset, whence)
  <2>3. offset \in Int /\ Len(file.content) \in Nat
    BY <1>1, <2>2, RequestBounds
  <2>4. Sought(provider, offset, whence) = place /\ place \in Nat
    BY <1>1, <1>3, <2>1, <2>2, <2>3 DEF Sought, Place, Size
  <2> HIDE DEF place
  <2>5. NewOffset(provider, offset, whence) = AsInt(place)
    BY <2>4 DEF NewOffset
  <2>6. place < IntSize => AsInt(place) = place
    BY <2>4, IntsAreKept
  <2>7. provider' = [array |-> file.content, off |-> AsInt(place)]
    BY <1>3, <2>1, <2>2, <2>5 DEF seek
  <2>8. file' = [content |-> file.content, pos |-> place]
    BY <1>1, <2>2 DEF place
  <2>9. QED
    BY <1>1, <2>1, <2>4, <2>6, <2>7, <2>8 DEF AsFile
<1>8. CASE SeekDevice
  <2>1. req.kind = "decrypt" /\ ~provider.sequential
    BY <1>8 DEF SeekDevice, DataAsked, isSupported
  <2>2. PICK offset \in -1..1, whence \in {"SEEK_SET", "SEEK_CUR", "SEEK_END"} :
          /\ provider' = DeviceSeek(provider, offset, whence).device
          /\ agree' = (agree /\ (DeviceSeek(provider, offset, whence).answer = "EINVAL" <=> Place(offset, whence) < 0))
          /\ file' = IF Place(offset, whence) < 0 THEN file ELSE [file EXCEPT !.pos = Place(offset, whence)]
    BY <1>8 DEF SeekDevice
  <2>3. provider = [array |-> file.content, off |-> file.pos, sequential |-> req.a.sequential]
    BY <1>1, <2>1 DEF AsFile
  <2>4. Sought(provider, offset, whence) = Place(offset, whence) /\ Place(offset, whence) \in Int
    BY <1>1, <2>2, <2>3 DEF Sought, Place, Size
  <2> DEFINE place == Place(offset, whence)
  <2>5. DeviceSeek(provider, offset, whence) =
          IF place < 0 THEN [answer |-> "EINVAL", device |-> provider]
          ELSE [answer |-> "ok", device |-> [provider EXCEPT !.off = place]]
    BY <2>1, <2>4 DEF DeviceSeek
  <2> HIDE DEF place
  <2>6. CASE place < 0
    <3>1. DeviceSeek(provider, offset, whence) = [answer |-> "EINVAL", device |-> provider]
      BY <2>5, <2>6
    <3>2. UNCHANGED <<provider, file>>
      BY <2>2, <2>6, <3>1 DEF place
    <3>3. DeviceSeek(provider, offset, whence).answer = "EINVAL" <=> Place(offset, whence) < 0
      BY <2>6, <3>1 DEF place
    <3>4. agree' = TRUE
      BY <1>1, <2>2, <3>3, Zenon
    <3>5. QED
      BY <1>1, <3>2, <3>4 DEF AsFile
  <2>7. CASE ~(place < 0)
    <3>1. DeviceSeek(provider, offset, whence) = [answer |-> "ok", device |-> [provider EXCEPT !.off = place]]
      BY <2>5, <2>7
    <3>2. provider' = [provider EXCEPT !.off = place] /\ file' = [file EXCEPT !.pos = place]
      BY <2>2, <2>7, <3>1 DEF place
    <3>3. DeviceSeek(provider, offset, whence).answer = "EINVAL" <=> Place(offset, whence) < 0
      BY <2>7, <3>1 DEF place
    <3>4. agree' = TRUE
      BY <1>1, <2>2, <3>3, Zenon
    <3>5. place \in Nat
      BY <2>4, <2>7 DEF place
    <3>6. QED
      BY <1>1, <2>1, <2>3, <3>2, <3>4, <3>5 DEF AsFile
  <2>8. QED
    BY <2>6, <2>7
<1>9. CASE WriteAsserts
  <2>1. req.kind # "decrypt" /\ UNCHANGED <<provider, file>>
    BY <1>9 DEF WriteAsserts, DataAsked, Exports
  <2>2. PICK bytes \in {<<1>>, <<2, 3>>} :
          /\ ~MayWrite(provider, Len(bytes))
          /\ agree' = (agree /\ AcrossTheEnd(bytes))
    BY <1>9 DEF WriteAsserts
  <2>3. bytes \in Seq(Nat) /\ bytes # <<>>
    BY <1>2, <2>2
  <2>4. AcrossTheEnd(bytes)
    BY <1>1, <1>3, <2>1, <2>2, <2>3, AssertsAcrossTheEnd
  <2>5. agree' = TRUE
    BY <1>1, <2>2, <2>4, Zenon
  <2>6. QED
    BY <1>1, <2>1, <2>5 DEF AsFile
<1>10. QED
  BY <1>4, <1>5, <1>6, <1>7, <1>8, <1>9 DEF DataStep

LEMMA BytesStep ==
  ASSUME OwnerInv, BytesInv, [Next]_vars
  PROVE  BytesInv'
<1>1. CASE EnterWorker
  BY <1>1, BytesEntered
<1>2. CASE ProcessSends \/ ReadDevice
  <2>1. UNCHANGED <<req, stage, provider, file, agree>>
    BY <1>2 DEF ProcessSends, ReadDevice
  <2>2. QED
    BY <2>1 DEF BytesInv, AsFile
<1>3. CASE DataStep
  BY <1>3, BytesAsked
<1>4. CASE DataApart
  <2>1. UNCHANGED <<provider, file, agree>> /\ (stage' = "working" => stage = "working" /\ UNCHANGED req)
    BY <1>4, DataFrame DEF dataVars
  <2>2. QED
    BY <2>1 DEF BytesInv, AsFile
<1>5. QED
  BY <1>1, <1>2, <1>3, <1>4 DEF DataApart

LEMMA DeviceStep ==
  ASSUME OwnerInv, DeviceInv, [Next]_vars
  PROVE  DeviceInv'
<1>1. CASE EnterWorker
  <2>1. device' = IF req.kind = "encrypt" THEN req.a.device ELSE device
    BY <1>1 DEF EnterWorker
  <2>2. req.kind = "encrypt" =>
          req.a.device \in [process : {"none", "running"}, left : Nat, end : {"0", "-1", "EIO"},
                            errorOccurred : {FALSE}, read : {"none"}, errno : {FALSE}]
    BY DataKnown DEF OwnerInv
  <2>3. QED
    BY <2>1, <2>2 DEF DeviceInv
<1>2. CASE ProcessSends
  <2>1. device.process = "running"
        /\ \/ device' = [device EXCEPT !.left = @ + 1]
           \/ device' = [device EXCEPT !.process = "exited"]
           \/ device' = [device EXCEPT !.process = "failed"]
    BY <1>2 DEF ProcessSends
  <2>2. QED
    BY <2>1 DEF DeviceInv
<1>3. CASE ReadDevice
  <2> DEFINE answer == Answer
  <2>0. PICK errno \in BOOLEAN :
          device' = [device EXCEPT !.read = DeviceRead(answer, device.errorOccurred, errno),
                                   !.errno = errno,
                                   !.errorOccurred = ErrorOccurredAfter(answer, device.errorOccurred),
                                   !.left = IF answer = "bytes" THEN device.left - 1 ELSE device.left]
    BY <1>3 DEF ReadDevice
  <2>1. device.read \notin {"0", "EIO"} /\ (device.process = "running" => device.left > 0)
    BY <1>3 DEF ReadDevice
  <2>2. device.errorOccurred = FALSE
    BY <2>1 DEF DeviceInv
  <2>3. /\ answer \in {"bytes", "0", "-1", "EIO"}
        /\ answer = "bytes" <=> device.left > 0
        /\ answer = "EIO" => device.process = "failed" \/ device.end = "EIO"
        /\ answer \in {"0", "-1"} => device.process # "failed"
        /\ answer = "-1" => device.end = "-1"
    <3>1. /\ device.process \in {"none", "running", "exited", "failed"}
          /\ device.end \in {"0", "-1", "EIO"} /\ device.left \in Nat
      BY DEF DeviceInv
    <3>2. CASE device.left > 0
      <4>1. ProcessRead(device.process, device.left) = "bytes"
        BY <3>2 DEF ProcessRead
      <4>2. answer = "bytes"
        BY <3>2, <4>1 DEF Answer
      <4>3. QED
        BY <3>2, <4>2
    <3>3. CASE ~(device.left > 0)
      <4>1. device.process = "none" => answer = device.end
        BY <3>3 DEF Answer
      <4>2. device.process = "exited" => answer = "0"
        BY <3>1, <3>3 DEF Answer, ProcessRead
      <4>3. device.process = "failed" => answer = "EIO"
        BY <3>1, <3>3 DEF Answer, ProcessRead
      <4>4. device.process # "running"
        BY <2>1, <3>3
      <4> HIDE DEF answer
      <4>5. QED
        BY <3>1, <3>3, <4>1, <4>2, <4>3, <4>4
    <3>4. QED
      BY <3>2, <3>3
  <2> HIDE DEF answer
  <2>4. CASE answer = "bytes"
    <3>1. device' = [device EXCEPT !.read = "bytes", !.errno = errno, !.errorOccurred = FALSE,
                                   !.left = device.left - 1]
      BY <2>0, <2>2, <2>4 DEF DeviceRead, ErrorOccurredAfter
    <3>2. device.left - 1 \in Nat
      BY <2>3, <2>4 DEF DeviceInv
    <3>3. QED
      BY <2>1, <3>1, <3>2 DEF DeviceInv
  <2>5. CASE answer # "bytes"
    <3>1. device.left = 0 /\ device.process # "running"
      BY <2>1, <2>3, <2>5 DEF DeviceInv
    <3>2. DeviceRead(answer, device.errorOccurred, errno) =
            IF answer = "EIO" \/ (answer = "-1" /\ errno) THEN "EIO" ELSE "0"
      BY <2>2, <2>3, <2>5 DEF DeviceRead
    <3>3. ErrorOccurredAfter(answer, device.errorOccurred) \in BOOLEAN
      BY DEF ErrorOccurredAfter
    <3>4. QED
      BY <2>0, <2>1, <2>3, <2>5, <3>1, <3>2, <3>3 DEF DeviceInv
  <2>6. QED
    BY <2>4, <2>5
<1>4. CASE DataStep
  <2>1. UNCHANGED device
    BY <1>4, DataStays
  <2>2. QED
    BY <2>1 DEF DeviceInv
<1>5. CASE DataApart
  <2>1. UNCHANGED device
    BY <1>5, DataFrame DEF dataVars
  <2>2. QED
    BY <2>1 DEF DeviceInv
<1>6. QED
  BY <1>1, <1>2, <1>3, <1>4, <1>5 DEF DataApart

------------------------------------------------------------------------------
(* The settings of a job                                                   *)

\* The jobs with settings of which more is said than that of ListAllKeysJob.
Handed == SettableKinds \ {"listAllKeys"}

\* The settings that last, after all setters were called.
AsWanted == AllSet(req.kind, Defaults(req.kind), Lasting)

\* What the worker function finds of the settings, the calls that it makes of them, and the
\* context that it makes them with.
Handover == IF WithFiles THEN AsWanted ELSE Bound(req.kind, AsWanted, Given)
Plan == Program(req, ContextFor(req), Handover, entered)
ContextTold == TellAllSignatures(AsWanted, ContextFor(req))

\* The owner takes settings back, but does not begin with that before start().
WantedInv == req.kind \in SettableKinds =>
  /\ stage \in {"asked", "created"} => wanted = req.a.set
  /\ DOMAIN wanted = DOMAIN req.a.set
  /\ \A f \in DOMAIN Defaults(req.kind) : wanted[f] = req.a.set[f] \/ wanted[f] = Blank(f)

LEMMA WantedKept ==
  ASSUME WantedInv, UNCHANGED <<req, wanted>>, stage' \in {"asked", "created"} => stage \in {"asked", "created"}
  PROVE  WantedInv'
<1>1. Defaults(req.kind)' = Defaults(req.kind) /\ \A f : Blank(f)' = Blank(f)
  BY DEF Blank
<1>2. QED
  BY <1>1 DEF WantedInv

LEMMA WantedStep ==
  ASSUME OwnerInv, WantedInv, [Next]_vars
  PROVE  WantedInv'
<1>1. CASE CreateJob \/ Configure \/ Start
  <2>1. UNCHANGED <<req, wanted>> /\ stage \in {"asked", "created"}
    BY <1>1 DEF CreateJob, Configure, Start
  <2>2. QED
    BY <2>1, WantedKept
<1>2. CASE Reconfigure
  <2>1. PICK setting \in DOMAIN Defaults(req.kind) : wanted' = [wanted EXCEPT ![setting] = Blank(setting)]
    BY <1>2 DEF Reconfigure
  <2>2. UNCHANGED <<req, stage>> /\ req.kind \in SettableKinds /\ stage \in {"prepared", "started"}
    BY <1>2 DEF Reconfigure
  <2>3. DOMAIN Defaults(req.kind) \subseteq DOMAIN req.a.set
    BY <2>2, SettingsKnown DEF OwnerInv
  <2>4. Defaults(req.kind)' = Defaults(req.kind) /\ \A f : Blank(f)' = Blank(f)
    BY <2>2 DEF Blank
  <2>5. /\ DOMAIN wanted' = DOMAIN wanted
        /\ \A f \in DOMAIN wanted : wanted'[f] = IF f = setting THEN Blank(f) ELSE wanted[f]
    BY <2>1
  <2>6. QED
    BY <2>2, <2>3, <2>4, <2>5 DEF WantedInv
<1>3. CASE StartNow \/ Tick \/ Report \/ DeferredDelete \/ DeleteWrapper
  <2>1. UNCHANGED <<req, wanted>> /\ (UNCHANGED stage \/ stage' \in {"started", "reported", "gone"})
    BY <1>3 DEF StartNow, Tick, Report, DeferredDelete, DeleteWrapper, settingVars
  <2>2. QED
    BY <2>1, WantedKept
<1>4. CASE WorkerStep \/ DataStep \/ ListingStops
  <2>1. UNCHANGED req /\ stage' \notin {"asked", "created"}
    BY <1>4, WorkerStays DEF NextStages, Running
  <2>2. CASE EnterWorker \/ NoPartFile \/ EnterListing \/ NothingToRefresh \/ ReturnEarly
    <3>1. UNCHANGED wanted
      BY <2>2 DEF EnterWorker, NoPartFile, EnterListing, NothingToRefresh, ReturnEarly, settingVars
    <3>2. QED
      BY <2>1, <3>1, WantedKept
  <2>3. CASE CallEngine \/ CallImport \/ RunProcess \/ CallList \/ TakeLog
    <3>1. UNCHANGED wanted
      BY <2>3 DEF CallEngine, CallImport, RunProcess, CallList, TakeLog, settingVars
    <3>2. QED
      BY <2>1, <3>1, WantedKept
  <2>4. CASE ListingStep \/ ListingReturns \/ ChooseKey \/ RefreshEnds \/ ListingStops
    <3>1. UNCHANGED wanted
      BY <2>4 DEF ListingStep, ListingReturns, ChooseKey, RefreshEnds, ListingStops, settingVars
    <3>2. QED
      BY <2>1, <3>1, WantedKept
  <2>5. CASE ProcessSends \/ ReadDevice \/ DataStep
    <3>1. UNCHANGED wanted
      BY <2>5, DataStays DEF ProcessSends, ReadDevice, settingVars
    <3>2. QED
      BY <2>1, <3>1, WantedKept
  <2>6. QED
    BY <1>4, <2>2, <2>3, <2>4, <2>5 DEF WorkerStep
<1>5. CASE UNCHANGED vars
  <2>1. UNCHANGED <<req, wanted, stage>>
    BY <1>5 DEF vars, settingVars
  <2>2. QED
    BY <2>1, WantedKept
<1>6. QED
  BY <1>1, <1>2, <1>3, <1>4, <1>5 DEF Next

\* The keys that are to sign, and what the operation itself is told.
KeysTold == IF {"signer", "signers"} \cap DOMAIN AsWanted # {} THEN NotNull(SignersTold) ELSE <<>>
WhatTold(what) ==
  /\ \A f \in (DOMAIN what \cap DOMAIN Told) \ {"flags", "origin", "options"} : what[f] = Told[f]
  /\ "flags" \in DOMAIN what =>
       /\ what.flags \cap FileModes = IF NamesFiles THEN ModeOfJob[req.kind] ELSE {}
       /\ How = "startIt" /\ "flags" \in DOMAIN AsWanted => what.flags \ FileModes = Lasting.flags
  /\ req.kind = "import" => what.origin = KeyOrigin(Told) /\ what.options = Told.options
  /\ req.kind \in Exports => what.mode = ContextFor(req).exportMode \cup Told.flags
  /\ req.kind = "signKey" => what.options = SigningOptions(Told)

\* The keys come before the operation, of which there is one; but a change of dates may be
\* made of two.
PlanTold ==
  /\ IsSequence(Plan) /\ Plan # <<>>
  /\ req.kind # "changeExpiry" =>
       /\ IsSequence(KeysTold) /\ Len(KeysTold) = Len(Plan) - 1
       /\ \A i \in 1..Len(KeysTold) : Plan[i] = Adding(KeysTold[i])
       /\ Plan[Len(Plan)].op # "addSigningKey" /\ WhatTold(Plan[Len(Plan)].what)
  /\ req.kind = "changeExpiry" => \A i \in 1..Len(Plan) :
       /\ Plan[i].op # "addSigningKey" /\ WhatTold(Plan[i].what)
       /\ Told.options = {} => Plan[i].what.part = IF req.a.subkeys THEN "subkeys" ELSE "primary key"

\* What start() is given takes the place of what was set.
Passed == {"inputPaths", "recipients", "signers", "flags", "alwaysTrust", "device"}

LEMMA ToldOf ==
  ASSUME req \in RequestSet, WantedInv, req.kind \in Handed
  PROVE  /\ WithFiles => How = "startIt" /\ Told = Lasting
         /\ req.kind \notin FileJobKinds => Told = Lasting
         /\ req.kind \in FileJobKinds /\ ~WithFiles =>
              /\ How = "start" /\ Given = req.a.given /\ req.a.given.flags \cap FileModes = {}
              /\ DOMAIN Told = Passed \cup DOMAIN Lasting
              /\ \A f \in Passed : Told[f] = req.a.given[f]
              /\ \A f \in DOMAIN Lasting \ Passed : Told[f] = Lasting[f]
<1>1. WithFiles => How = "startIt" /\ Told = Lasting
  BY DEF WithFiles, Told
<1>2. req.kind \notin FileJobKinds => Told = Lasting
  BY ArgumentsKnown DEF Told, Handed
<1>3. ASSUME req.kind \in FileJobKinds, ~WithFiles
      PROVE  /\ How = "start" /\ Given = req.a.given /\ req.a.given.flags \cap FileModes = {}
             /\ DOMAIN Told = Passed \cup DOMAIN Lasting
             /\ \A f \in Passed : Told[f] = req.a.given[f]
             /\ \A f \in DOMAIN Lasting \ Passed : Told[f] = Lasting[f]
  <2>1. How = "start" /\ req.a.how = "start"
    BY <1>3, ArgumentsKnown DEF WithFiles, How
  <2>2. "given" \in DOMAIN req.a /\ DOMAIN req.a.given = Passed /\ req.a.given.flags \cap FileModes = {}
    BY <1>3, <2>1, ArgumentsKnown DEF Passed
  <2>3. Told = GivenOrSet(req.a.given, Lasting) /\ Given = req.a.given
    BY <2>1, <2>2 DEF Told, Given
  <2>4. QED
    BY <2>1, <2>2, <2>3 DEF GivenOrSet
<1>4. QED
  BY <1>1, <1>2, <1>3

\* The two forms of a worker function.
LEMMA OneCallTold ==
  ASSUME NEW op, NEW what, Plan = <<Ask(op, what)>>, op # "addSigningKey", req.kind # "changeExpiry",
         {"signer", "signers"} \cap DOMAIN AsWanted = {}, WhatTold(what)
  PROVE  PlanTold
<1> DEFINE call == Ask(op, what)
<1>1. call.op = op /\ call.what = what
  BY DEF Ask
<1> HIDE DEF call
<1>2. Plan \in Seq({call}) /\ Len(Plan) = 1 /\ Plan[1] = call /\ Plan # <<>>
  BY DEF call
<1>3. IsSequence(Plan)
  BY <1>2 DEF IsSequence
<1>4. KeysTold = <<>> /\ Len(KeysTold) = 0
  BY DEF KeysTold
<1>5. IsSequence(KeysTold)
  <2>1. <<>> \in Seq({})
    OBVIOUS
  <2>2. QED
    BY <1>4, <2>1 DEF IsSequence
<1>6. Len(KeysTold) = Len(Plan) - 1 /\ \A i \in 1..Len(KeysTold) : Plan[i] = Adding(KeysTold[i])
  BY <1>2, <1>4
<1>7. Plan[Len(Plan)].op # "addSigningKey" /\ WhatTold(Plan[Len(Plan)].what)
  BY <1>1, <1>2
<1>8. QED
  BY <1>2, <1>3, <1>5, <1>6, <1>7, Zenon DEF PlanTold

LEMMA SignedTold ==
  ASSUME NEW op, NEW what, NEW S, NEW signers \in Seq(S), Plan = Append(AddSigningKeys(signers), Ask(op, what)),
         SignersTold = signers, "signers" \in DOMAIN AsWanted,
         op # "addSigningKey", req.kind # "changeExpiry", WhatTold(what)
  PROVE  PlanTold
<1> DEFINE call == Ask(op, what)  added == AddSigningKeys(signers)  keyed == NotNull(signers)
<1>1. call.op = op /\ call.what = what
  BY DEF Ask
<1>2. /\ added \in Seq(AddCalls(S)) /\ keyed \in Seq(S) /\ Len(added) = Len(keyed)
      /\ \A i \in 1..Len(keyed) : added[i] = Adding(keyed[i])
  BY SignersAdded
<1>3. KeysTold = keyed /\ IsSequence(keyed)
  <2>1. IsSequence(keyed)
    BY <1>2, Zenon DEF IsSequence
  <2>2. KeysTold = keyed
    BY DEF KeysTold
  <2>3. QED
    BY <2>1, <2>2
<1>4. Plan = Append(added, call)
  OBVIOUS
<1> HIDE DEF call, added, keyed
<1>5. Plan \in Seq(AddCalls(S) \cup {call})
  BY <1>2, <1>4
<1>6. /\ Plan # <<>> /\ Len(Plan) = Len(keyed) + 1 /\ Plan[Len(Plan)] = call
      /\ \A i \in 1..Len(keyed) : Plan[i] = Adding(keyed[i])
  BY <1>2, <1>4
<1>7. IsSequence(Plan)
  BY <1>5, Zenon DEF IsSequence
<1>8. Len(keyed) \in Nat
  BY <1>2
<1>9. Len(KeysTold) = Len(Plan) - 1 /\ \A i \in 1..Len(KeysTold) : Plan[i] = Adding(KeysTold[i])
  BY <1>3, <1>6, <1>8
<1>10. Plan[Len(Plan)].op # "addSigningKey" /\ WhatTold(Plan[Len(Plan)].what)
  BY <1>1, <1>6
<1>11. QED
  BY <1>3, <1>6, <1>7, <1>9, <1>10, Zenon DEF PlanTold

\* All setters together change no setting's name, and no flag that an owner sets names files.
LEMMA ConfiguredFields ==
  ASSUME req.kind \in Handed
  PROVE  DOMAIN AsWanted = DOMAIN Defaults(req.kind)
<1>1. CASE req.kind \in {"encryptJob", "signEncryptJob", "signJob"}
  BY <1>1 DEF AsWanted, AllSet, Defaults, Exports, setEncryptJob, setSignEncryptJob, setSignJob
<1>2. CASE req.kind \in {"decryptVerifyJob", "verifyOpaqueJob", "verifyDetachedJob"}
  BY <1>2 DEF AsWanted, AllSet, Defaults, Exports, setDecryptVerifyJob, setVerifyOpaqueJob, setVerifyDetachedJob
<1>3. CASE req.kind \in ArchiveKinds
  BY <1>3 DEF ArchiveKinds, AsWanted, AllSet, Defaults, Exports, setEncryptArchiveJob, setSignEncryptArchiveJob,
              setSignArchiveJob, setDecryptVerifyArchiveJob
<1>4. CASE req.kind \in Exports \cup {"import", "signKey", "changeExpiry"}
  BY <1>4 DEF AsWanted, AllSet, Defaults, Exports, setExportJob, setImportJob, setSignKeyJob, setOptions
<1>5. QED
  BY <1>1, <1>2, <1>3, <1>4 DEF Handed, SettableKinds, FileJobKinds, ArchiveKinds

LEMMA BlanksTyped ==
  ASSUME req.kind \in Handed
  PROVE  /\ "flags" \in DOMAIN Defaults(req.kind) => Blank("flags") = {}
         /\ "signers" \in DOMAIN Defaults(req.kind) => Blank("signers") = <<>>
         /\ "allSignatures" \in DOMAIN Defaults(req.kind) => Blank("allSignatures") = FALSE
<1>1. "signers" \in DOMAIN Defaults(req.kind) => Defaults(req.kind).signers = <<>>
  BY DEF Handed, SettableKinds, FileJobKinds, Exports, Defaults, EncryptJob, SignEncryptJob, SignJob, DecryptVerifyJob,
         VerifyOpaqueJob, VerifyDetachedJob, EncryptArchiveJob, SignEncryptArchiveJob, SignArchiveJob,
         DecryptVerifyArchiveJob, ImportJob, SignKeyJob, ExportJob, ChangeExpiryJob
<1>2. "allSignatures" \in DOMAIN Defaults(req.kind) => Defaults(req.kind).allSignatures = FALSE
  BY DEF Handed, SettableKinds, FileJobKinds, Exports, Defaults, EncryptJob, SignEncryptJob, SignJob, DecryptVerifyJob,
         VerifyOpaqueJob, VerifyDetachedJob, EncryptArchiveJob, SignEncryptArchiveJob, SignArchiveJob,
         DecryptVerifyArchiveJob, ImportJob, SignKeyJob, ExportJob, ChangeExpiryJob
<1>3. QED
  BY <1>1, <1>2 DEF Blank

LEMMA SettingsTyped ==
  ASSUME req \in RequestSet, WantedInv, req.kind \in Handed
  PROVE  /\ "flags" \in DOMAIN AsWanted => Lasting.flags \cap FileModes = {}
         /\ "signers" \in DOMAIN AsWanted => Lasting.signers \in Seq(STRING)
         /\ "allSignatures" \in DOMAIN AsWanted => Lasting.allSignatures \in BOOLEAN
         /\ DOMAIN Lasting \subseteq Settings
<1>1. req.kind \in SettableKinds /\ DOMAIN AsWanted = DOMAIN Defaults(req.kind)
  BY ConfiguredFields DEF Handed
<1>2. /\ "flags" \in DOMAIN AsWanted => req.a.set.flags \cap FileModes = {}
      /\ "signers" \in DOMAIN AsWanted => req.a.set.signers \in Seq(STRING)
      /\ "allSignatures" \in DOMAIN AsWanted => req.a.set.allSignatures \in BOOLEAN
      /\ DOMAIN req.a.set \subseteq Settings
  BY <1>1, SettingsKnown, Zenon
<1>3. Lasting = req.a.set \/ Lasting = wanted
  BY DEF Lasting
<1>4. \A f \in DOMAIN AsWanted : Lasting[f] = req.a.set[f] \/ Lasting[f] = Blank(f)
  BY <1>1, <1>3 DEF WantedInv
<1>5. DOMAIN Lasting = DOMAIN req.a.set
  BY <1>1, <1>3 DEF WantedInv
<1>6. "flags" \in DOMAIN AsWanted => Lasting.flags \cap FileModes = {}
  <2>1. CASE Lasting.flags = req.a.set.flags
    BY <1>2, <2>1
  <2>2. CASE "flags" \in DOMAIN AsWanted /\ Lasting.flags = Blank("flags")
    BY <1>1, <2>2, BlanksTyped
  <2>3. QED
    BY <1>4, <2>1, <2>2
<1>7. "signers" \in DOMAIN AsWanted => Lasting.signers \in Seq(STRING)
  <2> SUFFICES ASSUME "signers" \in DOMAIN AsWanted PROVE Lasting.signers \in Seq(STRING)
    OBVIOUS
  <2>1. CASE Lasting.signers = req.a.set.signers
    BY <1>2, <2>1, Zenon
  <2>2. CASE Lasting.signers = Blank("signers")
    <3>1. Lasting.signers = <<>>
      BY <1>1, <2>2, BlanksTyped
    <3>2. \A S : <<>> \in Seq(S)
      OBVIOUS
    <3>3. QED
      BY <3>1, <3>2, Zenon
  <2>3. QED
    BY <1>4, <2>1, <2>2
<1>8. "allSignatures" \in DOMAIN AsWanted => Lasting.allSignatures \in BOOLEAN
  <2> SUFFICES ASSUME "allSignatures" \in DOMAIN AsWanted PROVE Lasting.allSignatures \in BOOLEAN
    OBVIOUS
  <2>1. CASE Lasting.allSignatures = req.a.set.allSignatures
    BY <1>2, <2>1, Zenon
  <2>2. CASE Lasting.allSignatures = Blank("allSignatures")
    <3>1. Blank("allSignatures") = FALSE
      BY <1>1, BlanksTyped
    <3>2. QED
      BY <2>2, <3>1, Zenon
  <2>3. QED
    BY <1>4, <2>1, <2>2
<1>9. QED
  BY <1>2, <1>5, <1>6, <1>7, <1>8

\* A call is told what was set, and that its input is the name of a file.
LEMMA FilesTold ==
  ASSUME req \in RequestSet, WantedInv, req.kind \in FileJobKinds, WithFiles, NEW what,
         \A f \in DOMAIN what \ {"flags"} : what[f] = Lasting[f],
         "flags" \in DOMAIN what =>
           /\ req.kind \in DOMAIN ModeOfJob
           /\ what.flags = ModeOfJob[req.kind] \cup (IF "flags" \in DOMAIN AsWanted THEN Lasting.flags ELSE {})
  PROVE  WhatTold(what)
<1>1. req.kind \in Handed /\ req.kind \notin Exports \cup {"import", "signKey"}
  BY DEF Handed, SettableKinds, FileJobKinds, Exports
<1>2. How = "startIt" /\ Told = Lasting
  BY <1>1, ToldOf
<1>3. "flags" \in DOMAIN AsWanted => Lasting.flags \cap FileModes = {}
  BY <1>1, SettingsTyped
<1>4. req.kind \in DOMAIN ModeOfJob => ModeOfJob[req.kind] \subseteq FileModes /\ NamesFiles
  BY <1>2 DEF ModeOfJob, FileModes, NamesFiles
<1>5. ASSUME "flags" \in DOMAIN what
      PROVE  /\ what.flags \cap FileModes = IF NamesFiles THEN ModeOfJob[req.kind] ELSE {}
             /\ How = "startIt" /\ "flags" \in DOMAIN AsWanted => what.flags \ FileModes = Lasting.flags
  BY <1>3, <1>4, <1>5
<1>6. QED
  BY <1>1, <1>2, <1>5 DEF WhatTold

\* A call is told what start() was given, or else what was set.
LEMMA DataTold ==
  ASSUME req \in RequestSet, WantedInv, req.kind \in FileJobKinds, ~WithFiles, NEW what,
         \A f \in DOMAIN what \ {"flags"} : what[f] = IF f \in Passed THEN req.a.given[f] ELSE Lasting[f],
         "flags" \in DOMAIN what =>
           what.flags \cap FileModes = IF req.kind \in ArchiveKinds THEN ModeOfJob[req.kind] ELSE {}
  PROVE  WhatTold(what)
<1>1. req.kind \in Handed /\ req.kind \notin Exports \cup {"import", "signKey"}
  BY DEF Handed, SettableKinds, FileJobKinds, Exports
<1>2. /\ How = "start" /\ DOMAIN Told = Passed \cup DOMAIN Lasting
      /\ \A f \in Passed : Told[f] = req.a.given[f]
      /\ \A f \in DOMAIN Lasting \ Passed : Told[f] = Lasting[f]
  BY <1>1, ToldOf
<1>3. NamesFiles <=> req.kind \in ArchiveKinds
  BY <1>2 DEF NamesFiles, ArchiveKinds, ModeOfJob
<1>4. \A f \in (DOMAIN what \cap DOMAIN Told) \ {"flags", "origin", "options"} : what[f] = Told[f]
  BY <1>2
<1>5. QED
  BY <1>1, <1>2, <1>3, <1>4 DEF WhatTold

\* startIt(), job by job.
LEMMA FileProgramsTold ==
  ASSUME req \in RequestSet, WantedInv, req.kind \in FileJobKinds, WithFiles
  PROVE  PlanTold
<1> DEFINE set == Lasting
<1>1. Plan = FileWorker(req.kind, AsWanted)
  <2>1. req.a.how = "startIt"
    BY ArgumentsKnown DEF WithFiles, How
  <2>2. Program(req, ContextFor(req), AsWanted, entered) = FileWorker(req.kind, AsWanted)
    BY <2>1 DEF Program, FileJobKinds, Exports
  <2>3. QED
    BY <2>2 DEF Plan, Handover
<1>2. req.kind # "changeExpiry" /\ req.kind \in Handed /\ How = "startIt" /\ Told = set
  BY ToldOf DEF Handed, SettableKinds, FileJobKinds
<1>3. "signers" \in DOMAIN AsWanted => req.kind # "signKey" /\ SignersTold = set.signers /\ set.signers \in Seq(STRING)
  BY <1>2, SettingsTyped DEF SignersTold, FileJobKinds
<1>4. CASE req.kind = "encryptJob"
  <2> DEFINE what == [inputFile |-> set.inputFile, outputFile |-> set.outputFile,
                      recipients |-> set.recipients, flags |-> set.flags \cup {"EncryptFile"}]
  <2>1. AsWanted = what
    BY <1>4 DEF AsWanted, AllSet, Defaults, Exports, setEncryptJob, EncryptJob
  <2>2. Plan = <<Ask("encrypt", what)>>
    <3>1. Plan = encrypt_to_filename(AsWanted)
      BY <1>1, <1>4 DEF FileWorker
    <3>2. [AsWanted EXCEPT !.flags = @ \cup {"EncryptFile"}] = what
      BY <2>1
    <3>3. QED
      BY <3>1, <3>2 DEF encrypt_to_filename
  <2>3. WhatTold(what)
    <3>1. \A f \in DOMAIN what \ {"flags"} : what[f] = set[f]
      OBVIOUS
    <3>2. /\ req.kind \in DOMAIN ModeOfJob
          /\ what.flags = ModeOfJob[req.kind] \cup (IF "flags" \in DOMAIN AsWanted THEN set.flags ELSE {})
      BY <1>4, <2>1 DEF ModeOfJob
    <3> HIDE DEF what
    <3>3. QED
      BY <3>1, <3>2, FilesTold
  <2>4. {"signer", "signers"} \cap DOMAIN AsWanted = {}
    BY <2>1
  <2> HIDE DEF what
  <2>5. QED
    BY <1>2, <2>2, <2>3, <2>4, OneCallTold
<1>5. CASE req.kind = "signEncryptJob"
  <2> DEFINE what == [inputFile |-> set.inputFile, outputFile |-> set.outputFile, signers |-> set.signers,
                      recipients |-> set.recipients, flags |-> set.flags \cup {"EncryptFile"}]
  <2>1. AsWanted = what
    BY <1>5 DEF AsWanted, AllSet, Defaults, Exports, setSignEncryptJob, SignEncryptJob
  <2>2. Plan = Append(AddSigningKeys(set.signers), Ask("signEncrypt", what))
    <3>1. Plan = sign_encrypt_to_filename(AsWanted)
      BY <1>1, <1>5 DEF FileWorker
    <3>2. [AsWanted EXCEPT !.flags = @ \cup {"EncryptFile"}] = what
      BY <2>1
    <3>3. AsWanted.signers = set.signers
      BY <2>1
    <3>4. QED
      BY <3>1, <3>2, <3>3 DEF sign_encrypt_to_filename
  <2>3. WhatTold(what)
    <3>1. \A f \in DOMAIN what \ {"flags"} : what[f] = set[f]
      OBVIOUS
    <3>2. /\ req.kind \in DOMAIN ModeOfJob
          /\ what.flags = ModeOfJob[req.kind] \cup (IF "flags" \in DOMAIN AsWanted THEN set.flags ELSE {})
      BY <1>5, <2>1 DEF ModeOfJob
    <3> HIDE DEF what
    <3>3. QED
      BY <3>1, <3>2, FilesTold
  <2>4. "signers" \in DOMAIN AsWanted
    BY <2>1
  <2> HIDE DEF what
  <2>5. QED
    BY <1>2, <1>3, <2>2, <2>3, <2>4, SignedTold
<1>6. CASE req.kind = "signJob"
  <2> DEFINE what == [inputFile |-> set.inputFile, outputFile |-> set.outputFile, signers |-> set.signers,
                      append |-> set.append, flags |-> set.flags \cup {"SignFile"}]
  <2>1. AsWanted = what
    BY <1>6 DEF AsWanted, AllSet, Defaults, Exports, setSignJob, SignJob
  <2>2. Plan = Append(AddSigningKeys(set.signers), Ask("sign", what))
    <3>1. Plan = sign_to_filename(AsWanted)
      BY <1>1, <1>6 DEF FileWorker
    <3>2. [AsWanted EXCEPT !.flags = @ \cup {"SignFile"}] = what
      BY <2>1
    <3>3. AsWanted.signers = set.signers
      BY <2>1
    <3>4. QED
      BY <3>1, <3>2, <3>3 DEF sign_to_filename
  <2>3. WhatTold(what)
    <3>1. \A f \in DOMAIN what \ {"flags"} : what[f] = set[f]
      OBVIOUS
    <3>2. /\ req.kind \in DOMAIN ModeOfJob
          /\ what.flags = ModeOfJob[req.kind] \cup (IF "flags" \in DOMAIN AsWanted THEN set.flags ELSE {})
      BY <1>6, <2>1 DEF ModeOfJob
    <3> HIDE DEF what
    <3>3. QED
      BY <3>1, <3>2, FilesTold
  <2>4. "signers" \in DOMAIN AsWanted
    BY <2>1
  <2> HIDE DEF what
  <2>5. QED
    BY <1>2, <1>3, <2>2, <2>3, <2>4, SignedTold
<1>7. CASE req.kind = "decryptVerifyJob"
  <2> DEFINE what == [inputFile |-> set.inputFile, outputFile |-> set.outputFile,
                      allSignatures |-> set.allSignatures]
  <2>1. AsWanted = what
    BY <1>7 DEF AsWanted, AllSet, Defaults, Exports, setDecryptVerifyJob, DecryptVerifyJob
  <2>2. Plan = <<Ask("decryptVerify", what)>>
    <3>1. Plan = decrypt_verify_from_filename(AsWanted)
      BY <1>1, <1>7 DEF FileWorker
    <3>2. AsWanted = what
      BY <2>1
    <3>3. QED
      BY <3>1, <3>2 DEF decrypt_verify_from_filename
  <2>3. WhatTold(what)
    <3>1. \A f \in DOMAIN what \ {"flags"} : what[f] = set[f]
      OBVIOUS
    <3>2. "flags" \notin DOMAIN what
      OBVIOUS
    <3> HIDE DEF what
    <3>3. QED
      BY <3>1, <3>2, FilesTold
  <2>4. {"signer", "signers"} \cap DOMAIN AsWanted = {}
    BY <2>1
  <2> HIDE DEF what
  <2>5. QED
    BY <1>2, <2>2, <2>3, <2>4, OneCallTold
<1>8. CASE req.kind = "verifyOpaqueJob"
  <2> DEFINE what == [inputFile |-> set.inputFile, outputFile |-> set.outputFile,
                      allSignatures |-> set.allSignatures]
  <2>1. AsWanted = what
    BY <1>8 DEF AsWanted, AllSet, Defaults, Exports, setVerifyOpaqueJob, VerifyOpaqueJob
  <2>2. Plan = <<Ask("verifyOpaque", what)>>
    <3>1. Plan = verify_opaque_from_filename(AsWanted)
      BY <1>1, <1>8 DEF FileWorker
    <3>2. AsWanted = what
      BY <2>1
    <3>3. QED
      BY <3>1, <3>2 DEF verify_opaque_from_filename
  <2>3. WhatTold(what)
    <3>1. \A f \in DOMAIN what \ {"flags"} : what[f] = set[f]
      OBVIOUS
    <3>2. "flags" \notin DOMAIN what
      OBVIOUS
    <3> HIDE DEF what
    <3>3. QED
      BY <3>1, <3>2, FilesTold
  <2>4. {"signer", "signers"} \cap DOMAIN AsWanted = {}
    BY <2>1
  <2> HIDE DEF what
  <2>5. QED
    BY <1>2, <2>2, <2>3, <2>4, OneCallTold
<1>9. CASE req.kind = "verifyDetachedJob"
  <2> DEFINE what == [signatureFile |-> set.signatureFile, signedFile |-> set.signedFile,
                      allSignatures |-> set.allSignatures]
  <2>1. AsWanted = what
    BY <1>9 DEF AsWanted, AllSet, Defaults, Exports, setVerifyDetachedJob, VerifyDetachedJob
  <2>2. Plan = <<Ask("verifyDetached", what)>>
    <3>1. Plan = verify_detached_from_filename(AsWanted)
      BY <1>1, <1>9 DEF FileWorker
    <3>2. AsWanted = what
      BY <2>1
    <3>3. QED
      BY <3>1, <3>2 DEF verify_detached_from_filename
  <2>3. WhatTold(what)
    <3>1. \A f \in DOMAIN what \ {"flags"} : what[f] = set[f]
      OBVIOUS
    <3>2. "flags" \notin DOMAIN what
      OBVIOUS
    <3> HIDE DEF what
    <3>3. QED
      BY <3>1, <3>2, FilesTold
  <2>4. {"signer", "signers"} \cap DOMAIN AsWanted = {}
    BY <2>1
  <2> HIDE DEF what
  <2>5. QED
    BY <1>2, <2>2, <2>3, <2>4, OneCallTold
<1>10. CASE req.kind = "encryptArchiveJob"
  <2> DEFINE what == [inputPaths |-> set.inputPaths, outputFile |-> set.outputFile,
                      recipients |-> set.recipients, baseDirectory |-> set.baseDirectory,
                      flags |-> set.flags \cup {"EncryptArchive"}]
  <2>1. AsWanted = what
    BY <1>10 DEF AsWanted, AllSet, Defaults, Exports, setEncryptArchiveJob, EncryptArchiveJob
  <2>2. Plan = <<Ask("encryptArchive", what)>>
    <3>1. Plan = encryptArchive(AsWanted)
      BY <1>1, <1>10 DEF FileWorker
    <3>2. [AsWanted EXCEPT !.flags = @ \cup {"EncryptArchive"}] = what
      BY <2>1
    <3>3. QED
      BY <3>1, <3>2 DEF encryptArchive
  <2>3. WhatTold(what)
    <3>1. \A f \in DOMAIN what \ {"flags"} : what[f] = set[f]
      OBVIOUS
    <3>2. /\ req.kind \in DOMAIN ModeOfJob
          /\ what.flags = ModeOfJob[req.kind] \cup (IF "flags" \in DOMAIN AsWanted THEN set.flags ELSE {})
      BY <1>10, <2>1 DEF ModeOfJob
    <3> HIDE DEF what
    <3>3. QED
      BY <3>1, <3>2, FilesTold
  <2>4. {"signer", "signers"} \cap DOMAIN AsWanted = {}
    BY <2>1
  <2> HIDE DEF what
  <2>5. QED
    BY <1>2, <2>2, <2>3, <2>4, OneCallTold
<1>11. CASE req.kind = "signEncryptArchiveJob"
  <2> DEFINE what == [inputPaths |-> set.inputPaths, outputFile |-> set.outputFile,
                      signers |-> set.signers, recipients |-> set.recipients,
                      baseDirectory |-> set.baseDirectory, flags |-> set.flags \cup {"EncryptArchive"}]
  <2>1. AsWanted = what
    BY <1>11 DEF AsWanted, AllSet, Defaults, Exports, setSignEncryptArchiveJob, SignEncryptArchiveJob
  <2>2. Plan = Append(AddSigningKeys(set.signers), Ask("signEncryptArchive", what))
    <3>1. Plan = signEncryptArchive(AsWanted)
      BY <1>1, <1>11 DEF FileWorker
    <3>2. [AsWanted EXCEPT !.flags = @ \cup {"EncryptArchive"}] = what
      BY <2>1
    <3>3. AsWanted.signers = set.signers
      BY <2>1
    <3>4. QED
      BY <3>1, <3>2, <3>3 DEF signEncryptArchive
  <2>3. WhatTold(what)
    <3>1. \A f \in DOMAIN what \ {"flags"} : what[f] = set[f]
      OBVIOUS
    <3>2. /\ req.kind \in DOMAIN ModeOfJob
          /\ what.flags = ModeOfJob[req.kind] \cup (IF "flags" \in DOMAIN AsWanted THEN set.flags ELSE {})
      BY <1>11, <2>1 DEF ModeOfJob
    <3> HIDE DEF what
    <3>3. QED
      BY <3>1, <3>2, FilesTold
  <2>4. "signers" \in DOMAIN AsWanted
    BY <2>1
  <2> HIDE DEF what
  <2>5. QED
    BY <1>2, <1>3, <2>2, <2>3, <2>4, SignedTold
<1>12. CASE req.kind = "signArchiveJob"
  <2> DEFINE what == [inputPaths |-> set.inputPaths, outputFile |-> set.outputFile,
                      signers |-> set.signers, baseDirectory |-> set.baseDirectory,
                      flags |-> {"SignArchive"}]
             conf == [inputPaths |-> set.inputPaths, outputFile |-> set.outputFile,
                      signers |-> set.signers, baseDirectory |-> set.baseDirectory]
  <2>1. AsWanted = conf
    BY <1>12 DEF AsWanted, AllSet, Defaults, Exports, setSignArchiveJob, SignArchiveJob
  <2>2. Plan = Append(AddSigningKeys(set.signers), Ask("signArchive", what))
    <3>1. Plan = signArchive(AsWanted)
      BY <1>1, <1>12 DEF FileWorker
    <3>2. [f \in DOMAIN AsWanted \cup {"flags"} |-> IF f = "flags" THEN {"SignArchive"} ELSE AsWanted[f]] = what
      BY <2>1
    <3>3. AsWanted.signers = set.signers
      BY <2>1
    <3>4. QED
      BY <3>1, <3>2, <3>3 DEF signArchive
  <2>3. WhatTold(what)
    <3>1. \A f \in DOMAIN what \ {"flags"} : what[f] = set[f]
      OBVIOUS
    <3>2. /\ req.kind \in DOMAIN ModeOfJob
          /\ what.flags = ModeOfJob[req.kind] \cup (IF "flags" \in DOMAIN AsWanted THEN set.flags ELSE {})
      BY <1>12, <2>1 DEF ModeOfJob
    <3> HIDE DEF what
    <3>3. QED
      BY <3>1, <3>2, FilesTold
  <2>4. "signers" \in DOMAIN AsWanted
    BY <2>1
  <2> HIDE DEF what
  <2>5. QED
    BY <1>2, <1>3, <2>2, <2>3, <2>4, SignedTold
<1>13. CASE req.kind = "decryptVerifyArchiveJob"
  <2> DEFINE what == [inputFile |-> set.inputFile, outputDirectory |-> set.outputDirectory,
                      allSignatures |-> set.allSignatures, flags |-> {"DecryptArchive"}]
             conf == [inputFile |-> set.inputFile, outputDirectory |-> set.outputDirectory,
                      allSignatures |-> set.allSignatures]
  <2>1. AsWanted = conf
    BY <1>13 DEF AsWanted, AllSet, Defaults, Exports, setDecryptVerifyArchiveJob, DecryptVerifyArchiveJob
  <2>2. Plan = <<Ask("decryptVerifyArchive", what)>>
    <3>1. Plan = decryptVerifyArchive(AsWanted)
      BY <1>1, <1>13 DEF FileWorker
    <3>2. [f \in DOMAIN AsWanted \cup {"flags"} |-> IF f = "flags" THEN {"DecryptArchive"} ELSE AsWanted[f]] = what
      BY <2>1
    <3>3. QED
      BY <3>1, <3>2 DEF decryptVerifyArchive
  <2>3. WhatTold(what)
    <3>1. \A f \in DOMAIN what \ {"flags"} : what[f] = set[f]
      OBVIOUS
    <3>2. /\ req.kind \in DOMAIN ModeOfJob
          /\ what.flags = ModeOfJob[req.kind] \cup (IF "flags" \in DOMAIN AsWanted THEN set.flags ELSE {})
      BY <1>13, <2>1 DEF ModeOfJob
    <3> HIDE DEF what
    <3>3. QED
      BY <3>1, <3>2, FilesTold
  <2>4. {"signer", "signers"} \cap DOMAIN AsWanted = {}
    BY <2>1
  <2> HIDE DEF what
  <2>5. QED
    BY <1>2, <2>2, <2>3, <2>4, OneCallTold
<1>14. QED
  BY <1>4, <1>5, <1>6, <1>7, <1>8, <1>9, <1>10, <1>11, <1>12, <1>13 DEF FileJobKinds

\* start(), job by job.
LEMMA DataProgramsTold ==
  ASSUME req \in RequestSet, WantedInv, req.kind \in FileJobKinds, ~WithFiles
  PROVE  PlanTold
<1> DEFINE set == Lasting  given == req.a.given  left == Bound(req.kind, AsWanted, given)
<1>1. Given = given /\ How = "start"
  BY ToldOf DEF Handed, SettableKinds, FileJobKinds
<1>2. Plan = DataWorker(req.kind, left)
  <2>1. req.a.how = "start"
    BY <1>1, ArgumentsKnown DEF How
  <2>2. \A s : Program(req, ContextFor(req), s, entered) = DataWorker(req.kind, s)
    BY <2>1 DEF Program, FileJobKinds, Exports
  <2>3. Handover = left
    BY <1>1 DEF Handover
  <2>4. QED
    BY <2>2, <2>3 DEF Plan
<1>3. req.kind # "changeExpiry" /\ req.kind # "signKey" /\ req.kind \in Handed /\ given.flags \cap FileModes = {}
  BY ToldOf DEF Handed, SettableKinds, FileJobKinds
<1>4. SignersTold = given.signers /\ given.signers \in Seq(STRING)
  <2>1. Told.signers = given.signers
    BY <1>3, ToldOf DEF Passed
  <2>2. req.a.how = "start"
    BY <1>1, ArgumentsKnown DEF How
  <2>3. QED
    BY <1>3, <2>1, <2>2, ArgumentsKnown DEF SignersTold
<1>5. "flags" \in DOMAIN AsWanted => set.flags \cap FileModes = {}
  BY <1>3, SettingsTyped
<1>6. CASE req.kind = "encryptJob"
  <2> DEFINE conf == [inputFile |-> set.inputFile, outputFile |-> set.outputFile,
                      recipients |-> set.recipients, flags |-> set.flags \cup {"EncryptFile"}]
             what == [recipients |-> given.recipients, flags |-> StartFlags(AsWanted, given.alwaysTrust)]
  <2>1. AsWanted = conf
    BY <1>6 DEF AsWanted, AllSet, Defaults, Exports, setEncryptJob, EncryptJob
  <2>2. left = what
    BY <1>6, <2>1 DEF Bound, FileJobKinds, SettableKinds, Exports, start_encrypt
  <2>3. Plan = <<Ask("encrypt", what)>>
    <3>1. Plan = encrypt(what)
      BY <1>2, <1>6, <2>2 DEF DataWorker, ArchiveKinds
    <3> HIDE DEF what
    <3>2. QED
      BY <3>1 DEF encrypt
  <2>4. WhatTold(what)
    <3>1. \A f \in DOMAIN what \ {"flags"} : what[f] = IF f \in Passed THEN given[f] ELSE set[f]
      BY DEF Passed
    <3>2. what.flags \cap FileModes = {} /\ req.kind \notin ArchiveKinds
      BY <1>3, <1>5, <1>6, <2>1 DEF FileModes, ArchiveKinds, StartFlags
    <3> HIDE DEF what
    <3>3. QED
      BY <3>1, <3>2, DataTold
  <2>5. {"signer", "signers"} \cap DOMAIN AsWanted = {}
    BY <2>1
  <2> HIDE DEF what
  <2>6. QED
    BY <1>3, <2>3, <2>4, <2>5, OneCallTold
<1>7. CASE req.kind = "signEncryptJob"
  <2> DEFINE conf == [inputFile |-> set.inputFile, outputFile |-> set.outputFile, signers |-> set.signers,
                      recipients |-> set.recipients, flags |-> set.flags \cup {"EncryptFile"}]
             what == [signers |-> given.signers, recipients |-> given.recipients,
                      flags |-> StartFlags(AsWanted, given.alwaysTrust)]
  <2>1. AsWanted = conf
    BY <1>7 DEF AsWanted, AllSet, Defaults, Exports, setSignEncryptJob, SignEncryptJob
  <2>2. left = what
    BY <1>7, <2>1 DEF Bound, FileJobKinds, SettableKinds, Exports, start_sign_encrypt
  <2>3. Plan = Append(AddSigningKeys(given.signers), Ask("signEncrypt", what))
    <3>1. Plan = sign_encrypt(what)
      BY <1>2, <1>7, <2>2 DEF DataWorker, ArchiveKinds
    <3>2. what.signers = given.signers
      OBVIOUS
    <3> HIDE DEF what
    <3>3. QED
      BY <3>1, <3>2 DEF sign_encrypt
  <2>4. WhatTold(what)
    <3>1. \A f \in DOMAIN what \ {"flags"} : what[f] = IF f \in Passed THEN given[f] ELSE set[f]
      BY DEF Passed
    <3>2. what.flags \cap FileModes = {} /\ req.kind \notin ArchiveKinds
      BY <1>3, <1>5, <1>7, <2>1 DEF FileModes, ArchiveKinds, StartFlags
    <3> HIDE DEF what
    <3>3. QED
      BY <3>1, <3>2, DataTold
  <2>5. "signers" \in DOMAIN AsWanted
    BY <2>1
  <2> HIDE DEF what
  <2>6. QED
    BY <1>3, <1>4, <2>3, <2>4, <2>5, SignedTold
<1>8. CASE req.kind = "signJob"
  <2> DEFINE conf == [inputFile |-> set.inputFile, outputFile |-> set.outputFile, signers |-> set.signers,
                      append |-> set.append, flags |-> set.flags \cup {"SignFile"}]
             what == [signers |-> given.signers, flags |-> given.flags]
  <2>1. AsWanted = conf
    BY <1>8 DEF AsWanted, AllSet, Defaults, Exports, setSignJob, SignJob
  <2>2. left = what
    BY <1>8, <2>1 DEF Bound, FileJobKinds, SettableKinds, Exports, start_sign
  <2>3. Plan = Append(AddSigningKeys(given.signers), Ask("sign", what))
    <3>1. Plan = sign(what)
      BY <1>2, <1>8, <2>2 DEF DataWorker, ArchiveKinds
    <3>2. what.signers = given.signers
      OBVIOUS
    <3> HIDE DEF what
    <3>3. QED
      BY <3>1, <3>2 DEF sign
  <2>4. WhatTold(what)
    <3>1. \A f \in DOMAIN what \ {"flags"} : what[f] = IF f \in Passed THEN given[f] ELSE set[f]
      BY DEF Passed
    <3>2. what.flags \cap FileModes = {} /\ req.kind \notin ArchiveKinds
      BY <1>3, <1>5, <1>8, <2>1 DEF FileModes, ArchiveKinds, StartFlags
    <3> HIDE DEF what
    <3>3. QED
      BY <3>1, <3>2, DataTold
  <2>5. "signers" \in DOMAIN AsWanted
    BY <2>1
  <2> HIDE DEF what
  <2>6. QED
    BY <1>3, <1>4, <2>3, <2>4, <2>5, SignedTold
<1>9. CASE req.kind = "decryptVerifyJob"
  <2> DEFINE conf == [inputFile |-> set.inputFile, outputFile |-> set.outputFile,
                      allSignatures |-> set.allSignatures]
             what == [flags |-> {}]
  <2>1. AsWanted = conf
    BY <1>9 DEF AsWanted, AllSet, Defaults, Exports, setDecryptVerifyJob, DecryptVerifyJob
  <2>2. left = what
    BY <1>9, <2>1 DEF Bound, FileJobKinds, SettableKinds, Exports, start_decrypt_verify
  <2>3. Plan = <<Ask("decryptVerify", what)>>
    <3>1. Plan = decrypt_verify(what)
      BY <1>2, <1>9, <2>2 DEF DataWorker, ArchiveKinds
    <3> HIDE DEF what
    <3>2. QED
      BY <3>1 DEF decrypt_verify
  <2>4. WhatTold(what)
    <3>1. \A f \in DOMAIN what \ {"flags"} : what[f] = IF f \in Passed THEN given[f] ELSE set[f]
      BY DEF Passed
    <3>2. what.flags \cap FileModes = {} /\ req.kind \notin ArchiveKinds
      BY <1>3, <1>5, <1>9, <2>1 DEF FileModes, ArchiveKinds, StartFlags
    <3> HIDE DEF what
    <3>3. QED
      BY <3>1, <3>2, DataTold
  <2>5. {"signer", "signers"} \cap DOMAIN AsWanted = {}
    BY <2>1
  <2> HIDE DEF what
  <2>6. QED
    BY <1>3, <2>3, <2>4, <2>5, OneCallTold
<1>10. CASE req.kind = "verifyOpaqueJob"
  <2> DEFINE conf == [inputFile |-> set.inputFile, outputFile |-> set.outputFile,
                      allSignatures |-> set.allSignatures]
             what == [flags |-> {}]
  <2>1. AsWanted = conf
    BY <1>10 DEF AsWanted, AllSet, Defaults, Exports, setVerifyOpaqueJob, VerifyOpaqueJob
  <2>2. left = what
    BY <1>10, <2>1 DEF Bound, FileJobKinds, SettableKinds, Exports, start_verify_opaque
  <2>3. Plan = <<Ask("verifyOpaque", what)>>
    <3>1. Plan = verify_opaque(what)
      BY <1>2, <1>10, <2>2 DEF DataWorker, ArchiveKinds
    <3> HIDE DEF what
    <3>2. QED
      BY <3>1 DEF verify_opaque
  <2>4. WhatTold(what)
    <3>1. \A f \in DOMAIN what \ {"flags"} : what[f] = IF f \in Passed THEN given[f] ELSE set[f]
      BY DEF Passed
    <3>2. what.flags \cap FileModes = {} /\ req.kind \notin ArchiveKinds
      BY <1>3, <1>5, <1>10, <2>1 DEF FileModes, ArchiveKinds, StartFlags
    <3> HIDE DEF what
    <3>3. QED
      BY <3>1, <3>2, DataTold
  <2>5. {"signer", "signers"} \cap DOMAIN AsWanted = {}
    BY <2>1
  <2> HIDE DEF what
  <2>6. QED
    BY <1>3, <2>3, <2>4, <2>5, OneCallTold
<1>11. CASE req.kind = "verifyDetachedJob"
  <2> DEFINE conf == [signatureFile |-> set.signatureFile, signedFile |-> set.signedFile,
                      allSignatures |-> set.allSignatures]
             what == [flags |-> {}]
  <2>1. AsWanted = conf
    BY <1>11 DEF AsWanted, AllSet, Defaults, Exports, setVerifyDetachedJob, VerifyDetachedJob
  <2>2. left = what
    BY <1>11, <2>1 DEF Bound, FileJobKinds, SettableKinds, Exports, start_verify_detached
  <2>3. Plan = <<Ask("verifyDetached", what)>>
    <3>1. Plan = verify_detached(what)
      BY <1>2, <1>11, <2>2 DEF DataWorker, ArchiveKinds
    <3> HIDE DEF what
    <3>2. QED
      BY <3>1 DEF verify_detached
  <2>4. WhatTold(what)
    <3>1. \A f \in DOMAIN what \ {"flags"} : what[f] = IF f \in Passed THEN given[f] ELSE set[f]
      BY DEF Passed
    <3>2. what.flags \cap FileModes = {} /\ req.kind \notin ArchiveKinds
      BY <1>3, <1>5, <1>11, <2>1 DEF FileModes, ArchiveKinds, StartFlags
    <3> HIDE DEF what
    <3>3. QED
      BY <3>1, <3>2, DataTold
  <2>5. {"signer", "signers"} \cap DOMAIN AsWanted = {}
    BY <2>1
  <2> HIDE DEF what
  <2>6. QED
    BY <1>3, <2>3, <2>4, <2>5, OneCallTold
<1>12. CASE req.kind = "encryptArchiveJob"
  <2> DEFINE conf == [inputPaths |-> set.inputPaths, outputFile |-> set.outputFile,
                      recipients |-> set.recipients, baseDirectory |-> set.baseDirectory,
                      flags |-> set.flags \cup {"EncryptArchive"}]
             what == [inputPaths |-> given.inputPaths, recipients |-> given.recipients,
                      baseDirectory |-> set.baseDirectory, flags |-> given.flags \cup {"EncryptArchive"}]
             bare == [inputPaths |-> given.inputPaths, recipients |-> given.recipients,
                      baseDirectory |-> set.baseDirectory, flags |-> given.flags]
  <2>1. AsWanted = conf
    BY <1>12 DEF AsWanted, AllSet, Defaults, Exports, setEncryptArchiveJob, EncryptArchiveJob
  <2>2. left = bare
    BY <1>12, <2>1 DEF Bound, FileJobKinds, SettableKinds, Exports, start_encryptArchive
  <2>3. Plan = <<Ask("encryptArchive", what)>>
    <3>1. Plan = encryptArchive(bare)
      BY <1>2, <1>12, <2>2 DEF DataWorker, FileWorker, ArchiveKinds
    <3>2. [bare EXCEPT !.flags = @ \cup {"EncryptArchive"}] = what
      OBVIOUS
    <3> HIDE DEF what, bare
    <3>3. QED
      BY <3>1, <3>2 DEF encryptArchive
  <2>4. WhatTold(what)
    <3>1. \A f \in DOMAIN what \ {"flags"} : what[f] = IF f \in Passed THEN given[f] ELSE set[f]
      BY DEF Passed
    <3>2. what.flags \cap FileModes = ModeOfJob[req.kind] /\ req.kind \in ArchiveKinds
      BY <1>3, <1>12 DEF ModeOfJob, FileModes, ArchiveKinds
    <3> HIDE DEF what
    <3>3. QED
      BY <3>1, <3>2, DataTold
  <2>5. {"signer", "signers"} \cap DOMAIN AsWanted = {}
    BY <2>1
  <2> HIDE DEF what
  <2>6. QED
    BY <1>3, <2>3, <2>4, <2>5, OneCallTold
<1>13. CASE req.kind = "signEncryptArchiveJob"
  <2> DEFINE conf == [inputPaths |-> set.inputPaths, outputFile |-> set.outputFile,
                      signers |-> set.signers, recipients |-> set.recipients,
                      baseDirectory |-> set.baseDirectory, flags |-> set.flags \cup {"EncryptArchive"}]
             what == [inputPaths |-> given.inputPaths, signers |-> given.signers,
                      recipients |-> given.recipients, baseDirectory |-> set.baseDirectory,
                      flags |-> given.flags \cup {"EncryptArchive"}]
             bare == [inputPaths |-> given.inputPaths, signers |-> given.signers,
                      recipients |-> given.recipients, baseDirectory |-> set.baseDirectory,
                      flags |-> given.flags]
  <2>1. AsWanted = conf
    BY <1>13 DEF AsWanted, AllSet, Defaults, Exports, setSignEncryptArchiveJob, SignEncryptArchiveJob
  <2>2. left = bare
    BY <1>13, <2>1 DEF Bound, FileJobKinds, SettableKinds, Exports, start_signEncryptArchive
  <2>3. Plan = Append(AddSigningKeys(given.signers), Ask("signEncryptArchive", what))
    <3>1. Plan = signEncryptArchive(bare)
      BY <1>2, <1>13, <2>2 DEF DataWorker, FileWorker, ArchiveKinds
    <3>2. [bare EXCEPT !.flags = @ \cup {"EncryptArchive"}] = what
      OBVIOUS
    <3>3. bare.signers = given.signers
      OBVIOUS
    <3> HIDE DEF what, bare
    <3>4. QED
      BY <3>1, <3>2, <3>3 DEF signEncryptArchive
  <2>4. WhatTold(what)
    <3>1. \A f \in DOMAIN what \ {"flags"} : what[f] = IF f \in Passed THEN given[f] ELSE set[f]
      BY DEF Passed
    <3>2. what.flags \cap FileModes = ModeOfJob[req.kind] /\ req.kind \in ArchiveKinds
      BY <1>3, <1>13 DEF ModeOfJob, FileModes, ArchiveKinds
    <3> HIDE DEF what
    <3>3. QED
      BY <3>1, <3>2, DataTold
  <2>5. "signers" \in DOMAIN AsWanted
    BY <2>1
  <2> HIDE DEF what
  <2>6. QED
    BY <1>3, <1>4, <2>3, <2>4, <2>5, SignedTold
<1>14. CASE req.kind = "signArchiveJob"
  <2> DEFINE conf == [inputPaths |-> set.inputPaths, outputFile |-> set.outputFile,
                      signers |-> set.signers, baseDirectory |-> set.baseDirectory]
             what == [inputPaths |-> given.inputPaths, signers |-> given.signers,
                      baseDirectory |-> set.baseDirectory, flags |-> {"SignArchive"}]
             bare == [inputPaths |-> given.inputPaths, signers |-> given.signers,
                      baseDirectory |-> set.baseDirectory]
  <2>1. AsWanted = conf
    BY <1>14 DEF AsWanted, AllSet, Defaults, Exports, setSignArchiveJob, SignArchiveJob
  <2>2. left = bare
    BY <1>14, <2>1 DEF Bound, FileJobKinds, SettableKinds, Exports, start_signArchive
  <2>3. Plan = Append(AddSigningKeys(given.signers), Ask("signArchive", what))
    <3>1. Plan = signArchive(bare)
      BY <1>2, <1>14, <2>2 DEF DataWorker, FileWorker, ArchiveKinds
    <3>2. [f \in DOMAIN bare \cup {"flags"} |-> IF f = "flags" THEN {"SignArchive"} ELSE bare[f]] = what
      OBVIOUS
    <3>3. bare.signers = given.signers
      OBVIOUS
    <3> HIDE DEF what, bare
    <3>4. QED
      BY <3>1, <3>2, <3>3 DEF signArchive
  <2>4. WhatTold(what)
    <3>1. \A f \in DOMAIN what \ {"flags"} : what[f] = IF f \in Passed THEN given[f] ELSE set[f]
      BY DEF Passed
    <3>2. what.flags \cap FileModes = ModeOfJob[req.kind] /\ req.kind \in ArchiveKinds
      BY <1>3, <1>14 DEF ModeOfJob, FileModes, ArchiveKinds
    <3> HIDE DEF what
    <3>3. QED
      BY <3>1, <3>2, DataTold
  <2>5. "signers" \in DOMAIN AsWanted
    BY <2>1
  <2> HIDE DEF what
  <2>6. QED
    BY <1>3, <1>4, <2>3, <2>4, <2>5, SignedTold
<1>15. CASE req.kind = "decryptVerifyArchiveJob"
  <2> DEFINE conf == [inputFile |-> set.inputFile, outputDirectory |-> set.outputDirectory,
                      allSignatures |-> set.allSignatures]
             what == [outputDirectory |-> set.outputDirectory, flags |-> {"DecryptArchive"}]
             bare == [outputDirectory |-> set.outputDirectory]
  <2>1. AsWanted = conf
    BY <1>15 DEF AsWanted, AllSet, Defaults, Exports, setDecryptVerifyArchiveJob, DecryptVerifyArchiveJob
  <2>2. left = bare
    BY <1>15, <2>1 DEF Bound, FileJobKinds, SettableKinds, Exports, start_decryptVerifyArchive
  <2>3. Plan = <<Ask("decryptVerifyArchive", what)>>
    <3>1. Plan = decryptVerifyArchive(bare)
      BY <1>2, <1>15, <2>2 DEF DataWorker, FileWorker, ArchiveKinds
    <3>2. [f \in DOMAIN bare \cup {"flags"} |-> IF f = "flags" THEN {"DecryptArchive"} ELSE bare[f]] = what
      OBVIOUS
    <3> HIDE DEF what, bare
    <3>3. QED
      BY <3>1, <3>2 DEF decryptVerifyArchive
  <2>4. WhatTold(what)
    <3>1. \A f \in DOMAIN what \ {"flags"} : what[f] = IF f \in Passed THEN given[f] ELSE set[f]
      BY DEF Passed
    <3>2. what.flags \cap FileModes = ModeOfJob[req.kind] /\ req.kind \in ArchiveKinds
      BY <1>3, <1>15 DEF ModeOfJob, FileModes, ArchiveKinds
    <3> HIDE DEF what
    <3>3. QED
      BY <3>1, <3>2, DataTold
  <2>5. {"signer", "signers"} \cap DOMAIN AsWanted = {}
    BY <2>1
  <2> HIDE DEF what
  <2>6. QED
    BY <1>3, <2>3, <2>4, <2>5, OneCallTold
<1>16. QED
  BY <1>6, <1>7, <1>8, <1>9, <1>10, <1>11, <1>12, <1>13, <1>14, <1>15 DEF FileJobKinds

\* The settings' names.
LEMMA SettingsAre ==
  Settings \cap {"mode", "part", "expires"} = {}
<1>1. \A kind \in SettableKinds : DOMAIN Defaults(kind) \cap {"mode", "part", "expires"} = {}
  BY DEF SettableKinds, FileJobKinds, Exports, Defaults, EncryptJob, SignEncryptJob, SignJob, DecryptVerifyJob,
         VerifyOpaqueJob, VerifyDetachedJob, EncryptArchiveJob, SignEncryptArchiveJob, SignArchiveJob,
         DecryptVerifyArchiveJob, ImportJob, SignKeyJob, ExportJob, ChangeExpiryJob, ListAllKeysJob
<1>2. QED
  BY <1>1 DEF Settings

\* Those who sign, of whom there is one.
LEMMA OneSigner ==
  ASSUME NEW signer
  PROVE  NotNull(<<signer>>) = IF signer # "null" THEN <<signer>> ELSE <<>>
<1> DEFINE list == <<signer>>
<1>1. list \in Seq({signer}) /\ Len(list) = 1 /\ list[1] = signer
  OBVIOUS
<1> HIDE DEF list
<1>2. PICK g \in [0..Len(list) -> Seq({signer})] :
        /\ g[0] = <<>>
        /\ \A i \in 0..(Len(list) - 1) : g[i + 1] = Keyed(g[i], list[i + 1])
        /\ g[Len(list)] = NotNull(list)
  BY <1>1, KeyedSteps
<1>3. NotNull(list) = Keyed(<<>>, signer)
  <2>1. 0 \in 0..(Len(list) - 1) /\ 0 + 1 = 1
    BY <1>1
  <2>2. g[1] = Keyed(g[0], list[1])
    BY <1>2, <2>1
  <2>3. QED
    BY <1>1, <1>2, <2>2
<1>4. Append(<<>>, signer) = <<signer>>
  OBVIOUS
<1>5. QED
  BY <1>3, <1>4 DEF Keyed, list

LEMMA TwoJoined == ASSUME NEW a, NEW b PROVE <<a>> \o <<b>> = <<a, b>>
<1>1. <<a>> \in Seq({a, b}) /\ <<b>> \in Seq({a, b}) /\ <<a, b>> \in Seq({a, b})
  OBVIOUS
<1>2. <<a>> \o <<b>> \in Seq({a, b}) /\ Len(<<a>> \o <<b>>) = 2 /\ Len(<<a, b>>) = 2
  BY <1>1
<1>3. \A i \in 1..2 : (<<a>> \o <<b>>)[i] = <<a, b>>[i]
  BY <1>1
<1>4. QED
  BY <1>1, <1>2, <1>3, SeqEqual

\* The jobs without files, of which start() makes copies.
LEMMA OtherProgramsTold ==
  ASSUME req \in RequestSet, WantedInv, req.kind \in Handed \ FileJobKinds
  PROVE  PlanTold
<1> DEFINE set == Lasting
<1>1. req.kind \in Exports \cup {"import", "signKey", "changeExpiry"} /\ ~WithFiles /\ Told = set
  BY ToldOf DEF Handed, SettableKinds, WithFiles
<1>2. Plan = Program(req, ContextFor(req), AsWanted, entered)
  BY <1>1 DEF Plan, Handover, Bound, SettableKinds, FileJobKinds, Exports
<1>3. DOMAIN set \cap {"mode", "part", "expires"} = {}
  BY SettingsTyped, SettingsAre
<1>4. CASE req.kind = "import"
  <2> DEFINE conf == [origin |-> set.origin, url |-> set.url, filter |-> set.filter, options |-> set.options]
             what == [origin |-> KeyOrigin(conf), filter |-> set.filter, options |-> set.options]
  <2>1. AsWanted = conf
    BY <1>4 DEF AsWanted, AllSet, Defaults, Exports, setImportJob, ImportJob
  <2>2. Plan = <<Ask("importKeys", what)>>
    <3>1. Plan = import_qba(conf)
      BY <1>2, <1>4, <2>1, ProgramOf
    <3>2. QED
      BY <3>1 DEF import_qba
  <2>3. KeyOrigin(conf) = KeyOrigin(set)
    BY DEF KeyOrigin
  <2>4. WhatTold(what)
    BY <1>1, <1>4, <2>3 DEF WhatTold, Exports
  <2>5. {"signer", "signers"} \cap DOMAIN AsWanted = {}
    BY <2>1
  <2> HIDE DEF what
  <2>6. QED
    BY <1>4, <2>2, <2>4, <2>5, OneCallTold
<1>5. CASE req.kind \in Exports
  <2> DEFINE conf == [filter |-> set.filter, flags |-> set.flags]
             what == [mode |-> ContextFor(req).exportMode \cup set.flags, filter |-> set.filter]
  <2>1. AsWanted = conf
    BY <1>5 DEF AsWanted, AllSet, Defaults, Exports, setExportJob, ExportJob
  <2>2. Plan = <<Ask("exportKeys", what)>>
    <3>1. \A c, s : Program(req, c, s, entered) = export_qba(s, c)
      BY <1>5 DEF Program, FileJobKinds, Exports
    <3>2. Plan = export_qba(conf, ContextFor(req))
      BY <1>2, <2>1, <3>1
    <3>3. QED
      BY <3>2 DEF export_qba
  <2>3. WhatTold(what)
    <3>1. \A f \in (DOMAIN what \cap DOMAIN Told) \ {"flags", "origin", "options"} : what[f] = Told[f]
      BY <1>1, <1>3
    <3>2. "flags" \notin DOMAIN what /\ req.kind \notin {"import", "signKey"}
      BY <1>5 DEF Exports
    <3>3. what.mode = ContextFor(req).exportMode \cup Told.flags
      BY <1>1
    <3> HIDE DEF what
    <3>4. QED
      BY <3>1, <3>2, <3>3 DEF WhatTold
  <2>4. {"signer", "signers"} \cap DOMAIN AsWanted = {} /\ req.kind # "changeExpiry"
    BY <1>5, <2>1 DEF Exports
  <2> HIDE DEF what
  <2>5. QED
    BY <2>2, <2>3, <2>4, OneCallTold
<1>6. CASE req.kind = "signKey"
  <2> DEFINE conf == [signer |-> set.signer, nonRevocable |-> set.nonRevocable, exportable |-> set.exportable,
                      dupeOk |-> set.dupeOk, trust |-> set.trust, expiry |-> set.expiry]
             what == [expires |-> CertExpire(set.expiry, entered), options |-> SigningOptions(set),
                      dupeOk |-> set.dupeOk]
             call == Ask("signKey", what)
             signing == IF set.signer # "null" THEN <<set.signer>> ELSE <<>>
  <2>1. AsWanted = conf
    BY <1>6 DEF AsWanted, AllSet, Defaults, Exports, setSignKeyJob, SignKeyJob
  <2>2. SigningOptions(conf) = SigningOptions(set)
    BY DEF SigningOptions
  <2>3. Plan = (IF set.signer # "null" THEN <<Adding(set.signer)>> ELSE <<>>) \o <<call>>
    <3>1. \A c, s : Program(req, c, s, entered) = sign_key(s, entered)
      BY <1>6 DEF Program, FileJobKinds, Exports
    <3>2. Plan = sign_key(conf, entered)
      BY <1>2, <2>1, <3>1
    <3>3. QED
      BY <2>2, <3>2 DEF sign_key, Adding
  <2>4. WhatTold(what)
    <3>1. \A f \in (DOMAIN what \cap DOMAIN Told) \ {"flags", "origin", "options"} : what[f] = Told[f]
      BY <1>1, <1>3
    <3>2. "flags" \notin DOMAIN what /\ req.kind # "import" /\ req.kind \notin Exports
      BY <1>6 DEF Exports
    <3>3. what.options = SigningOptions(Told)
      BY <1>1
    <3> HIDE DEF what
    <3>4. QED
      BY <3>1, <3>2, <3>3 DEF WhatTold
  <2>5. KeysTold = signing
    <3>1. {"signer", "signers"} \cap DOMAIN AsWanted # {}
      BY <2>1
    <3>2. SignersTold = <<set.signer>>
      BY <1>1, <1>6 DEF SignersTold
    <3>3. QED
      BY <3>1, <3>2, OneSigner DEF KeysTold
  <2>6. call.op = "signKey" /\ call.what = what
    BY DEF Ask
  <2> HIDE DEF what, call, conf
  <2>7. CASE set.signer # "null"
    <3>1. Plan = <<Adding(set.signer), call>>
      BY <2>3, <2>7, TwoJoined
    <3>2. signing = <<set.signer>>
      BY <2>7
    <3>3. IsSequence(Plan) /\ IsSequence(signing)
      <4> HIDE DEF signing, set
      <4>1. Plan \in Seq({Adding(set.signer), call})
        BY <3>1
      <4>2. signing \in Seq({set.signer})
        BY <3>2
      <4>3. QED
        BY <4>1, <4>2, Zenon DEF IsSequence
    <3>4. Len(signing) = 1 /\ Len(Plan) = 2 /\ Plan # <<>> /\ Plan[2] = call /\ Plan[1] = Adding(signing[1])
      BY <3>1, <3>2
    <3> HIDE DEF signing
    <3>5. Plan[Len(Plan)].op # "addSigningKey" /\ WhatTold(Plan[Len(Plan)].what)
      BY <2>4, <2>6, <3>4
    <3>6. Len(signing) = Len(Plan) - 1 /\ \A i \in 1..Len(signing) : Plan[i] = Adding(signing[i])
      BY <3>4
    <3>7. req.kind # "changeExpiry"
      BY <1>6
    <3>8. QED
      BY <2>5, <3>3, <3>4, <3>5, <3>6, <3>7, Zenon DEF PlanTold
  <2>8. CASE set.signer = "null"
    <3>1. Plan = <<call>>
      <4>1. Plan = <<>> \o <<call>> /\ <<call>> \in Seq({call})
        BY <2>3, <2>8
      <4>2. QED
        BY <4>1, EmptyBefore
    <3>2. signing = <<>>
      BY <2>8
    <3>3. IsSequence(Plan) /\ IsSequence(signing)
      <4>1. Plan \in Seq({call}) /\ signing \in Seq({})
        BY <3>1, <3>2
      <4>2. QED
        BY <4>1, Zenon DEF IsSequence
    <3>4. Len(signing) = 0 /\ Len(Plan) = 1 /\ Plan # <<>> /\ Plan[1] = call
      BY <3>1, <3>2
    <3> HIDE DEF signing
    <3>5. Plan[Len(Plan)].op # "addSigningKey" /\ WhatTold(Plan[Len(Plan)].what)
      BY <2>4, <2>6, <3>4
    <3>6. Len(signing) = Len(Plan) - 1 /\ \A i \in 1..Len(signing) : Plan[i] = Adding(signing[i])
      BY <3>4
    <3>7. req.kind # "changeExpiry"
      BY <1>6
    <3>8. QED
      BY <2>5, <3>3, <3>4, <3>5, <3>6, <3>7, Zenon DEF PlanTold
  <2>9. QED
    BY <2>7, <2>8
<1>7. CASE req.kind = "changeExpiry"
  <2> DEFINE what(part) == [part |-> part, expires |-> SecondsAtLeastOne(req.a.expiry, entered)]
             call(part) == Ask("setExpire", what(part))
             front == IF ~req.a.subkeys \/ "UpdatePrimaryKey" \in set.options THEN <<call("primary key")>> ELSE <<>>
             back == CASE req.a.subkeys -> <<call("subkeys")>>
                       [] ~req.a.subkeys /\ "UpdateAllSubkeys" \in set.options -> <<call("all subkeys")>>
                       [] OTHER -> <<>>
             Right(c) == /\ c.op # "addSigningKey" /\ WhatTold(c.what)
                         /\ Told.options = {} => c.what.part = IF req.a.subkeys THEN "subkeys" ELSE "primary key"
  <2>1. AsWanted.options = set.options
    BY <1>7 DEF AsWanted, AllSet, Defaults, Exports, setOptions, ChangeExpiryJob
  <2>2. Plan = front \o back
    <3>1. \A c, s : Program(req, c, s, entered) = change_expiry(req.a, s.options, entered)
      BY <1>7 DEF Program, FileJobKinds, Exports
    <3>2. QED
      BY <1>2, <2>1, <3>1 DEF change_expiry
  <2>3. \A part : call(part).op # "addSigningKey" /\ call(part).what = what(part) /\ call(part).what.part = part
    BY DEF Ask
  <2>4. \A part : WhatTold(what(part))
    <3>1. req.kind # "import" /\ req.kind \notin Exports /\ req.kind # "signKey"
      BY <1>7 DEF Exports
    <3>2. QED
      BY <1>1, <1>3, <3>1 DEF WhatTold
  <2> HIDE DEF call, what
  <2> DEFINE Good == {c \in {call("primary key"), call("subkeys"), call("all subkeys")} : Right(c)}
  <2>5. front \in Seq(Good) /\ back \in Seq(Good) /\ (front # <<>> \/ back # <<>>)
    <3>1. ~req.a.subkeys \/ "UpdatePrimaryKey" \in set.options => call("primary key") \in Good
      BY <1>1, <2>3, <2>4
    <3>2. req.a.subkeys => call("subkeys") \in Good
      BY <1>1, <2>3, <2>4
    <3>3. ~req.a.subkeys /\ "UpdateAllSubkeys" \in set.options => call("all subkeys") \in Good
      BY <1>1, <2>3, <2>4
    <3> HIDE DEF Good
    <3>4. \A c \in Good : <<c>> \in Seq(Good) /\ <<c>> # <<>>
      OBVIOUS
    <3>5. <<>> \in Seq(Good)
      OBVIOUS
    <3>6. front \in Seq(Good) /\ (~req.a.subkeys => front # <<>>)
      BY <3>1, <3>4, <3>5
    <3>7. back \in Seq(Good) /\ (req.a.subkeys => back # <<>>)
      BY <3>2, <3>3, <3>4, <3>5
    <3> HIDE DEF front, back
    <3>8. QED
      BY <3>6, <3>7
  <2>6. \A c \in Good : Right(c)
    OBVIOUS
  <2> HIDE DEF Good, front, back, Right
  <2>7. Plan \in Seq(Good) /\ Plan # <<>>
    BY <2>2, <2>5
  <2>8. \A i \in 1..Len(Plan) : Right(Plan[i])
    BY <2>6, <2>7
  <2>9. IsSequence(Plan)
    BY <2>7, Zenon DEF IsSequence
  <2>10. QED
    BY <1>7, <2>7, <2>8, <2>9, Zenon DEF PlanTold, Right
<1>8. QED
  BY <1>1, <1>4, <1>5, <1>6, <1>7

\* Every worker function tells GpgME what its job was told.
LEMMA ProgramsTold ==
  ASSUME req \in RequestSet, WantedInv, req.kind \in Handed
  PROVE  PlanTold
  BY FileProgramsTold, DataProgramsTold, OtherProgramsTold DEF Handed

LEMMA ProgramsToldNext == (req \in RequestSet /\ WantedInv /\ req.kind \in Handed)' => PlanTold'
<1>1. req \in RequestSet /\ WantedInv /\ req.kind \in Handed => PlanTold
  BY ProgramsTold
<1>2. QED
  BY <1>1, PTL

\* A call that was made is the one that was to be made, in the context of the job.
AsPlanned(call, planned) ==
  /\ call.op = planned.op /\ call.what = planned.what
  /\ call.ctx.allSignatures = ContextTold.allSignatures

\* What the owner has set waits in the job, or in what start() bound, until the worker
\* function is entered; from then on the calls made and those to be made are its program.
SettingsInv == req.kind \in Handed =>
  /\ stage = "created" => ctx = ContextFor(req)
  /\ stage \in {"prepared", "started"} =>
       IF WithFiles THEN settings = AsWanted /\ ctx = ContextFor(req) ELSE bound = Handover /\ ctx = ContextTold
  /\ stage = "working" =>
       /\ ctx = ContextTold /\ IsSequence(todo)
       /\ Len(made) + Len(todo) = Len(Plan)
       /\ \A i \in 1..Len(todo) : todo[i] = Plan[Len(made) + i]
  /\ Len(made) <= Len(Plan) /\ \A i \in 1..Len(made) : AsPlanned(made[i], Plan[i])

LEMMA ToldUnchanged ==
  ASSUME UNCHANGED req, WithFiles => UNCHANGED wanted
  PROVE  /\ Handover' = Handover /\ ContextTold' = ContextTold /\ AsWanted' = AsWanted
         /\ ContextFor(req)' = ContextFor(req) /\ (WithFiles' <=> WithFiles)
         /\ entered' = entered => Plan' = Plan
<1>1. WithFiles' <=> WithFiles
  BY DEF WithFiles, How
<1>2. Lasting' = Lasting
  BY <1>1 DEF Lasting
<1>3. QED
  BY <1>1, <1>2 DEF Handover, ContextTold, AsWanted, Plan, Given

\* What start() tells the context is of no matter to the programs, but to the calls.
LEMMA ContextsTold ==
  ASSUME req \in RequestSet, WantedInv, req.kind \in Handed
  PROVE  /\ DOMAIN ContextTold = Fields /\ ContextTold.exportMode = ContextFor(req).exportMode
         /\ ContextTold.allSignatures <=> "allSignatures" \in DOMAIN AsWanted /\ Lasting.allSignatures
         /\ ContextTold.allSignatures \in BOOLEAN
<1>1. DOMAIN ContextFor(req) = Fields
  BY Contexts
<1>2. ContextFor(req).allSignatures = FALSE
  <2> DEFINE c == NewContext(req.protocol)
  <2>1. DOMAIN c = Fields /\ c.allSignatures = FALSE
    BY DEF NewContext, Fields
  <2>2. ContextFor(req) \in {c, publicKeyExportJob(c, TRUE), secretKeyExportJob(c, TRUE), secretSubkeyExportJob(c, TRUE),
                             archiveJob(c, TRUE), armoredJob(c, TRUE, FALSE), signEncryptJob(c, TRUE, FALSE),
                             textModeJob(c, TRUE), decryptVerifyJob(c, TRUE)}
    BY DEF ContextFor, ArchiveKinds, Handed, SettableKinds, FileJobKinds, Exports
  <2> HIDE DEF c
  <2>3. QED
    BY <2>1, <2>2 DEF Fields, publicKeyExportJob, secretKeyExportJob, secretSubkeyExportJob, archiveJob, armoredJob,
                      signEncryptJob, textModeJob, decryptVerifyJob
<1>3. "allSignatures" \in DOMAIN AsWanted => AsWanted.allSignatures = Lasting.allSignatures
  <2>1. CASE req.kind \in {"decryptVerifyJob", "verifyOpaqueJob", "verifyDetachedJob", "decryptVerifyArchiveJob"}
    BY <2>1 DEF AsWanted, AllSet, Defaults, Exports, setDecryptVerifyJob, setVerifyOpaqueJob, setVerifyDetachedJob,
                setDecryptVerifyArchiveJob, DecryptVerifyJob, VerifyOpaqueJob, VerifyDetachedJob,
                DecryptVerifyArchiveJob
  <2>2. CASE req.kind \notin {"decryptVerifyJob", "verifyOpaqueJob", "verifyDetachedJob", "decryptVerifyArchiveJob"}
    <3>1. "allSignatures" \notin DOMAIN Defaults(req.kind)
      BY <2>2 DEF Handed, SettableKinds, FileJobKinds, Exports, Defaults, EncryptJob, SignEncryptJob, SignJob,
                  EncryptArchiveJob, SignEncryptArchiveJob, SignArchiveJob, ImportJob, SignKeyJob, ExportJob,
                  ChangeExpiryJob
    <3>2. QED
      BY <3>1, ConfiguredFields
  <2>3. QED
    BY <2>1, <2>2
<1>4. "allSignatures" \in DOMAIN AsWanted => Lasting.allSignatures \in BOOLEAN
  BY SettingsTyped
<1>5. CASE "allSignatures" \in DOMAIN AsWanted /\ AsWanted.allSignatures
  <2>1. ContextTold = [ContextFor(req) EXCEPT !.allSignatures = TRUE]
    BY <1>5 DEF ContextTold, TellAllSignatures
  <2>2. QED
    BY <1>1, <1>3, <1>5, <2>1 DEF Fields
<1>6. CASE ~("allSignatures" \in DOMAIN AsWanted /\ AsWanted.allSignatures)
  <2>1. ContextTold = ContextFor(req)
    BY <1>6 DEF ContextTold, TellAllSignatures
  <2>2. ContextTold.allSignatures = FALSE
    BY <1>2, <2>1
  <2>3. QED
    BY <1>1, <1>3, <1>6, <2>1, <2>2
<1>7. QED
  BY <1>5, <1>6

LEMMA ProgramInContext ==
  ASSUME NEW r, NEW c, NEW d, NEW s, NEW now, c.exportMode = d.exportMode
  PROVE  Program(r, c, s, now) = Program(r, d, s, now)
<1>1. CASE r.kind \in Exports
  <2>1. \A e : Program(r, e, s, now) = export_qba(s, e)
    BY <1>1 DEF Program, FileJobKinds, Exports
  <2>2. export_qba(s, c) = export_qba(s, d)
    BY DEF export_qba
  <2>3. QED
    BY <2>1, <2>2
<1>2. CASE r.kind \notin Exports
  BY <1>2 DEF Program
<1>3. QED
  BY <1>1, <1>2

\* Nothing is called before the worker function, and nothing after it.
LEMMA SettingsKept ==
  ASSUME SettingsInv, UNCHANGED <<req, made, entered>>, WithFiles => UNCHANGED wanted,
         stage' = "created" => stage = "created" /\ UNCHANGED ctx,
         stage' \in {"prepared", "started"} =>
           /\ stage \in {"prepared", "started"} /\ UNCHANGED <<ctx, bound>>
           /\ WithFiles => UNCHANGED settings,
         stage' = "working" => stage = "working" /\ UNCHANGED <<ctx, todo>>
  PROVE  SettingsInv'
<1>1. /\ Handover' = Handover /\ ContextTold' = ContextTold /\ AsWanted' = AsWanted
      /\ ContextFor(req)' = ContextFor(req) /\ (WithFiles' <=> WithFiles) /\ Plan' = Plan
  BY ToldUnchanged
<1>2. \A i \in 1..Len(made) : AsPlanned(made[i], Plan[i])' <=> AsPlanned(made[i], Plan[i])
  BY <1>1 DEF AsPlanned
<1>3. stage' = "working" => (IsSequence(todo)' <=> IsSequence(todo))
  BY DEF IsSequence
<1>4. QED
  BY <1>1, <1>2, <1>3 DEF SettingsInv

LEMMA SettingsFrame ==
  ASSUME SettingsInv,
         \/ Configure \/ StartNow \/ Tick \/ Report \/ DeferredDelete \/ DeleteWrapper
         \/ NoPartFile \/ NothingToRefresh \/ ReturnEarly \/ TakeLog \/ EnterListing \/ ListingStep
         \/ ListingStops \/ ListingReturns \/ ChooseKey \/ RefreshEnds \/ ProcessSends \/ ReadDevice \/ DataStep
         \/ UNCHANGED vars
  PROVE  SettingsInv'
<1>1. CASE Configure
  <2>1. UNCHANGED <<req, wanted, made, entered, ctx>> /\ stage = "created" /\ stage' = "created"
    BY <1>1 DEF Configure, resultVars, timeVars, settingVars
  <2>2. QED
    BY <2>1, SettingsKept
<1>2. CASE StartNow
  <2>1. /\ UNCHANGED <<req, wanted, made, entered, ctx, bound, settings>> /\ stage = "prepared" /\ stage' = "started"
    BY <1>2 DEF StartNow, resultVars, timeVars, settingVars
  <2>2. QED
    BY <2>1, SettingsKept
<1>3. CASE Report \/ DeferredDelete \/ DeleteWrapper
  <2>1. UNCHANGED <<req, wanted, made, entered>> /\ stage' \in {"reported", "gone"}
    BY <1>3 DEF Report, DeferredDelete, DeleteWrapper, resultVars, timeVars, settingVars
  <2>2. QED
    BY <2>1, SettingsKept
<1>4. CASE NoPartFile \/ NothingToRefresh \/ ReturnEarly \/ TakeLog
  <2>1. UNCHANGED <<req, wanted, made, entered>> /\ stage' = "returned"
    BY <1>4 DEF NoPartFile, NothingToRefresh, ReturnEarly, TakeLog, resultVars, timeVars, settingVars
  <2>2. QED
    BY <2>1, SettingsKept
<1>5. CASE EnterListing \/ ListingReturns \/ ChooseKey \/ RefreshEnds
  <2>1. UNCHANGED <<req, wanted, made, entered>> /\ stage' \in {"listing", "returned"}
    BY <1>5 DEF EnterListing, ListingReturns, ChooseKey, RefreshEnds, resultVars, timeVars, settingVars
  <2>2. QED
    BY <2>1, SettingsKept
<1>6. CASE Tick \/ ListingStep \/ ListingStops \/ ProcessSends \/ ReadDevice
  <2>1. UNCHANGED <<req, wanted, made, todo, entered, ctx, bound, settings, stage>>
    BY <1>6 DEF Tick, ListingStep, ListingStops, ProcessSends, ReadDevice, resultVars, timeVars, settingVars
  <2>2. QED
    BY <2>1, SettingsKept
<1>7. CASE DataStep
  <2>1. UNCHANGED <<req, wanted, made, todo, entered, ctx>> /\ stage = "working" /\ stage' \in {"working", "crashed"}
    BY <1>7, DataStays
  <2>2. QED
    BY <2>1, SettingsKept
<1>8. CASE UNCHANGED vars
  <2>1. UNCHANGED <<req, wanted, made, todo, entered, ctx, bound, settings, stage>>
    BY <1>8 DEF vars, resultVars, timeVars, settingVars
  <2>2. QED
    BY <2>1, SettingsKept
<1>9. QED
  BY <1>1, <1>2, <1>3, <1>4, <1>5, <1>6, <1>7, <1>8

\* The owner may only take settings back before the worker function is entered, and only
\* startIt() lets it find them gone.
LEMMA SettingsTaken ==
  ASSUME OwnerInv, CallsInv, WantedInv', SettingsInv, Reconfigure
  PROVE  SettingsInv'
<1> SUFFICES ASSUME req.kind \in Handed PROVE SettingsInv'
  <2>1. UNCHANGED req
    BY DEF Reconfigure
  <2>2. QED
    BY <2>1 DEF SettingsInv
<1>1. /\ UNCHANGED <<req, made, entered, ctx, bound, stage>> /\ stage \in {"prepared", "started"}
      /\ settings' = AllSet(req.kind, Defaults(req.kind), wanted')
  BY DEF Reconfigure, resultVars, timeVars
<1>2. CASE ~WithFiles
  BY <1>1, <1>2, SettingsKept
<1>3. CASE WithFiles
  <2>1. made = <<>>
    BY <1>1 DEF CallsInv, MadeInv, Before
  <2>2. WithFiles' /\ ContextFor(req)' = ContextFor(req)
    BY <1>1, <1>3 DEF WithFiles, How
  <2>3. settings' = AsWanted'
    BY <1>1, <2>2 DEF AsWanted, Lasting
  <2>4. ctx = ContextFor(req)
    BY <1>1, <1>3 DEF SettingsInv
  <2>5. PlanTold'
    BY <1>1, ProgramsToldNext DEF OwnerInv
  <2>6. PICK S : Plan' \in Seq(S)
    BY <2>5 DEF PlanTold, IsSequence
  <2>7. Len(made') <= Len(Plan') /\ \A i \in 1..Len(made') : AsPlanned(made[i], Plan[i])'
    <3>1. Len(Plan') \in Nat /\ made' = <<>>
      BY <1>1, <2>1, <2>6
    <3>2. QED
      BY <3>1
  <2>8. QED
    BY <1>1, <2>2, <2>3, <2>4, <2>7 DEF SettingsInv
<1>4. QED
  BY <1>2, <1>3

\* The factory makes the context; start() copies the settings, and startIt() leaves them
\* where they are.
LEMMA SettingsStarted ==
  ASSUME OwnerInv, CallsInv, WantedInv, SettingsInv, CreateJob \/ Start
  PROVE  SettingsInv'
<1> SUFFICES ASSUME req.kind \in Handed PROVE SettingsInv'
  <2>1. UNCHANGED req
    BY DEF CreateJob, Start
  <2>2. QED
    BY <2>1 DEF SettingsInv
<1>1. UNCHANGED <<req, wanted, made, entered>> /\ made = <<>>
  BY DEF CreateJob, Start, resultVars, timeVars, CallsInv, MadeInv, Before
<1>2. /\ Handover' = Handover /\ ContextTold' = ContextTold /\ AsWanted' = AsWanted
      /\ ContextFor(req)' = ContextFor(req) /\ (WithFiles' <=> WithFiles) /\ Plan' = Plan
  BY <1>1, ToldUnchanged
<1>3. Len(made') <= Len(Plan') /\ \A i \in 1..Len(made') : AsPlanned(made[i], Plan[i])'
  <2>1. PlanTold
    BY ProgramsTold DEF OwnerInv
  <2>2. PICK S : Plan \in Seq(S)
    BY <2>1 DEF PlanTold, IsSequence
  <2>3. Len(Plan) \in Nat
    BY <2>2
  <2>4. QED
    BY <1>1, <1>2, <2>3
<1>4. CASE CreateJob
  <2>1. stage' \in {"crashed", "no job"} \/ (stage' = "created" /\ ctx' = ContextFor(req))
    BY <1>4 DEF CreateJob
  <2>2. QED
    BY <1>2, <1>3, <2>1 DEF SettingsInv
<1>5. CASE Start
  <2>1. /\ stage = "created" /\ settings = Configured /\ code' = Answered /\ UNCHANGED settings
        /\ stage' \in {"refused", "idle", "prepared", "started"}
        /\ stage' # "refused" => code' = "ok"
    BY <1>5 DEF Start, Handed
  <2>0. settings = AsWanted
    BY <2>1 DEF WantedInv, Handed, Lasting, AsWanted, Configured
  <2>2. ctx = ContextFor(req)
    BY <2>1 DEF SettingsInv
  <2>3. CASE WithFiles
    <3>1. How = "startIt"
      BY <2>3 DEF WithFiles
    <3>2. UNCHANGED ctx
      BY <1>5, <3>1 DEF Start
    <3>3. QED
      BY <1>2, <1>3, <2>0, <2>1, <2>2, <2>3, <3>2 DEF SettingsInv
  <2>4. CASE ~WithFiles /\ How = "startIt"
    <3>1. req.kind \notin FileJobKinds
      BY <2>4 DEF WithFiles
    <3>2. req.kind \in DOMAIN ClassOf
      BY <2>4, ClassesStarted DEF OwnerInv, How
    <3>3. req.kind \in {"export", "import", "changeExpiry"}
      BY <3>1, <3>2 DEF Handed, SettableKinds, Exports, ClassOf
    <3>4. StartItCode(req.kind) # "ok"
      BY <3>3 DEF StartItCode, ClassOf, Class, QGpgMEExportJob, QGpgMEImportJob, QGpgMEChangeExpiryJob
    <3>5. Answered = StartItCode(req.kind)
      BY <2>4 DEF Answered
    <3>6. stage' = "refused"
      BY <2>1, <3>4, <3>5
    <3>7. QED
      BY <1>3, <3>6 DEF SettingsInv
  <2>5. CASE How # "startIt"
    <3>1. code' = "ok" => bound' = Bound(req.kind, settings, Given) /\ ctx' = TellAllSignatures(settings, ctx)
      BY <1>5, <2>5 DEF Start, Handed
    <3>2. ~WithFiles
      BY <2>5 DEF WithFiles
    <3>3. code' = "ok" => bound' = Handover /\ ctx' = ContextTold
      BY <2>0, <2>1, <2>2, <3>1, <3>2 DEF Handover, ContextTold
    <3>4. QED
      BY <1>2, <1>3, <2>1, <3>2, <3>3 DEF SettingsInv
  <2>6. QED
    BY <2>3, <2>4, <2>5
<1>6. QED
  BY <1>4, <1>5

LEMMA SettingsEntered ==
  ASSUME OwnerInv, CallsInv, WantedInv, WantedInv', SettingsInv, EnterWorker
  PROVE  SettingsInv'
<1> SUFFICES ASSUME req.kind \in Handed PROVE SettingsInv'
  <2>1. UNCHANGED req
    BY DEF EnterWorker
  <2>2. QED
    BY <2>1 DEF SettingsInv
<1>1. /\ stage = "started" /\ stage' = "working" /\ UNCHANGED <<req, wanted, made>> /\ entered' = clock
      /\ todo' = Program(req, ctx, IF WithFiles THEN settings ELSE bound, clock)
  BY DEF EnterWorker, settingVars
<1>2. made = <<>>
  BY <1>1 DEF CallsInv, MadeInv, Before
<1>3. /\ Handover' = Handover /\ ContextTold' = ContextTold /\ ContextFor(req)' = ContextFor(req)
  BY <1>1, ToldUnchanged
<1>4. IF WithFiles THEN settings = AsWanted /\ ctx = ContextFor(req) ELSE bound = Handover /\ ctx = ContextTold
  BY <1>1 DEF SettingsInv
<1>5. todo' = Program(req, ctx, Handover, clock) /\ ctx.exportMode = ContextFor(req).exportMode
  BY <1>1, <1>4, ContextsTold DEF OwnerInv, Handover
<1>6. todo' = Plan'
  <2>1. Plan' = Program(req', ContextFor(req)', Handover', entered')
    BY DEF Plan
  <2>2. QED
    BY <1>1, <1>3, <1>5, <2>1, ProgramInContext
<1>7. ctx' = ContextTold'
  <2>1. req.kind # "listAllKeys"
    BY DEF Handed
  <2>2. CASE WithFiles
    <3>1. ctx' = TellAllSignatures(settings, ctx)
      BY <2>1, <2>2, Zenon DEF EnterWorker
    <3>2. settings = AsWanted /\ ctx = ContextFor(req)
      BY <1>4, <2>2
    <3>3. ctx' = ContextTold
      BY <3>1, <3>2, Zenon DEF ContextTold
    <3>4. QED
      BY <1>3, <3>3
  <2>3. CASE ~WithFiles
    <3>1. ctx' = ctx
      BY <2>1, <2>3, Zenon DEF EnterWorker
    <3>2. QED
      BY <1>3, <1>4, <2>3, <3>1
  <2>4. QED
    BY <2>2, <2>3
<1>8. PICK S : Plan' \in Seq(S)
  <2>1. PlanTold'
    BY <1>1, ProgramsToldNext DEF OwnerInv
  <2>2. QED
    BY <2>1 DEF PlanTold, IsSequence
<1>9. IsSequence(todo') /\ Len(made') = 0 /\ Len(Plan') \in Nat /\ Len(todo') = Len(Plan')
  <2>1. IsSequence(todo')
    BY <1>6, <1>8, Zenon DEF IsSequence
  <2>2. made' = <<>>
    BY <1>1, <1>2
  <2>3. Len(made') = 0
    BY <2>2
  <2>4. Len(Plan') \in Nat
    BY <1>8
  <2>5. QED
    BY <1>6, <2>1, <2>3, <2>4, Zenon
<1>10. QED
  BY <1>1, <1>6, <1>7, <1>9 DEF SettingsInv

\* A call that comes back was the next one to be made.
LEMMA SettingsCalled ==
  ASSUME OwnerInv, CallsInv, ModeInv, WantedInv, SettingsInv, CallEngine \/ CallImport \/ RunProcess \/ CallList
  PROVE  SettingsInv'
<1> SUFFICES ASSUME req.kind \in Handed PROVE SettingsInv'
  <2>1. UNCHANGED req
    BY DEF CallEngine, CallImport, RunProcess, CallList
  <2>2. QED
    BY <2>1 DEF SettingsInv
<1>1. stage = "working" /\ todo # <<>> /\ UNCHANGED <<req, wanted, ctx, entered>>
  BY DEF CallEngine, CallImport, RunProcess, CallList, IsNext, settingVars, timeVars
<1>2. PICK outcome : Goes(Head(todo), outcome)
  BY DEF CallEngine, CallImport, RunProcess, CallList
<1>3. /\ ContextTold' = ContextTold /\ Plan' = Plan
  BY <1>1, ToldUnchanged
<1>4. /\ ctx = ContextTold /\ Len(made) + Len(todo) = Len(Plan)
      /\ \A i \in 1..Len(todo) : todo[i] = Plan[Len(made) + i]
      /\ \A i \in 1..Len(made) : AsPlanned(made[i], Plan[i])
  BY <1>1 DEF SettingsInv
<1>5. PICK S : todo \in Seq(S)
  BY <1>1 DEF SettingsInv, IsSequence
<1>6. /\ IsSequence(made') /\ Len(made) \in Nat /\ made' # <<>>
      /\ Len(made') = Len(made) + 1 /\ DOMAIN made = 1..Len(made)
      /\ \A i \in DOMAIN made : made'[i] = made[i]
      /\ made'[Len(made')].op = Head(todo).op /\ made'[Len(made')].what = Head(todo).what
      /\ made'[Len(made')].ctx = [ctx EXCEPT !.mode = ModeOf(Head(todo))]
      /\ stage' \in {"working", "logging", "returned"} /\ (stage' = "working" => todo' = Tail(todo))
  BY <1>1, <1>2, CallMade DEF CallsInv, MadeInv
<1>7. /\ Len(todo) \in Nat \ {0} /\ Head(todo) = todo[1] /\ 1 \in 1..Len(todo)
      /\ Tail(todo) \in Seq(S) /\ Len(Tail(todo)) = Len(todo) - 1
      /\ \A i \in 1..(Len(todo) - 1) : Tail(todo)[i] = todo[i + 1] /\ i + 1 \in 1..Len(todo)
  BY <1>1, <1>5
<1>8. Head(todo) = Plan[Len(made) + 1]
  BY <1>4, <1>7
<1>9. made'[Len(made')].ctx.allSignatures = ContextTold.allSignatures
  <2>1. DOMAIN ctx = Fields
    BY <1>1, <1>4, ContextsTold DEF OwnerInv
  <2>2. QED
    BY <1>4, <1>6, <2>1 DEF Fields
<1>10. Len(made') <= Len(Plan') /\ \A i \in 1..Len(made') : AsPlanned(made[i], Plan[i])'
  <2>1. ASSUME NEW i \in 1..Len(made') PROVE AsPlanned(made[i], Plan[i])'
    <3>1. CASE i \in 1..Len(made)
      <4>1. AsPlanned(made[i], Plan[i]) /\ made'[i] = made[i]
        BY <1>4, <1>6, <3>1
      <4>2. QED
        BY <1>3, <4>1 DEF AsPlanned
    <3>2. CASE i = Len(made')
      BY <1>3, <1>6, <1>8, <1>9, <3>2 DEF AsPlanned
    <3>3. QED
      BY <1>6, <3>1, <3>2
  <2>2. Len(made') <= Len(Plan')
    BY <1>3, <1>4, <1>6, <1>7
  <2>3. QED
    BY <2>1, <2>2
<1>11. ASSUME stage' = "working"
       PROVE  /\ IsSequence(todo') /\ Len(made') + Len(todo') = Len(Plan')
              /\ \A i \in 1..Len(todo') : todo'[i] = Plan'[Len(made') + i]
  <2>1. todo' = Tail(todo)
    BY <1>6, <1>11
  <2>2. IsSequence(todo')
    BY <1>7, <2>1, Zenon DEF IsSequence
  <2>3. Len(todo') = Len(todo) - 1 /\ Len(made') = Len(made) + 1 /\ Plan' = Plan
    BY <1>3, <1>6, <1>7, <2>1
  <2>4. ASSUME NEW i \in 1..Len(todo') PROVE todo'[i] = Plan'[Len(made') + i]
    <3>1. todo'[i] = todo[i + 1] /\ i + 1 \in 1..Len(todo)
      BY <1>7, <2>1, <2>3
    <3>2. todo[i + 1] = Plan[Len(made) + (i + 1)]
      BY <1>4, <3>1
    <3>3. Len(made) + (i + 1) = Len(made') + i
      BY <1>6, <1>7, <2>3
    <3>4. QED
      BY <2>3, <3>1, <3>2, <3>3
  <2>5. Len(made') + Len(todo') = Len(Plan')
    <3>1. Len(made) + Len(todo) = Len(Plan)
      BY <1>4
    <3>2. Len(made) \in Nat /\ Len(todo) \in Nat
      BY <1>6, <1>7
    <3>3. (Len(made) + 1) + (Len(todo) - 1) = Len(made) + Len(todo)
      BY <3>2
    <3>4. QED
      BY <2>3, <3>1, <3>3
  <2>6. QED
    BY <2>2, <2>4, <2>5, Zenon
<1>12. ctx' = ContextTold'
  BY <1>1, <1>3, <1>4
<1>13. QED
  BY <1>6, <1>10, <1>11, <1>12 DEF SettingsInv

LEMMA SettingsStep ==
  ASSUME OwnerInv, CallsInv, ModeInv, WantedInv, WantedInv', SettingsInv, [Next]_vars
  PROVE  SettingsInv'
  BY SettingsFrame, SettingsTaken, SettingsStarted, SettingsEntered, SettingsCalled DEF Next, WorkerStep

LEMMA ToldAsPlanned ==
  ASSUME OwnerInv, CallsInv, WantedInv, SettingsInv
  PROVE  SettingsArePassedOn
<1> SUFFICES ASSUME NEW call \in Calls, req.kind \in Handed, call.op # "addSigningKey" PROVE AsTold(call)
  BY DEF SettingsArePassedOn, Handed
<1>1. PlanTold /\ req \in RequestSet
  BY ProgramsTold DEF OwnerInv
<1>2. PICK S : made \in Seq(S)
  BY DEF CallsInv, MadeInv, IsSequence
<1>3. Len(made) \in Nat /\ DOMAIN made = 1..Len(made)
  BY <1>2
<1>4. PICK P : Plan \in Seq(P)
  BY <1>1 DEF PlanTold, IsSequence
<1>5. Len(Plan) \in Nat /\ Len(made) <= Len(Plan) /\ \A i \in 1..Len(made) : AsPlanned(made[i], Plan[i])
  BY <1>4 DEF SettingsInv
<1>6. PICK n \in 1..Len(made) : call = made[n]
  BY <1>3 DEF Calls
<1>7. /\ call.op = Plan[n].op /\ call.what = Plan[n].what /\ call.ctx.allSignatures = ContextTold.allSignatures
      /\ n \in 1..Len(Plan)
  BY <1>3, <1>5, <1>6 DEF AsPlanned
<1>8. WhatTold(call.what)
  <2>1. CASE req.kind = "changeExpiry"
    BY <1>1, <1>7, <2>1 DEF PlanTold
  <2>2. CASE req.kind # "changeExpiry"
    <3>1. n \notin 1..Len(KeysTold)
      <4>1. \A key : Adding(key).op = "addSigningKey"
        BY DEF Adding, Ask
      <4>2. QED
        BY <1>1, <1>7, <2>2, <4>1 DEF PlanTold
    <3>2. n = Len(Plan)
      <4>1. Len(KeysTold) = Len(Plan) - 1
        BY <1>1, <2>2, Zenon DEF PlanTold
      <4>2. Len(Plan) \in Nat /\ n \in 1..Len(Plan)
        BY <1>5, <1>7
      <4>3. n \notin 1..(Len(Plan) - 1)
        BY <3>1, <4>1, Zenon
      <4>4. QED
        BY <4>2, <4>3
    <3>3. QED
      BY <1>1, <1>7, <2>2, <3>2 DEF PlanTold
  <2>3. QED
    BY <2>1, <2>2
<1>9. req.kind # "changeExpiry" => [i \in 1..(Len(made) - 1) |-> made[i].what] = KeysTold
  <2> SUFFICES ASSUME req.kind # "changeExpiry" PROVE [i \in 1..(Len(made) - 1) |-> made[i].what] = KeysTold
    OBVIOUS
  <2>1. PICK K : KeysTold \in Seq(K)
    BY <1>1 DEF PlanTold, IsSequence
  <2>2. Len(KeysTold) = Len(Plan) - 1 /\ \A i \in 1..Len(KeysTold) : Plan[i] = Adding(KeysTold[i])
    BY <1>1 DEF PlanTold
  <2>3. \A key : Adding(key).op = "addSigningKey" /\ Adding(key).what = key
    BY DEF Adding, Ask
  <2>4. n = Len(Plan) /\ Len(made) = Len(Plan)
    <3>1. n \notin 1..Len(KeysTold)
      BY <1>7, <2>2, <2>3
    <3>2. n \notin 1..(Len(Plan) - 1)
      BY <2>2, <3>1, Zenon
    <3>3. Len(Plan) \in Nat /\ n \in 1..Len(Plan) /\ Len(made) \in Nat /\ n \in 1..Len(made)
      BY <1>3, <1>5, <1>6, <1>7
    <3>4. Len(made) <= Len(Plan)
      BY <1>5
    <3>5. QED
      BY <3>2, <3>3, <3>4
  <2>5. \A i \in 1..(Len(made) - 1) : made[i].what = KeysTold[i]
    <3>1. ASSUME NEW i \in 1..(Len(made) - 1) PROVE made[i].what = KeysTold[i]
      <4>1. i \in 1..Len(made) /\ i \in 1..Len(KeysTold)
        BY <1>3, <2>2, <2>4
      <4>2. QED
        BY <1>5, <2>2, <2>3, <4>1 DEF AsPlanned
    <3>2. QED
      BY <3>1
  <2>6. KeysTold = [i \in 1..Len(KeysTold) |-> KeysTold[i]]
    BY <2>1
  <2>7. Len(KeysTold) = Len(made) - 1
    BY <2>2, <2>4
  <2>8. QED
    BY <2>5, <2>6, <2>7
<1>10. call.ctx.allSignatures = ("allSignatures" \in DOMAIN AsWanted /\ Lasting.allSignatures)
  <2>1. /\ ContextTold.allSignatures <=> "allSignatures" \in DOMAIN AsWanted /\ Lasting.allSignatures
        /\ ContextTold.allSignatures \in BOOLEAN
    BY <1>1, ContextsTold
  <2>2. QED
    BY <1>7, <2>1
<1>11. req.kind = "changeExpiry" /\ Told.options = {} => {c.what.part : c \in Calls} \subseteq
         {IF req.a.subkeys THEN "subkeys" ELSE "primary key"}
  <2> SUFFICES ASSUME req.kind = "changeExpiry", Told.options = {}, NEW c \in Calls
               PROVE  c.what.part = IF req.a.subkeys THEN "subkeys" ELSE "primary key"
    OBVIOUS
  <2>1. PICK i \in 1..Len(made) : c = made[i]
    BY <1>3 DEF Calls
  <2>2. c.what = Plan[i].what /\ i \in 1..Len(Plan)
    BY <1>3, <1>5, <2>1 DEF AsPlanned
  <2>3. QED
    BY <1>1, <2>2 DEF PlanTold
<1>12. DOMAIN AsWanted = DOMAIN Defaults(req.kind)
  BY ConfiguredFields
<1>13. QED
  BY <1>8, <1>9, <1>10, <1>11, <1>12 DEF AsTold, WhatTold, KeysTold

\* Whatever GpgME reads, writes and seeks, a byte array (ByteArrayDataProvider) behaves like a
\* file with the same content while its place is an int, its assertion fails only for a
\* write across the end, and encodeFilenames() keeps the names of an archive's files apart;
\* what a device or a process ends with (QIODeviceDataProvider) is what GpgME is told, but
\* for an error that was left in errno; and every operation is made with the settings that
\* its job had at start(), or after startIt() as its worker function was entered.
THEOREM DataPassedOn == Spec => []DataIsPassedOn
<1> DEFINE Inv == OwnerInv /\ CallsInv /\ ModeInv /\ BytesInv /\ DeviceInv /\ WantedInv /\ SettingsInv
<1>1. Init => Inv
  <2> SUFFICES ASSUME Init PROVE Inv
    OBVIOUS
  <2>1. OwnerInv /\ CallsInv /\ ModeInv
    BY OwnerInit, CallsInit, ModeInit
  <2>2. BytesInv /\ DeviceInv
    BY DEF Init, BytesInv, DeviceInv, NoDevice
  <2>3. WantedInv
    BY DEF Init, WantedInv
  <2>4. SettingsInv
    <3> SUFFICES ASSUME req.kind \in Handed PROVE SettingsInv
      BY DEF SettingsInv
    <3>1. stage = "asked" /\ made = <<>> /\ PlanTold
      BY <2>1, <2>3, ProgramsTold DEF Init, OwnerInv
    <3>2. PICK P : Plan \in Seq(P)
      BY <3>1 DEF PlanTold, IsSequence
    <3>3. Len(Plan) \in Nat
      BY <3>2
    <3>4. QED
      BY <3>1, <3>3 DEF SettingsInv
  <2>5. QED
    BY <2>1, <2>2, <2>3, <2>4
<1>2. Inv /\ [Next]_vars => Inv'
  BY OwnerStep, CallsStep, ModeStep, BytesStep, DeviceStep, WantedStep, SettingsStep
<1>3. Inv => DataIsPassedOn
  <2> SUFFICES ASSUME Inv PROVE DataIsPassedOn
    OBVIOUS
  <2>1. BytesArePassedOn
    BY DEF BytesInv, AsFile, BytesArePassedOn
  <2>2. DevicesAreReadToTheEnd
    BY DEF DeviceInv, DevicesAreReadToTheEnd
  <2>3. QED
    BY <2>1, <2>2, ToldAsPlanned DEF DataIsPassedOn
<1>4. QED
  BY <1>1, <1>2, <1>3, PTL DEF Spec
==============================================================================
