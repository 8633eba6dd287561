-------------------------- MODULE CryptoConfig_proof --------------------------
(***************************************************************************)
(* Proofs about CryptoConfig, for any number of lookups and any use that   *)
(* the application makes of the configuration: whose pointers to entries   *)
(* survive clear(), and what the application reads back.                   *)
(*                                                                         *)
(* Nothing that loads the configuration makes a pointer stale, because it  *)
(* is loaded only when there is none in memory, and then nobody holds a    *)
(* pointer that is not stale already. That is the invariant that is needed *)
(* (IInv): parsed follows from a live pointer, who ever holds it.          *)
(*                                                                         *)
(* What an entry shows follows from what it was set to, in memory as well  *)
(* as in the files of gpgconf (ViewInv). For each type of an entry this is *)
(* a fact about its setter and its getter; for a list of servers, that     *)
(* parseURL() reads what splitURL() wrote (ParsedAsSplit).                 *)
(***************************************************************************)
EXTENDS CryptoConfig, SequenceTheorems, WellFoundedInduction, TLAPS

\* The lookups that hold a pointer to an entry.
Holding == {w \in Lookups : lookup[w] = "holds"}

LookupTypeOK == lookup \in [Lookups -> {"off", "holds", "done"}]

\* As long as there is a pointer to an entry that was not deleted, the entries are
\* in memory.
LivePointers == held # {} \/ Holding \ stale # {} => parsed

\* The pointers of the application are never stale.
OnlyLookupsAreStale == stale \subseteq Holding

\* What is stale was pulled away by clear(), and so was what was used.
PulledAway == stale \subseteq cleared /\ staleUsed \subseteq cleared /\ cleared \subseteq Lookups

IInv ==
  /\ LookupTypeOK
  /\ LivePointers
  /\ OnlyLookupsAreStale
  /\ PulledAway

LEMMA InitInvariant == Init => IInv
BY DEF Init, IInv, LookupTypeOK, LivePointers, OnlyLookupsAreStale, PulledAway, Holding

\* What component() does: afterwards the entries are in memory, and the pointers are
\* as good as before.
LEMMA ComponentKeepsPointers ==
  ASSUME LivePointers, OnlyLookupsAreStale, Component
  PROVE  parsed' /\ stale' = stale
<1>1. CASE parsed /\ UNCHANGED <<memoryVars, stale>>
  BY <1>1 DEF memoryVars
<1>2. CASE ~parsed /\ ReloadConfiguration
  <2>1. Holders = Holding /\ Holding \subseteq stale
    BY <1>2 DEF LivePointers, Holders, Holding
  <2>2. QED
    BY <1>2, <2>1 DEF ReloadConfiguration, Forget, OnlyLookupsAreStale
<1>3. QED
  BY <1>1, <1>2 DEF Component

\* A change of an entry leaves the pointers alone; it is made through one.
LEMMA SetKeepsPointers ==
  ASSUME IInv, NEW e, NEW view, NEW values, SetNewValue(e, view, values)
  PROVE  IInv'
<1>1. UNCHANGED <<parsed, held, lookup, stale>>
  BY DEF SetNewValue
<1>2. staleUsed' \subseteq cleared' /\ cleared' = cleared
  BY DEF SetNewValue, IInv, PulledAway
<1>3. QED
  BY <1>1, <1>2 DEF IInv, LookupTypeOK, LivePointers, OnlyLookupsAreStale, PulledAway, Holding

LEMMA StepInvariant == IInv /\ [Next]_vars => IInv'
<1> SUFFICES ASSUME IInv, [Next]_vars PROVE IInv'
  OBVIOUS
<1> USE DEF IInv, LookupTypeOK, OnlyLookupsAreStale, PulledAway
<1>1. ASSUME Component, UNCHANGED <<lookup, staleUsed, cleared>> PROVE IInv'
  <2>1. parsed' /\ stale' = stale
    BY <1>1, ComponentKeepsPointers
  <2>2. QED
    BY <1>1, <2>1 DEF LivePointers, Holding
<1>2. ASSUME NEW e \in used, Change(e) PROVE IInv'
  <2>1. CASE GetEntry(e)
    BY <1>1, <2>1 DEF GetEntry
  <2>2. CASE ResetToDefault(e)
    BY <2>2, SetKeepsPointers DEF ResetToDefault
  <2>3. CASE \E b \in BOOLEAN : SetBoolValue(e, b)
    BY <2>3, SetKeepsPointers DEF SetBoolValue
  <2>4. CASE \E n \in 0..MaxNumber : SetNumberOfTimesSet(e, n) \/ SetUIntValue(e, n)
    BY <2>4, SetKeepsPointers DEF SetNumberOfTimesSet, SetUIntValue
  <2>5. CASE \E text \in Texts : SetStringValue(e, text) \/ SetURLValue(e, text)
    BY <2>5, SetKeepsPointers DEF SetStringValue, SetURLValue, SetText
  <2>6. CASE \E urls \in ServerLists : SetURLValueList(e, urls)
    BY <2>6, SetKeepsPointers DEF SetURLValueList
  <2>7. QED
    BY <1>2, <2>1, <2>2, <2>3, <2>4, <2>5, <2>6 DEF Change
<1>3. CASE ComponentList
  BY <1>1, <1>3 DEF ComponentList
<1>4. CASE Sync
  <2>1. UNCHANGED <<parsed, pointerVars>>
    BY <1>4 DEF Sync
  <2>2. QED
    BY <2>1 DEF pointerVars, LivePointers, Holding
<1>5. CASE ApplicationClears
  <2>1. held' = {} /\ stale' = Holding /\ UNCHANGED <<lookup, staleUsed>>
        /\ cleared' = cleared \cup Holding
    BY <1>5 DEF ApplicationClears, Holding
  <2>2. QED
    BY <2>1 DEF LivePointers, Holding
<1>6. CASE OthersChange
  <2>1. UNCHANGED <<memoryVars, pointerVars>>
    BY <1>6 DEF OthersChange
  <2>2. QED
    BY <2>1 DEF memoryVars, pointerVars, LivePointers, Holding
<1>7. ASSUME NEW w \in Lookups, LookupGetsEntry(w) PROVE IInv'
  <2>1. parsed' /\ stale' = stale /\ UNCHANGED <<staleUsed, cleared>>
    BY <1>7, ComponentKeepsPointers DEF LookupGetsEntry
  <2>2. lookup' = [lookup EXCEPT ![w] = "holds"] /\ lookup[w] = "off"
    BY <1>7 DEF LookupGetsEntry
  <2>3. Holding \subseteq Holding'
    BY <2>2 DEF Holding
  <2>4. QED
    BY <2>1, <2>2, <2>3 DEF LivePointers
<1>8. ASSUME NEW w \in Lookups, LookupReadsEntry(w) PROVE IInv'
  <2>1. /\ lookup' = [lookup EXCEPT ![w] = "done"] /\ stale' = stale \ {w}
        /\ UNCHANGED <<parsed, held, cleared>>
        /\ staleUsed' \subseteq cleared
    BY <1>8 DEF LookupReadsEntry, memoryVars
  <2>2. Holding' = Holding \ {w}
    BY <2>1 DEF Holding
  <2>3. QED
    BY <2>1, <2>2 DEF LivePointers
<1>9. ASSUME NEW w \in Lookups, LookupExecuted(w) PROVE IInv'
  <2>1. parsed' /\ stale' = stale /\ UNCHANGED <<staleUsed, cleared>>
    BY <1>9, ComponentKeepsPointers DEF LookupExecuted
  <2>2. lookup' = [lookup EXCEPT ![w] = "done"] /\ lookup[w] = "off"
    BY <1>9 DEF LookupExecuted
  <2>3. Holding' = Holding
    BY <2>2 DEF Holding
  <2>4. QED
    BY <2>1, <2>2, <2>3 DEF LivePointers
<1>10. CASE UNCHANGED vars
  BY <1>10 DEF vars, memoryVars, pointerVars, LivePointers, Holding
<1>11. QED
  BY <1>2, <1>3, <1>4, <1>5, <1>6, <1>7, <1>8, <1>9, <1>10 DEF Next

\* The invariant holds in every reachable state.
THEOREM InductiveInvariant == Spec => []IInv
<1>1. QED
  BY InitInvariant, StepInvariant, PTL DEF Spec

\* The pointers that the application holds are never stale: component() does not
\* reload what is in memory, and clear() is called without pointers. Only a lookup can hold a pointer to a deleted entry.
THEOREM ApplicationIsSafe == Spec => []OnlyLookupsAreStale
<1>1. IInv => OnlyLookupsAreStale
  BY DEF IInv
<1>2. QED
  BY <1>1, InductiveInvariant, PTL

\* A deleted entry is only used by a lookup under whose feet the application has
\* cleared the configuration, however many lookups there are in their threads.
THEOREM OnlyClear == Spec => []OnlyClearPullsAway
<1>1. IInv => OnlyClearPullsAway
  BY DEF IInv, PulledAway, OnlyClearPullsAway
<1>2. QED
  BY <1>1, InductiveInvariant, PTL

------------------------------------------------------------------------------
(* Folds over sequences. What a fold comes to is reached step by step, so  *)
(* that what the steps keep is true of the fold.                           *)

\* Every set of natural numbers has a least element.
LEMMA LeastNumber ==
  ASSUME NEW S \in SUBSET Nat, S # {}
  PROVE  \E n \in S : \A m \in S : n <= m
<1> DEFINE Less == {p \in Nat \X Nat : p[1] < p[2]}
<1>1. OpToRel(<, Nat) = Less
  BY DEF OpToRel
<1>2. PICK n \in S : \A m \in S : ~(<<m, n>> \in Less)
  BY <1>1, NatLessThanWellFounded, WFMin
<1>3. ASSUME NEW m \in S PROVE n <= m
  <2>1. m < n => <<m, n>> \in Nat \X Nat /\ <<m, n>>[1] < <<m, n>>[2]
    OBVIOUS
  <2>2. m < n => <<m, n>> \in Less
    BY ONLY <2>1
  <2>3. QED
    BY <1>2, <2>2
<1>4. QED
  BY <1>3

LEMMA AllNumbers ==
  ASSUME NEW S \in SUBSET Nat, 0 \in S, \A n \in Nat : n \in S => n + 1 \in S
  PROVE  S = Nat
<1> SUFFICES ASSUME Nat \ S # {} PROVE FALSE
  OBVIOUS
<1>1. PICK n \in Nat \ S : \A m \in Nat \ S : n <= m
  BY LeastNumber
<1>2. n - 1 \in Nat /\ n - 1 \in S
  BY <1>1
<1>3. (n - 1) + 1 = n
  BY <1>1
<1>4. QED
  BY <1>1, <1>2, <1>3

\* The greatest number of a set of numbers up to k.
LEMMA Greatest ==
  ASSUME NEW k \in Nat
  PROVE  /\ Max(1..(k + 1)) = k + 1
         /\ \A s \in SUBSET (1..(k + 1)) : k + 1 \in s => Max(s) = k + 1
<1>1. ASSUME NEW s \in SUBSET (1..(k + 1)), k + 1 \in s PROVE Max(s) = k + 1
  <2>1. \A y \in s : k + 1 >= y
    OBVIOUS
  <2>2. \A x \in s : (\A y \in s : x >= y) => x = k + 1
    BY <1>1, <2>1
  <2>3. QED
    BY <1>1, <2>1, <2>2 DEF Max
<1>2. QED
  BY <1>1

LEMMA GreatestIn ==
  ASSUME NEW n \in Nat, NEW s \in SUBSET (1..n), s # {}
  PROVE  Max(s) \in 1..n /\ s \ {Max(s)} \in SUBSET (1..n)
<1> DEFINE Bounds == {m \in Nat : \A x \in s : m >= x}
<1>1. n \in Bounds /\ Bounds \in SUBSET Nat
  OBVIOUS
<1>2. PICK m \in Bounds : \A b \in Bounds : m <= b
  BY <1>1, LeastNumber
<1>3. m \in s
  <2> SUFFICES ASSUME m \notin s PROVE FALSE
    OBVIOUS
  <2>1. \A x \in s : x \in Nat /\ x >= 1 /\ m >= x /\ m # x
    BY <1>2
  <2>2. m >= 1
    <3>1. PICK x \in s : TRUE
      OBVIOUS
    <3>2. x \in Nat /\ x >= 1 /\ m >= x /\ m \in Nat
      BY <2>1, <3>1
    <3>3. QED
      BY ONLY <3>2
  <2>3. m - 1 \in Nat /\ \A x \in s : m - 1 >= x
    BY <1>2, <2>1, <2>2
  <2>4. m - 1 \in Bounds
    BY <2>3
  <2>5. QED
    BY <1>2, <2>4
<1>4. \E x \in s : \A y \in s : x >= y
  BY <1>2, <1>3
<1>5. Max(s) \in s
  BY <1>4 DEF Max
<1>6. QED
  BY <1>5

LEMMA Segment ==
  ASSUME NEW n \in Nat, NEW i \in Nat, i + 1 <= n
  PROVE  1..(i + 1) \in SUBSET (1..n) /\ 1..(i + 1) # {} /\ (1..(i + 1)) \ {i + 1} = 1..i
<1>1. i + 1 \in 1..(i + 1)
  OBVIOUS
<1>2. (1..(i + 1)) \ {i + 1} = 1..i
  OBVIOUS
<1>3. 1..(i + 1) \in SUBSET (1..n)
  OBVIOUS
<1>4. QED
  BY <1>1, <1>2, <1>3

\* A step from what was folded before and the next position.
FoldStep(step, base, h, s) == IF s = {} THEN base ELSE step[<<h[s \ {Max(s)}], Max(s)>>]

\* A function that folds all sets of positions up to k.
Folds(A, step, base, k, h) ==
  h \in [SUBSET (1..k) -> A] /\ \A s \in SUBSET (1..k) : h[s] = FoldStep(step, base, h, s)

LEMMA FoldExists ==
  ASSUME NEW A, NEW base \in A, NEW n \in Nat, NEW step \in [A \X (1..n) -> A]
  PROVE  \E h : Folds(A, step, base, n, h)
<1> DEFINE Good == {k \in Nat : k <= n => \E h : Folds(A, step, base, k, h)}
<1>1. 0 \in Good
  <2> DEFINE h == [s \in SUBSET (1..0) |-> base]
  <2>1. \A s \in SUBSET (1..0) : s = {}
    OBVIOUS
  <2>2. h \in [SUBSET (1..0) -> A]
    OBVIOUS
  <2>3. Folds(A, step, base, 0, h)
    BY <2>1, <2>2 DEF Folds, FoldStep
  <2>4. QED
    BY <2>3
<1>2. ASSUME NEW k \in Nat, k \in Good PROVE k + 1 \in Good
  <2> SUFFICES ASSUME k + 1 <= n PROVE \E h : Folds(A, step, base, k + 1, h)
    OBVIOUS
  <2>1. PICK g : Folds(A, step, base, k, g)
    BY <1>2
  <2> DEFINE h == [s \in SUBSET (1..(k + 1)) |->
                     IF k + 1 \in s THEN step[<<g[s \ {k + 1}], k + 1>>] ELSE g[s]]
  <2>2. \A s \in SUBSET (1..(k + 1)) : s \ {k + 1} \in SUBSET (1..k)
    OBVIOUS
  <2>3. \A s \in SUBSET (1..k) : g[s] \in A /\ h[s] = g[s]
    BY <2>1 DEF Folds
  <2>4. ASSUME NEW s \in SUBSET (1..(k + 1)) PROVE h[s] \in A /\ h[s] = FoldStep(step, base, h, s)
    <3>1. CASE k + 1 \in s
      <4>1. Max(s) = k + 1
        BY <3>1, Greatest
      <4>2. s \ {k + 1} \in SUBSET (1..k) /\ k + 1 \in 1..n
        BY <2>2
      <4>3. <<g[s \ {k + 1}], k + 1>> \in A \X (1..n) /\ h[s \ {k + 1}] = g[s \ {k + 1}]
        BY <2>3, <4>2
      <4>4. h[s] = step[<<g[s \ {k + 1}], k + 1>>]
        BY <3>1
      <4> HIDE DEF h
      <4>5. h[s] \in A
        BY <4>3, <4>4
      <4>6. QED
        BY <3>1, <4>1, <4>3, <4>4, <4>5 DEF FoldStep
    <3>2. CASE k + 1 \notin s
      <4>1. s \in SUBSET (1..k)
        BY <3>2
      <4>2. h[s] = g[s] /\ g[s] \in A
        BY <2>3, <4>1
      <4>3. g[s] = FoldStep(step, base, g, s)
        BY <2>1, <4>1 DEF Folds
      <4>4. s # {} => s \ {Max(s)} \in SUBSET (1..k)
        BY <4>1
      <4>5. s # {} => h[s \ {Max(s)}] = g[s \ {Max(s)}]
        BY <2>3, <4>4
      <4> HIDE DEF h
      <4>6. QED
        BY <4>2, <4>3, <4>5 DEF FoldStep
    <3>3. QED
      BY <3>1, <3>2
  <2>5. h \in [SUBSET (1..(k + 1)) -> A]
    BY <2>4
  <2>6. Folds(A, step, base, k + 1, h)
    BY <2>4, <2>5 DEF Folds
  <2>7. QED
    BY <2>6
<1>3. Good = Nat
  <2> HIDE DEF Good
  <2>1. Good \in SUBSET Nat
    BY DEF Good
  <2>2. QED
    BY <1>1, <1>2, <2>1, AllNumbers
<1>4. QED
  BY <1>3

\* f goes on with the step wherever that is defined.
Follows(A, step, base, n, f) ==
  /\ base \in A /\ n \in Nat /\ step \in [A \X (1..n) -> A]
  /\ f[{}] = base
  /\ \A s \in SUBSET (1..n) :
       s # {} /\ f[s \ {Max(s)}] \in A => f[s] = step[<<f[s \ {Max(s)}], Max(s)>>]

\* g goes from the base to the result in n steps.
Steps(A, step, base, n, g) ==
  g \in [0..n -> A] /\ g[0] = base /\ \A i \in 0..(n - 1) : g[i + 1] = step[<<g[i], i + 1>>]

\* What a fold comes to is reached step by step. (f is the function that defines it.)
LEMMA FoldSteps ==
  ASSUME NEW A, NEW base, NEW n, NEW step, NEW f, Follows(A, step, base, n, f)
  PROVE  \E g : Steps(A, step, base, n, g) /\ g[n] = f[1..n]
<1> USE DEF Follows
<1> DEFINE g == [i \in 0..n |-> f[1..i]]
           Good == {i \in Nat : i <= n => f[1..i] \in A}
<1>1. ASSUME NEW i \in Nat, i + 1 <= n, f[1..i] \in A
      PROVE  f[1..(i + 1)] \in A /\ f[1..(i + 1)] = step[<<f[1..i], i + 1>>]
  <2>1. 1..(i + 1) \in SUBSET (1..n) /\ 1..(i + 1) # {} /\ (1..(i + 1)) \ {i + 1} = 1..i
    BY <1>1, Segment
  <2>2. Max(1..(i + 1)) = i + 1
    BY Greatest
  <2>3. f[1..(i + 1)] = step[<<f[1..i], i + 1>>]
    BY <1>1, <2>1, <2>2
  <2>4. <<f[1..i], i + 1>> \in A \X (1..n)
    BY <1>1
  <2>5. QED
    BY <2>3, <2>4
<1>2. Good = Nat
  <2>1. 0 \in Good
    <3>1. 1..0 = {}
      OBVIOUS
    <3>2. QED
      BY <3>1
  <2>2. ASSUME NEW i \in Nat, i \in Good PROVE i + 1 \in Good
    <3>1. i + 1 <= n => i <= n
      OBVIOUS
    <3>2. i + 1 <= n => f[1..(i + 1)] \in A
      BY <1>1, <2>2, <3>1
    <3>3. QED
      BY <3>2
  <2>3. Good \in SUBSET Nat
    OBVIOUS
  <2> HIDE DEF Good
  <2>4. QED
    BY <2>1, <2>2, <2>3, AllNumbers
<1>3. ASSUME NEW i \in 0..n PROVE g[i] = f[1..i] /\ f[1..i] \in A
  <2>1. i \in Good
    BY <1>2
  <2>2. QED
    BY <2>1
<1>4. g \in [0..n -> A]
  BY <1>3
<1>5. g[0] = base /\ g[n] = f[1..n]
  <2>1. 1..0 = {} /\ 0 \in 0..n /\ n \in 0..n
    OBVIOUS
  <2> HIDE DEF g
  <2>2. QED
    BY <1>3, <2>1
<1>6. ASSUME NEW i \in 0..(n - 1) PROVE g[i + 1] = step[<<g[i], i + 1>>]
  <2>1. i \in Nat /\ i + 1 <= n /\ i \in 0..n /\ i + 1 \in 0..n
    OBVIOUS
  <2> HIDE DEF g
  <2>2. QED
    BY <1>1, <1>3, <2>1
<1> HIDE DEF g
<1>7. QED
  BY <1>4, <1>5, <1>6 DEF Steps

------------------------------------------------------------------------------
(* The text of a server.                                                   *)

Chars == STRING \cup {Colon, Percent, Number, "%25", "%3a"}
Text == Seq(Chars)
ItemLists == Seq(Text) \ {<<>>}

\* What a character makes of the items before, and of the last one of them, in Items().
Longer(items, c) == [items EXCEPT ![Len(items)] = Append(@, c)]
Item(items, c) == IF c = Colon THEN Append(items, <<>>) ELSE Longer(items, c)

LEMMA ItemType ==
  ASSUME NEW items \in ItemLists, NEW c \in Chars
  PROVE  Item(items, c) \in ItemLists
<1>1. /\ items \in Seq(Text) /\ Len(items) \in DOMAIN items /\ items[Len(items)] \in Text
      /\ <<>> \in Text
  BY DEF ItemLists, Text
<1>2. Append(items[Len(items)], c) \in Text
  BY <1>1 DEF Text
<1>3. Longer(items, c) \in Seq(Text) /\ Longer(items, c) # <<>>
  BY <1>1, <1>2 DEF Longer
<1>4. Append(items, <<>>) \in Seq(Text) /\ Append(items, <<>>) # <<>>
  BY <1>1
<1>5. QED
  BY <1>3, <1>4 DEF Item, ItemLists

\* The text is read one character after the other.
LEMMA ItemSteps ==
  ASSUME NEW text \in Text
  PROVE  \E g \in [0..Len(text) -> ItemLists] :
           /\ g[0] = <<<<>>>>
           /\ \A i \in 0..(Len(text) - 1) : g[i + 1] = Item(g[i], text[i + 1])
           /\ g[Len(text)] = Items(text)
<1> DEFINE n == Len(text)
           A == ItemLists
           base == <<<<>>>>
           step == [p \in A \X (1..n) |-> Item(p[1], text[p[2]])]
           Is(h) == h = [s \in SUBSET (1..n) |->
                           IF s = {} THEN <<<<>>>> ELSE Item(h[s \ {Max(s)}], text[Max(s)])]
<1>1. n \in Nat /\ DOMAIN text = 1..n /\ \A i \in 1..n : text[i] \in Chars
  BY DEF Text
<1>2. Items(text) = (CHOOSE h : Is(h))[1..n]
  BY <1>1 DEF Items, FoldLeft, MapThenFoldSet, Item, Longer
<1>3. base \in A /\ step \in [A \X (1..n) -> A]
  <2>1. base \in A
    BY DEF ItemLists, Text
  <2>2. QED
    BY <1>1, <2>1, ItemType
<1>4. \A a \in A, i \in 1..n : step[<<a, i>>] = Item(a, text[i])
  OBVIOUS
<1> HIDE DEF A, step, n
<1>5. PICK h : Folds(A, step, base, n, h)
  BY <1>1, <1>3, FoldExists
<1>6. Is(h)
  <2>1. ASSUME NEW s \in SUBSET (1..n)
        PROVE  h[s] = IF s = {} THEN base ELSE Item(h[s \ {Max(s)}], text[Max(s)])
    <3>1. s # {} => Max(s) \in 1..n /\ h[s \ {Max(s)}] \in A
      BY <1>1, <1>5, GreatestIn DEF Folds
    <3> HIDE DEF base
    <3>2. QED
      BY <1>4, <1>5, <3>1 DEF Folds, FoldStep
  <2>2. h = [s \in SUBSET (1..n) |-> h[s]]
    BY <1>5 DEF Folds
  <2>3. QED
    BY <2>1, <2>2
<1>7. PICK f : Is(f) /\ f = (CHOOSE k : Is(k))
  <2> HIDE DEF Is
  <2>1. QED
    BY <1>6
<1>8. Follows(A, step, base, n, f)
  <2>1. \A s \in SUBSET (1..n) : s # {} => Max(s) \in 1..n
    BY <1>1, GreatestIn
  <2>2. f[{}] = base
    BY <1>7
  <2>3. \A s \in SUBSET (1..n) : s # {} => f[s] = Item(f[s \ {Max(s)}], text[Max(s)])
    BY <1>7
  <2> HIDE DEF Is, base
  <2>4. QED
    BY <1>1, <1>3, <1>4, <2>1, <2>2, <2>3 DEF Follows
<1> HIDE DEF Is
<1>9. PICK g : Steps(A, step, base, n, g) /\ g[n] = f[1..n]
  <2> HIDE DEF base
  <2>1. QED
    BY ONLY <1>8, FoldSteps
<1>10. \A i \in 0..(n - 1) : g[i + 1] = Item(g[i], text[i + 1])
  <2>1. \A i \in 0..(n - 1) : i \in 0..n /\ i + 1 \in 1..n
    BY <1>1
  <2> HIDE DEF base
  <2>2. QED
    BY <1>4, <1>9, <2>1 DEF Steps
<1>11. g[n] = Items(text)
  BY <1>2, <1>7, <1>9
<1>12. QED
  BY <1>9, <1>10, <1>11 DEF n, A, Steps

Colonless(text) == \A i \in DOMAIN text : text[i] # Colon

LEMMA LongerLast ==
  ASSUME NEW before \in Seq(Text), NEW item \in Text, NEW c \in Chars
  PROVE  Longer(Append(before, item), c) = Append(before, Append(item, c))
<1> DEFINE items == Append(before, item)  t == Longer(items, c)  n == Len(before) + 1
           longer == Append(item, c)
<1>1. /\ Len(before) \in Nat /\ items \in Seq(Text) /\ Len(items) = n /\ n \in DOMAIN items
      /\ items[n] = item /\ longer \in Text
      /\ \A i \in 1..Len(before) : items[i] = before[i]
      /\ DOMAIN items = 1..n
  BY DEF Text
<1>2. t = [items EXCEPT ![n] = longer]
  BY <1>1 DEF Longer
<1> HIDE DEF items, t, longer
<1>3. t \in Seq(Text) /\ Len(t) = n
  BY <1>1, <1>2
<1>4. \A i \in 1..n : t[i] = IF i = n THEN longer ELSE before[i]
  BY <1>1, <1>2
<1>5. Append(before, longer) \in Seq(Text) /\ Len(Append(before, longer)) = n
  BY <1>1
<1>6. \A i \in 1..n : Append(before, longer)[i] = IF i = n THEN longer ELSE before[i]
  BY <1>1
<1>7. t = Append(before, longer)
  BY <1>3, <1>4, <1>5, <1>6
<1>8. QED
  BY <1>7 DEF t, items, longer

\* The characters of an item are added to it, one after the other.
LEMMA OneItem ==
  ASSUME NEW before \in Seq(Text), NEW s \in Text, Colonless(s),
         NEW g, NEW p \in Nat, g[p] = Append(before, <<>>),
         \A i \in 0..(Len(s) - 1) : g[p + i + 1] = Item(g[p + i], s[i + 1])
  PROVE  g[p + Len(s)] = Append(before, s)
<1> DEFINE n == Len(s)
           Up(i) == [k \in 1..i |-> s[k]]
           Good == {i \in Nat : i <= n => g[p + i] = Append(before, Up(i))}
<1>1. n \in Nat /\ DOMAIN s = 1..n /\ \A i \in 1..n : s[i] \in Chars
  BY DEF Text
<1>2. 0 \in Good
  <2>1. Up(0) = <<>>
    OBVIOUS
  <2>2. p + 0 = p /\ 0 \in Nat
    OBVIOUS
  <2> HIDE DEF Up
  <2>3. g[p + 0] = Append(before, Up(0))
    BY <2>1, <2>2
  <2>4. QED
    BY <2>3
<1>3. ASSUME NEW i \in Nat, i \in Good PROVE i + 1 \in Good
  <2>1. ASSUME i + 1 <= n PROVE g[p + (i + 1)] = Append(before, Up(i + 1))
    <3>1. i <= n /\ i \in 0..(n - 1) /\ i + 1 \in 1..n /\ p + (i + 1) = p + i + 1
      BY <1>1, <2>1
    <3>2. g[p + i] = Append(before, Up(i))
      BY <1>3, <3>1
    <3>3. Up(i) \in Text /\ s[i + 1] \in Chars /\ s[i + 1] # Colon
      <4>1. s[i + 1] \in Chars /\ s[i + 1] # Colon
        BY <1>1, <3>1 DEF Colonless
      <4>2. \A k \in 1..i : k \in 1..n
        BY <1>1, <3>1
      <4>3. \A k \in 1..i : s[k] \in Chars
        BY <1>1, <4>2
      <4>4. Up(i) \in Text
        BY <4>3 DEF Text
      <4>5. QED
        BY <4>1, <4>4
    <3>4. Append(Up(i), s[i + 1]) = Up(i + 1)
      <4>1. Append(Up(i), s[i + 1]) \in Seq(Chars) /\ Up(i + 1) \in Seq(Chars)
        BY <1>1, <3>1, <3>3 DEF Text
      <4>2. Len(Append(Up(i), s[i + 1])) = i + 1 /\ Len(Up(i + 1)) = i + 1
        BY <3>3 DEF Text
      <4>3. ASSUME NEW k \in 1..(i + 1) PROVE Append(Up(i), s[i + 1])[k] = Up(i + 1)[k]
        <5>1. Len(Up(i)) = i
          OBVIOUS
        <5>2. CASE k \in 1..i
          BY <3>3, <5>1, <5>2 DEF Text
        <5>3. CASE k = i + 1
          BY <3>3, <5>1, <5>3 DEF Text
        <5>4. QED
          BY <5>2, <5>3
      <4>4. QED
        BY <4>1, <4>2, <4>3
    <3> HIDE DEF Up
    <3>5. Item(Append(before, Up(i)), s[i + 1]) = Append(before, Append(Up(i), s[i + 1]))
      BY <3>3, LongerLast DEF Item
    <3>6. QED
      BY <3>1, <3>2, <3>4, <3>5
  <2>2. QED
    BY <2>1
<1>4. Good = Nat
  <2>1. Good \in SUBSET Nat
    OBVIOUS
  <2> HIDE DEF Good
  <2>2. QED
    BY <1>2, <1>3, <2>1, AllNumbers
<1>5. g[p + n] = Append(before, Up(n))
  <2>1. n <= n
    BY <1>1
  <2>2. n \in Good
    <3> HIDE DEF Good
    <3>1. QED
      BY <1>1, <1>4
  <2>3. QED
    BY <2>1, <2>2
<1>6. Up(n) = s
  BY <1>1 DEF Text
<1>7. QED
  BY <1>5, <1>6

\* A text without a separator is one item.
LEMMA ItemsOfOne ==
  ASSUME NEW s \in Text, Colonless(s)
  PROVE  Items(s) = <<s>>
<1>1. PICK g \in [0..Len(s) -> ItemLists] :
        /\ g[0] = <<<<>>>>
        /\ \A i \in 0..(Len(s) - 1) : g[i + 1] = Item(g[i], s[i + 1])
        /\ g[Len(s)] = Items(s)
  BY ItemSteps
<1>2. Len(s) \in Nat
  BY DEF Text
<1>3. \A i \in 0..(Len(s) - 1) : g[0 + i + 1] = Item(g[0 + i], s[i + 1])
  <2>1. \A i \in 0..(Len(s) - 1) : 0 + i = i
    BY <1>2
  <2>2. QED
    BY <1>1, <2>1
<1>4. /\ <<>> \in Seq(Text) /\ <<>> \in Text
      /\ Append(<<>>, <<>>) = <<<<>>>> /\ Append(<<>>, s) = <<s>>
  BY DEF Text
<1>5. g[0 + Len(s)] = Append(<<>>, s)
  BY <1>1, <1>3, <1>4, OneItem
<1>6. 0 + Len(s) = Len(s)
  BY <1>2
<1>7. QED
  BY <1>1, <1>4, <1>5, <1>6

\* A text with one more separator has one more item.
LEMMA OneMoreItem ==
  ASSUME NEW a \in Text, NEW s \in Text, Colonless(s)
  PROVE  Items((a \o <<Colon>>) \o s) = Append(Items(a), s) /\ Items(a) \in Seq(Text)
<1> DEFINE w == (a \o <<Colon>>) \o s  m == Len(a)  n == Len(s)
<1>1. m \in Nat /\ n \in Nat /\ Colon \in Chars
  <2>1. m \in Nat /\ n \in Nat
    BY DEF Text
  <2>2. Colon \in Chars
    BY DEF Chars
  <2>3. QED
    BY <2>1, <2>2
<1>2. w \in Text /\ Len(w) = m + 1 + n
  BY <1>1 DEF Text
<1>3. /\ \A i \in 1..m : w[i] = a[i]
      /\ w[m + 1] = Colon
      /\ \A i \in 1..n : w[m + 1 + i] = s[i]
  BY <1>1 DEF Text
<1> HIDE DEF w, m, n
<1>4. PICK f \in [0..m -> ItemLists] :
        /\ f[0] = <<<<>>>>
        /\ \A i \in 0..(m - 1) : f[i + 1] = Item(f[i], a[i + 1])
        /\ f[m] = Items(a)
  BY ItemSteps DEF m
<1>5. PICK g \in [0..Len(w) -> ItemLists] :
        /\ g[0] = <<<<>>>>
        /\ \A i \in 0..(Len(w) - 1) : g[i + 1] = Item(g[i], w[i + 1])
        /\ g[Len(w)] = Items(w)
  BY <1>2, ItemSteps
<1> DEFINE Good == {i \in Nat : i <= m => g[i] = f[i]}
<1>6. Good = Nat
  <2>1. 0 \in Good
    BY <1>4, <1>5
  <2>2. ASSUME NEW i \in Nat, i \in Good PROVE i + 1 \in Good
    <3>1. ASSUME i + 1 <= m PROVE g[i + 1] = f[i + 1]
      <4>1. i <= m /\ i \in 0..(m - 1) /\ i \in 0..(Len(w) - 1) /\ i + 1 \in 1..m
        BY <1>1, <1>2, <3>1
      <4>2. QED
        BY <1>3, <1>4, <1>5, <2>2, <4>1
    <3>2. QED
      BY <3>1
  <2>3. Good \in SUBSET Nat
    OBVIOUS
  <2> HIDE DEF Good
  <2>4. QED
    BY <2>1, <2>2, <2>3, AllNumbers
<1>7. g[m] = Items(a)
  <2>1. m \in Good /\ m <= m
    BY <1>1, <1>6
  <2>2. QED
    BY <1>4, <2>1
<1>8. Items(a) \in Seq(Text)
  <2>1. m \in 0..m
    BY <1>1
  <2>2. QED
    BY <1>4, <2>1 DEF ItemLists
<1>9. g[m + 1] = Append(Items(a), <<>>)
  <2>1. m \in 0..(Len(w) - 1)
    BY <1>1, <1>2
  <2>2. QED
    BY <1>3, <1>5, <1>7, <2>1 DEF Item
<1>10. \A i \in 0..(n - 1) : g[m + 1 + i + 1] = Item(g[m + 1 + i], s[i + 1])
  <2> SUFFICES ASSUME NEW i \in 0..(n - 1)
               PROVE  g[m + 1 + i + 1] = Item(g[m + 1 + i], s[i + 1])
    OBVIOUS
  <2>1. /\ m + 1 + i \in 0..(Len(w) - 1) /\ i + 1 \in 1..n
        /\ m + 1 + i + 1 = m + 1 + (i + 1)
    BY <1>1, <1>2
  <2>2. QED
    BY <1>3, <1>5, <2>1
<1>11. m + 1 \in Nat
  BY <1>1
<1>12. g[m + 1 + n] = Append(Items(a), s)
  BY <1>8, <1>9, <1>10, <1>11, OneItem DEF n
<1>13. QED
  BY <1>2, <1>5, <1>8, <1>12 DEF w

\* A part without the characters that are spoiled is decoded as it was encoded.
LEMMA Decoded ==
  ASSUME NEW part \in Text, \A i \in DOMAIN part : part[i] \notin {Umlaut, "%25", "%3a"}
  PROVE  /\ urlpart_encode(part) \in Text /\ Colonless(urlpart_encode(part))
         /\ urlpart_decode(urlpart_encode(part)) = part
<1> DEFINE e == urlpart_encode(part)  t == urlpart_decode(e)
<1>1. DOMAIN part = 1..Len(part) /\ Len(part) \in Nat /\ \A i \in DOMAIN part : part[i] \in Chars
  BY DEF Text
<1>2. DOMAIN e = DOMAIN part /\ DOMAIN t = DOMAIN part
  BY DEF urlpart_encode, urlpart_decode
<1>3. ASSUME NEW i \in DOMAIN part
      PROVE  e[i] \in Chars /\ e[i] # Colon /\ t[i] = part[i]
  <2> USE DEF Colon, Percent, Umlaut
  <2>1. e[i] = CASE part[i] = Percent -> "%25" [] part[i] = Colon -> "%3a" [] OTHER -> part[i]
    BY DEF urlpart_encode
  <2>2. t[i] = CASE e[i] = "%25" -> Percent [] e[i] = "%3a" -> Colon
                 [] e[i] = Umlaut -> Replacement [] OTHER -> e[i]
    BY <1>2 DEF urlpart_decode
  <2> HIDE DEF e, t
  <2>3. CASE part[i] = Percent
    BY <2>1, <2>2, <2>3 DEF Chars
  <2>4. CASE part[i] = Colon
    BY <2>1, <2>2, <2>4 DEF Chars
  <2>5. CASE part[i] # Percent /\ part[i] # Colon
    <3>1. e[i] = part[i]
      BY <2>1, <2>5
    <3>2. QED
      BY <1>1, <2>2, <2>5, <3>1
  <2>6. QED
    BY <2>3, <2>4, <2>5
<1>4. e \in Text
  <2>1. e = [i \in 1..Len(part) |-> e[i]]
    BY <1>1 DEF urlpart_encode
  <2> HIDE DEF e
  <2>2. QED
    BY <1>1, <1>3, <2>1 DEF Text
<1>5. t = part
  <2>1. t = [i \in DOMAIN part |-> t[i]]
    BY <1>2 DEF urlpart_decode
  <2>2. part = [i \in DOMAIN part |-> part[i]]
    BY <1>1 DEF Text
  <2> HIDE DEF t
  <2>3. QED
    BY <1>3, <2>1, <2>2
<1>6. QED
  BY <1>2, <1>3, <1>4, <1>5 DEF Colonless

\* The lists that the items make up.
LEMMA Appended ==
  ASSUME NEW a \in Text, NEW b \in Text, NEW c \in Text, NEW d \in Text, NEW e \in Text, NEW f \in Text
  PROVE  /\ Append(<<a>>, b) = <<a, b>>
         /\ Append(<<a, b>>, c) = <<a, b, c>>
         /\ Append(<<a, b, c>>, d) = <<a, b, c, d>>
         /\ Append(<<a, b, c, d>>, e) = <<a, b, c, d, e>>
         /\ Append(<<a, b, c, d, e>>, f) = <<a, b, c, d, e, f>>
<1>1. Append(<<a>>, b) = <<a, b>>
  <2>1. <<a>> \in Seq(Text) /\ Len(<<a>>) = 1 /\ <<a, b>> \in Seq(Text) /\ Len(<<a, b>>) = 2
    OBVIOUS
  <2>2. \A i \in 1..2 : Append(<<a>>, b)[i] = <<a, b>>[i]
    BY <2>1
  <2>3. Append(<<a>>, b) \in Seq(Text) /\ Len(Append(<<a>>, b)) = 2
    BY <2>1
  <2>4. QED
    BY <2>1, <2>2, <2>3, SeqEqual
<1>2. Append(<<a, b>>, c) = <<a, b, c>>
  <2>1. <<a, b>> \in Seq(Text) /\ Len(<<a, b>>) = 2 /\ <<a, b, c>> \in Seq(Text) /\ Len(<<a, b, c>>) = 3
    OBVIOUS
  <2>2. \A i \in 1..3 : Append(<<a, b>>, c)[i] = <<a, b, c>>[i]
    BY <2>1
  <2>3. Append(<<a, b>>, c) \in Seq(Text) /\ Len(Append(<<a, b>>, c)) = 3
    BY <2>1
  <2>4. QED
    BY <2>1, <2>2, <2>3, SeqEqual
<1>3. Append(<<a, b, c>>, d) = <<a, b, c, d>>
  <2>1. <<a, b, c>> \in Seq(Text) /\ Len(<<a, b, c>>) = 3 /\ <<a, b, c, d>> \in Seq(Text) /\ Len(<<a, b, c, d>>) = 4
    OBVIOUS
  <2>2. \A i \in 1..4 : Append(<<a, b, c>>, d)[i] = <<a, b, c, d>>[i]
    BY <2>1
  <2>3. Append(<<a, b, c>>, d) \in Seq(Text) /\ Len(Append(<<a, b, c>>, d)) = 4
    BY <2>1
  <2>4. QED
    BY <2>1, <2>2, <2>3, SeqEqual
<1>4. Append(<<a, b, c, d>>, e) = <<a, b, c, d, e>>
  <2>1. <<a, b, c, d>> \in Seq(Text) /\ Len(<<a, b, c, d>>) = 4 /\ <<a, b, c, d, e>> \in Seq(Text) /\ Len(<<a, b, c, d, e>>) = 5
    OBVIOUS
  <2>2. \A i \in 1..5 : Append(<<a, b, c, d>>, e)[i] = <<a, b, c, d, e>>[i]
    BY <2>1
  <2>3. Append(<<a, b, c, d>>, e) \in Seq(Text) /\ Len(Append(<<a, b, c, d>>, e)) = 5
    BY <2>1
  <2>4. QED
    BY <2>1, <2>2, <2>3, SeqEqual
<1>5. Append(<<a, b, c, d, e>>, f) = <<a, b, c, d, e, f>>
  <2>1. <<a, b, c, d, e>> \in Seq(Text) /\ Len(<<a, b, c, d, e>>) = 5 /\ <<a, b, c, d, e, f>> \in Seq(Text) /\ Len(<<a, b, c, d, e, f>>) = 6
    OBVIOUS
  <2>2. \A i \in 1..6 : Append(<<a, b, c, d, e>>, f)[i] = <<a, b, c, d, e, f>>[i]
    BY <2>1
  <2>3. Append(<<a, b, c, d, e>>, f) \in Seq(Text) /\ Len(Append(<<a, b, c, d, e>>, f)) = 6
    BY <2>1
  <2>4. QED
    BY <2>1, <2>2, <2>3, SeqEqual
<1>6. QED
  BY <1>1, <1>2, <1>3, <1>4, <1>5

\* What comes first in a text with one more separator.
LEMMA TextKept ==
  ASSUME NEW a \in Text, NEW s \in Text
  PROVE  LET t == (a \o <<Colon>>) \o s IN
         /\ t \in Text /\ Len(t) \in Nat /\ Len(t) > Len(a)
         /\ t[Len(a) + 1] = Colon
         /\ \A i \in 1..Len(a) : t[i] = a[i]
<1>1. Colon \in Chars
  BY DEF Chars
<1>2. QED
  BY <1>1 DEF Text

\* parseURL() reads what splitURL() wrote.
LEMMA ParsedAsSplit ==
  ASSUME NEW url, Readable(url)
  PROVE  parseURL(splitURL(url)) = url
<1> DEFINE Encoded(p) == urlpart_encode(url[p])
           Names == Parts \ {"port"}
           host == Encoded("host")  user == Encoded("user")  password == Encoded("password")
           baseDn == Encoded("baseDn")  flags == Encoded("flags")
           port == url.port
<1>1. ASSUME NEW p \in Parts PROVE url[p] \in Text
  <2>1. \A s \in Seq(STRING) : s \in Text
    <3>1. STRING \subseteq Chars
      BY DEF Chars
    <3>2. ASSUME NEW s \in Seq(STRING) PROVE s \in Text
      <4>1. s = [i \in 1..Len(s) |-> s[i]] /\ Len(s) \in Nat /\ \A i \in 1..Len(s) : s[i] \in STRING
        OBVIOUS
      <4> DEFINE n == Len(s)
      <4>2. n \in Nat /\ \A i \in 1..n : s[i] \in Chars
        BY <3>1, <4>1
      <4> HIDE DEF n
      <4>3. [i \in 1..n |-> s[i]] \in Seq(Chars)
        BY <4>2
      <4>4. QED
        BY <4>1, <4>3 DEF n, Text
    <3>3. QED
      BY <3>2
  <2>2. QED
    BY <2>1 DEF Readable
<1>2. ASSUME NEW p \in Parts
      PROVE  Encoded(p) \in Text /\ Colonless(Encoded(p)) /\ urlpart_decode(Encoded(p)) = url[p]
  BY <1>1, Decoded DEF Readable
<1>3. {"host", "port", "user", "password", "baseDn", "flags"} = Parts
  BY DEF Parts
<1>4. port \in Text /\ Colonless(port) /\ PortOf(port) = port
  <2>1. port \in Text
    BY <1>1, <1>3
  <2>2. port = <<>> \/ port = <<Number>>
    BY DEF Readable
  <2>3. Colonless(<<>>) /\ Colonless(<<Number>>)
    BY DEF Colonless, Number, Colon
  <2>4. QED
    BY <2>1, <2>2, <2>3 DEF PortOf
<1>5. /\ host \in Text /\ Colonless(host) /\ urlpart_decode(host) = url.host
      /\ user \in Text /\ Colonless(user) /\ urlpart_decode(user) = url.user
      /\ password \in Text /\ Colonless(password) /\ urlpart_decode(password) = url.password
      /\ baseDn \in Text /\ Colonless(baseDn) /\ urlpart_decode(baseDn) = url.baseDn
      /\ flags \in Text /\ Colonless(flags) /\ urlpart_decode(flags) = url.flags
  <2> HIDE DEF Encoded
  <2>1. QED
    BY <1>2, <1>3
<1>6. splitURL(url) = host \o <<Colon>> \o port \o <<Colon>> \o user \o <<Colon>> \o password
                        \o <<Colon>> \o baseDn \o <<Colon>> \o flags
  BY DEF splitURL
<1>8. host # <<Ldap>>
  <2>1. SUFFICES ASSUME host = <<Ldap>> PROVE FALSE
    OBVIOUS
  <2>2. urlpart_decode(<<Ldap>>) = <<Ldap>>
    BY DEF urlpart_decode, Ldap, Umlaut
  <2> HIDE DEF host
  <2>3. QED
    BY <1>5, <2>1, <2>2 DEF Readable
<1> HIDE DEF Encoded, host, user, password, baseDn, flags, port
<1> DEFINE t1 == host
           t2 == (t1 \o <<Colon>>) \o port
           t3 == (t2 \o <<Colon>>) \o user
           t4 == (t3 \o <<Colon>>) \o password
           t5 == (t4 \o <<Colon>>) \o baseDn
           t6 == (t5 \o <<Colon>>) \o flags
<1>9. Items(t1) = <<host>>
  BY <1>5, ItemsOfOne
<1> DEFINE Begins(t) == /\ t \in Text /\ Len(t) \in Nat /\ Len(t) > Len(host)
                        /\ t[Len(host) + 1] = Colon /\ \A i \in 1..Len(host) : t[i] = host[i]
<1>10. ASSUME NEW a, Begins(a), NEW s \in Text PROVE Begins((a \o <<Colon>>) \o s)
  <2> DEFINE t == (a \o <<Colon>>) \o s
  <2>1. /\ t \in Text /\ Len(t) \in Nat /\ Len(t) > Len(a)
        /\ \A i \in 1..Len(a) : t[i] = a[i]
    BY <1>10, TextKept
  <2>2. Len(host) \in Nat
    BY <1>5 DEF Text
  <2> HIDE DEF t
  <2>3. Len(host) + 1 \in 1..Len(a) /\ \A i \in 1..Len(host) : i \in 1..Len(a)
    BY <1>10, <2>2
  <2>4. Begins(t)
    BY <1>10, <2>1, <2>2, <2>3
  <2>5. QED
    BY <2>4 DEF t
<1>11. t1 \in Text /\ Begins(t2) /\ Begins(t3) /\ Begins(t4) /\ Begins(t5) /\ Begins(t6)
  <2>1. t1 \in Text
    BY <1>5
  <2>2. Begins(t2)
    BY <1>4, <1>5, TextKept
  <2> HIDE DEF t2, Begins
  <2>3. Begins(t3)
    BY <1>5, <1>10, <2>2
  <2> HIDE DEF t3
  <2>4. Begins(t4)
    BY <1>5, <1>10, <2>3
  <2> HIDE DEF t4
  <2>5. Begins(t5)
    BY <1>5, <1>10, <2>4
  <2> HIDE DEF t5
  <2>6. Begins(t6)
    BY <1>5, <1>10, <2>5
  <2>7. QED
    BY <2>1, <2>2, <2>3, <2>4, <2>5, <2>6
<1>12. Items(t6) = <<host, port, user, password, baseDn, flags>>
  <2>0. /\ Append(<<host>>, port) = <<host, port>>
        /\ Append(<<host, port>>, user) = <<host, port, user>>
        /\ Append(<<host, port, user>>, password) = <<host, port, user, password>>
        /\ Append(<<host, port, user, password>>, baseDn) = <<host, port, user, password, baseDn>>
        /\ Append(<<host, port, user, password, baseDn>>, flags) = <<host, port, user, password, baseDn, flags>>
    <3> HIDE DEF t1
    <3>1. QED
      BY <1>4, <1>5, Appended
  <2> HIDE DEF t1
  <2>1. Items(t2) = Append(Items(t1), port)
    BY <1>4, <1>11, OneMoreItem
  <2> HIDE DEF t2
  <2>2. Items(t3) = Append(Items(t2), user)
    BY <1>5, <1>11, OneMoreItem
  <2> HIDE DEF t3
  <2>3. Items(t4) = Append(Items(t3), password)
    BY <1>5, <1>11, OneMoreItem
  <2> HIDE DEF t4
  <2>4. Items(t5) = Append(Items(t4), baseDn)
    BY <1>5, <1>11, OneMoreItem
  <2> HIDE DEF t5
  <2>5. Items(t6) = Append(Items(t5), flags)
    BY <1>5, <1>11, OneMoreItem
  <2> HIDE DEF t6
  <2>6. Items(t2) = <<host, port>>
    BY <2>0, <1>9, <2>1
  <2>7. Items(t3) = <<host, port, user>>
    BY <2>0, <2>2, <2>6
  <2>8. Items(t4) = <<host, port, user, password>>
    BY <2>0, <2>3, <2>7
  <2>9. Items(t5) = <<host, port, user, password, baseDn>>
    BY <2>0, <2>4, <2>8
  <2>10. QED
    BY <2>0, <2>5, <2>9
<1>13. ~HasOptionalPrefix(t6)
  <2>1. SUFFICES ASSUME HasOptionalPrefix(t6) PROVE FALSE
    OBVIOUS
  <2> HIDE DEF t6
  <2>2. Len(t6) >= 2 /\ SubSeq(<<Ldap, Colon>>, 1, 2) = SubSeq(t6, 1, 2)
    <3>1. Len(<<Ldap, Colon>>) = 2
      OBVIOUS
    <3>2. QED
      BY <2>1, <3>1 DEF HasOptionalPrefix, IsPrefix
  <2>3. t6[1] = Ldap /\ t6[2] = Colon
    <3>1. SubSeq(<<Ldap, Colon>>, 1, 2)[1] = Ldap /\ SubSeq(<<Ldap, Colon>>, 1, 2)[2] = Colon
      OBVIOUS
    <3>2. t6 \in Seq(Chars)
      BY <1>11 DEF Text
    <3>3. SubSeq(t6, 1, 2)[1] = t6[1] /\ SubSeq(t6, 1, 2)[2] = t6[2]
      BY <2>2, <3>2
    <3>4. QED
      BY <2>2, <3>1, <3>3
  <2>4. Len(host) \in Nat /\ DOMAIN host = 1..Len(host)
    BY <1>5 DEF Text
  <2>5. Ldap # Colon
    BY DEF Ldap, Colon
  <2>6. CASE Len(host) = 0
    BY <1>11, <2>3, <2>5, <2>6
  <2>7. CASE Len(host) = 1
    <3>1. host[1] = Ldap
      BY <1>11, <2>3, <2>7
    <3>2. host = <<Ldap>>
      BY <1>5, <2>7, <3>1 DEF Text
    <3>3. QED
      BY <1>8, <3>2
  <2>8. CASE Len(host) >= 2
    <3>1. 2 \in 1..Len(host)
      BY <2>4, <2>8
    <3>2. host[2] # Colon
      BY <1>5, <2>4, <3>1 DEF Colonless
    <3>3. QED
      BY <1>11, <2>3, <3>1, <3>2
  <2>9. QED
    BY <2>4, <2>6, <2>7, <2>8
<1>14. splitURL(url) = t6
  BY <1>6
<1> DEFINE items == <<host, port, user, password, baseDn, flags>>
<1>15. parseURL(t6) = UrlOf(items)
  <2> HIDE DEF t6
  <2>1. Len(items) = 6
    OBVIOUS
  <2> HIDE DEF items
  <2>2. Items(t6) = items
    BY <1>12 DEF items
  <2>3. QED
    BY <1>13, <2>1, <2>2 DEF parseURL
<1>16. UrlOf(items) = [host |-> url.host, port |-> url.port, user |-> url.user,
                       password |-> url.password, baseDn |-> url.baseDn, flags |-> url.flags]
  <2>1. PortOf(port) = url.port
    BY <1>4 DEF port
  <2>2. QED
    BY <1>5, <2>1 DEF UrlOf
<1>17. url = [host |-> url.host, port |-> url.port, user |-> url.user,
              password |-> url.password, baseDn |-> url.baseDn, flags |-> url.flags]
  BY <1>3 DEF Readable
<1>18. QED
  BY <1>14, <1>15, <1>16, <1>17

------------------------------------------------------------------------------
(* The options of a component, and what an entry is asked for.             *)

NamesOf(options) == {options[i].name : i \in DOMAIN options}

\* What an option makes of the groups that were read before, in setComponent().
Read(acc, o) ==
  IF o.group
  THEN [groups |-> acc.groups \cup acc.current, current |-> {{}}]
  ELSE [acc EXCEPT !.current = {entries \cup {o.name} : entries \in @}]

ReadTypes(names) == [groups : SUBSET (SUBSET names), current : SUBSET (SUBSET names)]

NothingRead == [groups |-> {}, current |-> {}]

AllRead(options) == FoldLeft(LAMBDA acc, o :
                         IF o.group
                         THEN [groups |-> acc.groups \cup acc.current, current |-> {{}}]
                         ELSE [acc EXCEPT !.current = {entries \cup {o.name} : entries \in @}],
                       [groups |-> {}, current |-> {}], options)

LEMMA ReadType ==
  ASSUME NEW names, NEW acc \in ReadTypes(names), NEW o, o.name \in names
  PROVE  Read(acc, o) \in ReadTypes(names)
<1>1. acc.groups \subseteq SUBSET names /\ acc.current \subseteq SUBSET names
  BY DEF ReadTypes
<1>2. acc.groups \cup acc.current \subseteq SUBSET names /\ {{}} \subseteq SUBSET names
  BY <1>1
<1>3. {entries \cup {o.name} : entries \in acc.current} \subseteq SUBSET names
  BY <1>1
<1>4. QED
  BY <1>2, <1>3 DEF Read, ReadTypes

\* An entry is found in a component that lists an option of its name.
LEMMA GroupsHaveNames ==
  ASSUME NEW S, NEW options \in Seq(S)
  PROVE  UNION setComponent(options) \subseteq NamesOf(options)
<1> DEFINE n == Len(options)
           A == ReadTypes(NamesOf(options))
           base == NothingRead
           step == [p \in A \X (1..n) |-> Read(p[1], options[p[2]])]
           Is(h) == h = [s \in SUBSET (1..n) |->
                           IF s = {} THEN [groups |-> {}, current |-> {}]
                           ELSE Read(h[s \ {Max(s)}], options[Max(s)])]
<1>1. n \in Nat /\ DOMAIN options = 1..n /\ \A i \in 1..n : options[i].name \in NamesOf(options)
  BY DEF NamesOf
<1>2. AllRead(options) = (CHOOSE h : Is(h))[1..n]
  BY <1>1 DEF AllRead, FoldLeft, MapThenFoldSet, Read
<1>3. base \in A /\ step \in [A \X (1..n) -> A]
  <2>1. base \in A
    BY DEF ReadTypes, NothingRead
  <2>2. QED
    BY <1>1, <2>1, ReadType
<1>4. \A a \in A, i \in 1..n : step[<<a, i>>] = Read(a, options[i])
  OBVIOUS
<1> HIDE DEF A, step, n
<1>5. PICK h : Folds(A, step, base, n, h)
  BY <1>1, <1>3, FoldExists
<1>6. Is(h)
  <2>1. ASSUME NEW s \in SUBSET (1..n)
        PROVE  h[s] = IF s = {} THEN base ELSE Read(h[s \ {Max(s)}], options[Max(s)])
    <3>1. s # {} => Max(s) \in 1..n /\ h[s \ {Max(s)}] \in A
      BY <1>1, <1>5, GreatestIn DEF Folds
    <3> HIDE DEF base
    <3>2. QED
      BY <1>4, <1>5, <3>1 DEF Folds, FoldStep
  <2>2. h = [s \in SUBSET (1..n) |-> h[s]]
    BY <1>5 DEF Folds
  <2>3. QED
    BY <2>1, <2>2 DEF NothingRead
<1>7. PICK f : Is(f) /\ f = (CHOOSE k : Is(k))
  <2> HIDE DEF Is
  <2>1. QED
    BY <1>6
<1>8. Follows(A, step, base, n, f)
  <2>1. \A s \in SUBSET (1..n) : s # {} => Max(s) \in 1..n
    BY <1>1, GreatestIn
  <2>2. f[{}] = base
    BY <1>7 DEF NothingRead
  <2>3. \A s \in SUBSET (1..n) : s # {} => f[s] = Read(f[s \ {Max(s)}], options[Max(s)])
    BY <1>7
  <2> HIDE DEF Is, base
  <2>4. QED
    BY <1>1, <1>3, <1>4, <2>1, <2>2, <2>3 DEF Follows
<1> HIDE DEF Is, base
<1>9. PICK g : Steps(A, step, base, n, g) /\ g[n] = f[1..n]
  BY ONLY <1>8, FoldSteps
<1>10. AllRead(options) \in A
  <2>1. n \in 0..n
    BY <1>1
  <2>2. QED
    BY <1>2, <1>7, <1>9, <2>1 DEF Steps
<1>11. setComponent(options) = AllRead(options).groups \cup AllRead(options).current
  BY DEF setComponent, AllRead
<1>12. QED
  BY <1>10, <1>11 DEF A, ReadTypes

\* Which options have a default: one of a text and one of a number.
LEMMA Defaults ==
  ASSUME NEW e \in Entries
  PROVE  \/ DefaultOf[e] = <<>>
         \/ DefaultOf[e] = <<<<"gnupg">>>> /\ ArgType[e] = "String"
         \/ DefaultOf[e] = <<15>> /\ ArgType[e] = "UInt"
<1> DEFINE gpg == Components["gpg"]  dirmngr == Components["dirmngr"]  c == ComponentOf[e]
<1>1. DOMAIN Components = {"gpg", "dirmngr"}
  BY DEF Components
<1>2. c \in DOMAIN Components /\ e \in Found[c]
  BY DEF Entries, ComponentOf
<1>3. \E S : Components[c] \in Seq(S)
  <2>1. CASE c = "gpg"
    <3>1. Components[c] \in Seq({gpg[1], gpg[2], gpg[3], gpg[4], gpg[5], gpg[6]})
      BY <2>1 DEF Components
    <3>2. QED
      BY <3>1
  <2>2. CASE c = "dirmngr"
    <3>1. Components[c] \in Seq({dirmngr[1], dirmngr[2], dirmngr[3]})
      BY <2>2 DEF Components
    <3>2. QED
      BY <3>1
  <2>3. QED
    BY <1>1, <1>2, <2>1, <2>2
<1>4. e \in NamesOf(Components[c])
  <2>1. Found[c] = UNION setComponent(Components[c])
    BY <1>2 DEF Found, groupList
  <2>2. QED
    BY <1>2, <1>3, <2>1, GroupsHaveNames
<1>5. /\ DOMAIN gpg = 1..6
      /\ gpg[1].name = "Monitor" /\ gpg[2].name = "verbose" /\ gpg[3].name = "log-file"
      /\ gpg[4].name = "Configuration" /\ gpg[5].name = "compliance" /\ gpg[6].name = "disable-dirmngr"
      /\ gpg[5].type = 1
  BY DEF Components, Group, Option
<1>6. /\ DOMAIN dirmngr = 1..3
      /\ dirmngr[1].name = "Configuration" /\ dirmngr[2].name = "ldapserver"
      /\ dirmngr[3].name = "ldaptimeout" /\ dirmngr[3].type = 3
  BY DEF Components, Group, Option
<1>7. TypeOf[e] = Components[c][CHOOSE i \in DOMAIN Components[c] : Components[c][i].name = e].type
  BY DEF TypeOf
<1>8. ArgType[e] = CASE TypeOf[e] = 0 -> "None" [] TypeOf[e] = 1 -> "String"
                     [] TypeOf[e] = 2 -> "Int" [] TypeOf[e] = 3 -> "UInt"
                     [] TypeOf[e] = 32 -> "Path" [] TypeOf[e] = 33 -> "LDAPURL"
  BY DEF ArgType
<1> HIDE DEF gpg, dirmngr, c
<1>9. c = "gpg" \/ c = "dirmngr"
  BY <1>1, <1>2
<1>10. CASE e = "compliance"
  <2>1. \A i \in 1..3 : i = 1 \/ i = 2 \/ i = 3
    OBVIOUS
  <2>2. c = "gpg"
    BY <1>4, <1>6, <1>9, <1>10, <2>1 DEF NamesOf, dirmngr
  <2>3. \A i \in 1..6 : gpg[i].name = e => i = 5
    <3>1. \A i \in 1..6 : i = 1 \/ i = 2 \/ i = 3 \/ i = 4 \/ i = 5 \/ i = 6
      OBVIOUS
    <3>2. QED
      BY <1>5, <1>10, <3>1
  <2>4. (CHOOSE i \in 1..6 : gpg[i].name = e) = 5
    BY <1>5, <1>10, <2>3
  <2>5. TypeOf[e] = 1
    BY <1>5, <1>7, <2>2, <2>4 DEF gpg
  <2>6. ArgType[e] = "String"
    BY <1>8, <2>5
  <2>7. DefaultOf[e] = <<<<"gnupg">>>>
    BY <1>10 DEF DefaultOf
  <2>8. QED
    BY <2>6, <2>7
<1>11. CASE e = "ldaptimeout"
  <2>1. \A i \in 1..6 : i = 1 \/ i = 2 \/ i = 3 \/ i = 4 \/ i = 5 \/ i = 6
    OBVIOUS
  <2>2. c = "dirmngr"
    BY <1>4, <1>5, <1>9, <1>11, <2>1 DEF NamesOf, gpg
  <2>3. \A i \in 1..3 : dirmngr[i].name = e => i = 3
    <3>1. \A i \in 1..3 : i = 1 \/ i = 2 \/ i = 3
      OBVIOUS
    <3>2. QED
      BY <1>6, <1>11, <3>1
  <2>4. (CHOOSE i \in 1..3 : dirmngr[i].name = e) = 3
    BY <1>6, <1>11, <2>3
  <2>5. TypeOf[e] = 3
    BY <1>6, <1>7, <2>2, <2>4 DEF dirmngr
  <2>6. ArgType[e] = "UInt"
    BY <1>8, <2>5
  <2>7. DefaultOf[e] = <<15>>
    BY <1>11 DEF DefaultOf
  <2>8. QED
    BY <2>6, <2>7
<1>12. CASE e # "compliance" /\ e # "ldaptimeout"
  BY <1>12 DEF DefaultOf
<1>13. QED
  BY <1>10, <1>11, <1>12

\* What SavedIsReadBack says of one entry: with these values it shows what it was set to.
Reads(e, view, values) ==
  CASE view = None -> TRUE
    [] view = Default -> defaultValue(e) \in {None, View(e, values)}
    [] OTHER -> View(e, values) = view

\* It is enough that an entry shows what it was set to, unless that is mistaken for a reset.
LEMMA ReadsView ==
  ASSUME NEW e \in Entries, NEW view, NEW values, View(e, values) = view,
         view = Default => DefaultOf[e] = <<>>
  PROVE  Reads(e, view, values)
<1>1. DefaultOf[e] = <<>> => defaultValue(e) = None
  BY DEF defaultValue
<1> HIDE DEF View, defaultValue
<1>2. CASE view = None
  BY <1>2, DefaultAssumption DEF Reads
<1>3. CASE view # None /\ view = Default
  BY <1>1, <1>3 DEF Reads
<1>4. CASE view # None /\ view # Default
  BY <1>4 DEF Reads
<1>5. QED
  BY <1>2, <1>3, <1>4

LEMMA ReadsDefault ==
  ASSUME NEW e \in Entries
  PROVE  Reads(e, Default, Unset)
<1>1. defaultValue(e) \in {None, View(e, Unset)}
  <2>1. currentValue(e, Unset) = DefaultOf[e]
    BY DEF currentValue
  <2>2. CASE DefaultOf[e] = <<>>
    BY <2>2 DEF defaultValue
  <2>3. CASE DefaultOf[e] = <<<<"gnupg">>>> /\ ArgType[e] = "String"
    <3>1. <<<<"gnupg">>>> # <<>> /\ Len(<<<<"gnupg">>>>) = 1 /\ <<<<"gnupg">>>>[1] = <<"gnupg">>
      OBVIOUS
    <3>2. defaultValue(e) = <<"gnupg">>
      BY <2>3, <3>1 DEF defaultValue
    <3>3. View(e, Unset) = <<"gnupg">>
      BY <2>1, <2>3, <3>1 DEF View, stringValue, First
    <3>4. QED
      BY <3>2, <3>3
  <2>4. CASE DefaultOf[e] = <<15>> /\ ArgType[e] = "UInt"
    <3>1. <<15>> # <<>> /\ Len(<<15>>) = 1 /\ <<15>>[1] = 15
      OBVIOUS
    <3>2. defaultValue(e) = 15
      BY <2>4, <3>1 DEF defaultValue
    <3>3. View(e, Unset) = 15
      BY <2>1, <2>4, <3>1 DEF View, uintValue, First
    <3>4. QED
      BY <3>2, <3>3
  <2>5. QED
    BY <2>2, <2>3, <2>4, Defaults
<1>2. QED
  BY <1>1, DefaultAssumption DEF Reads

\* The setters.
LEMMA ReadsBool ==
  ASSUME NEW e \in OfType({"None"}) \ Lists, NEW b \in BOOLEAN
  PROVE  Reads(e, b, IF b THEN <<1>> ELSE Unset)
<1>1. e \in Entries /\ ArgType[e] = "None"
  BY DEF OfType
<1>2. DefaultOf[e] = <<>>
  BY <1>1, Defaults
<1>3. ASSUME NEW values PROVE View(e, values) = boolValue(currentValue(e, values))
  BY <1>1 DEF View
<1>4. <<1>> # <<>>
  OBVIOUS
<1>5. View(e, IF b THEN <<1>> ELSE Unset) = b
  BY <1>2, <1>3, <1>4 DEF currentValue, boolValue, Unset
<1>6. QED
  BY <1>1, <1>2, <1>5, ReadsView

LEMMA ReadsNumberOfTimesSet ==
  ASSUME NEW e \in OfType({"None"}) \cap Lists, NEW n \in 0..MaxNumber
  PROVE  Reads(e, n, IF n > 0 THEN <<n>> ELSE Unset)
<1>1. e \in Entries /\ ArgType[e] = "None"
  BY DEF OfType
<1>2. DefaultOf[e] = <<>>
  BY <1>1, Defaults
<1>3. ASSUME NEW values PROVE View(e, values) = numberOfTimesSet(currentValue(e, values))
  BY <1>1 DEF View
<1>4. <<n>> # <<>> /\ <<n>>[1] = n
  OBVIOUS
<1>5. ~(n > 0) => n = 0
  BY InputAssumption
<1>6. View(e, IF n > 0 THEN <<n>> ELSE Unset) = n
  BY <1>2, <1>3, <1>4, <1>5 DEF currentValue, numberOfTimesSet, First, Unset
<1>7. QED
  BY <1>1, <1>2, <1>6, ReadsView

LEMMA ReadsUInt ==
  ASSUME NEW e \in OfType({"Int", "UInt"}) \ Lists, NEW n \in 0..MaxNumber
  PROVE  Reads(e, n, <<n>>)
<1>1. e \in Entries /\ ArgType[e] \in {"Int", "UInt"}
  BY DEF OfType
<1>2. View(e, <<n>>) = uintValue(currentValue(e, <<n>>))
  BY <1>1 DEF View
<1>3. <<n>> # <<>> /\ <<n>>[1] = n
  OBVIOUS
<1>4. View(e, <<n>>) = n
  BY <1>2, <1>3 DEF currentValue, uintValue, First, Unset
<1>5. QED
  BY <1>1, <1>4, DefaultAssumption, ReadsView

LEMMA ReadsText ==
  ASSUME NEW e \in OfType({"String", "Path"}), NEW text \in Texts
  PROVE  /\ Reads(e, IF TextArgument(e, text) = Unset THEN Default ELSE text, TextArgument(e, text))
         /\ e \notin Optional => TextArgument(e, text) # <<<<>>>>
<1>1. e \in Entries /\ ArgType[e] \in {"String", "Path"}
  BY DEF OfType
<1>2. <<text>> # <<>> /\ <<text>>[1] = text /\ (<<text>> = <<<<>>>> => text = <<>>) /\ <<>> # <<<<>>>>
  OBVIOUS
<1>3. CASE text = <<>> /\ e \notin Optional
  BY <1>1, <1>2, <1>3, ReadsDefault DEF TextArgument, Unset
<1>4. CASE ~(text = <<>> /\ e \notin Optional)
  <2>1. TextArgument(e, text) = <<text>> /\ TextArgument(e, text) # Unset
    BY <1>2, <1>4 DEF TextArgument, Unset
  <2>2. \/ View(e, <<text>>) = stringValue(currentValue(e, <<text>>))
        \/ View(e, <<text>>) = urlValue(currentValue(e, <<text>>))
    BY <1>1 DEF View
  <2>3. View(e, <<text>>) = text
    BY <1>2, <2>2 DEF currentValue, stringValue, urlValue, First, Unset
  <2>4. QED
    BY <1>1, <1>2, <1>4, <2>1, <2>3, DefaultAssumption, ReadsView
<1>5. QED
  BY <1>3, <1>4

LEMMA ReadsUrls ==
  ASSUME NEW e \in OfType({"LDAPURL"}), NEW urls \in ServerLists
  PROVE  Reads(e, urls, [i \in DOMAIN urls |-> splitURL(urls[i])])
<1> DEFINE values == [i \in DOMAIN urls |-> splitURL(urls[i])]
<1>1. e \in Entries /\ ArgType[e] = "LDAPURL"
  BY DEF OfType
<1>2. DefaultOf[e] = <<>>
  BY <1>1, Defaults
<1>3. PICK n \in Nat : urls \in [1..n -> Urls]
  BY InputAssumption DEF ServerLists
<1>4. DOMAIN values = 1..n /\ \A i \in 1..n : values[i] = splitURL(urls[i]) /\ urls[i] \in Urls
  BY <1>3
<1> HIDE DEF values
<1>5. DOMAIN currentValue(e, values) = 1..n /\ \A i \in 1..n : currentValue(e, values)[i] = values[i]
  BY <1>2, <1>4 DEF currentValue, Unset
<1>6. View(e, values) = urlValueList(currentValue(e, values))
  BY <1>1 DEF View
<1>7. \A i \in 1..n : parseURL(values[i]) = urls[i]
  BY <1>4, UrlsAssumption, ParsedAsSplit
<1>8. urlValueList(currentValue(e, values)) = [i \in 1..n |-> urls[i]]
  BY <1>5, <1>7 DEF urlValueList
<1>9. View(e, values) = urls
  BY <1>3, <1>6, <1>8
<1>10. QED
  BY <1>1, <1>2, <1>9, ReadsView DEF values

------------------------------------------------------------------------------
(* What the application has set and saved.                                 *)

\* Both what is in memory and what is in the files of gpgconf shows what the application
\* asked for, and no argument is missing.
ViewInv ==
  /\ used \subseteq Entries
  /\ DOMAIN memory = Entries /\ DOMAIN stored = Entries
  /\ DOMAIN asked = Entries /\ DOMAIN saved = Entries
  /\ \A e \in Entries : Reads(e, asked[e], memory[e]) /\ Reads(e, saved[e], stored[e])
  /\ \A e \in OfType({"String", "Path"}) \ Optional : memory[e] # <<<<>>>> /\ stored[e] # <<<<>>>>

LEMMA InitViewInv == Init => ViewInv
<1> SUFFICES ASSUME Init PROVE ViewInv
  OBVIOUS
<1>1. \A e \in Entries : Reads(e, None, Unset)
  BY DefaultAssumption DEF Reads
<1>2. OfType({"String", "Path"}) \subseteq Entries /\ Unset # <<<<>>>>
  BY DEF OfType, Unset
<1> HIDE DEF Reads, OfType
<1>3. used \subseteq Entries
  BY DEF Init
<1>4. QED
  BY <1>1, <1>2, <1>3 DEF Init, ViewInv

\* An entry is set.
LEMMA SetKeepsViews ==
  ASSUME ViewInv, UNCHANGED used,
         NEW e \in Entries, NEW view, NEW values, SetNewValue(e, view, values),
         Reads(e, view, values),
         e \in OfType({"String", "Path"}) \ Optional => values # <<<<>>>>
  PROVE  ViewInv'
<1>1. /\ memory' = [memory EXCEPT ![e] = values] /\ asked' = [asked EXCEPT ![e] = view]
      /\ UNCHANGED <<stored, saved>>
  BY DEF SetNewValue, fileVars
<1>2. OfType({"String", "Path"}) \subseteq Entries
  BY DEF OfType
<1>3. \A f \in Entries : /\ memory'[f] = IF f = e THEN values ELSE memory[f]
                         /\ asked'[f] = IF f = e THEN view ELSE asked[f]
  BY <1>1 DEF ViewInv
<1>4. \A f \in Entries : Reads(f, asked'[f], memory'[f])
  BY <1>3 DEF ViewInv
<1>5. \A f \in OfType({"String", "Path"}) \ Optional : memory'[f] # <<<<>>>>
  BY <1>2, <1>3 DEF ViewInv
<1>6. (\A f \in Entries : Reads(f, asked[f], memory[f]))' <=> \A f \in Entries : Reads(f, asked'[f], memory'[f])
  OBVIOUS
<1>7. QED
  BY <1>1, <1>4, <1>5, <1>6 DEF ViewInv

\* The entries are loaded, or forgotten.
LEMMA ForgetKeepsViews ==
  ASSUME ViewInv, UNCHANGED <<used, stored, saved>>, NEW values, NEW loaded,
         Forget(values, loaded), values = stored \/ values = [e \in Entries |-> Unset]
  PROVE  ViewInv'
<1>1. memory' = values /\ asked' = [e \in Entries |-> None]
  BY DEF Forget
<1>2. \A e \in Entries : Reads(e, asked'[e], memory'[e])
  BY <1>1, DefaultAssumption DEF Reads
<1>3. OfType({"String", "Path"}) \subseteq Entries /\ Unset # <<<<>>>>
  BY DEF OfType, Unset
<1>4. DOMAIN memory' = Entries /\ DOMAIN asked' = Entries
  BY <1>1 DEF ViewInv
<1>5. \A e \in OfType({"String", "Path"}) \ Optional : memory'[e] # <<<<>>>>
  BY <1>1, <1>3 DEF ViewInv
<1>6. QED
  BY <1>2, <1>4, <1>5 DEF ViewInv

LEMMA ComponentKeepsViews ==
  ASSUME ViewInv, UNCHANGED <<used, fileVars>>, Component
  PROVE  ViewInv'
<1>1. CASE UNCHANGED memoryVars
  BY <1>1 DEF memoryVars, fileVars, ViewInv
<1>2. CASE ReloadConfiguration
  BY <1>2, ForgetKeepsViews DEF ReloadConfiguration, fileVars
<1>3. QED
  BY <1>1, <1>2 DEF Component

\* Every step keeps the views.
LEMMA NextViewInv == ViewInv /\ [Next]_vars => ViewInv'
<1> SUFFICES ASSUME ViewInv, [Next]_vars PROVE ViewInv'
  OBVIOUS
<1>0. CASE UNCHANGED vars
  BY <1>0 DEF vars, fileVars, memoryVars, ViewInv
<1> SUFFICES ASSUME Next PROVE ViewInv'
  BY <1>0
<1>1. UNCHANGED used
  BY DEF Next
<1>2. ASSUME NEW e \in used, Change(e) PROVE ViewInv'
  <2>1. e \in Entries
    BY DEF ViewInv
  <2>2. CASE GetEntry(e)
    BY <1>1, <2>2, ComponentKeepsViews DEF GetEntry
  <2>3. CASE ResetToDefault(e)
    <3>1. Unset # <<<<>>>>
      BY DEF Unset
    <3>2. QED
      BY <1>1, <2>1, <2>3, <3>1, ReadsDefault, SetKeepsViews DEF ResetToDefault
  <2>4. ASSUME NEW b \in BOOLEAN, SetBoolValue(e, b) PROVE ViewInv'
    <3>1. e \in OfType({"None"}) \ Lists /\ SetNewValue(e, b, IF b THEN <<1>> ELSE Unset)
      BY <2>4 DEF SetBoolValue
    <3>2. e \notin OfType({"String", "Path"})
      BY <3>1 DEF OfType
    <3>3. QED
      BY <1>1, <2>1, <3>1, <3>2, ReadsBool, SetKeepsViews
  <2>5. ASSUME NEW n \in 0..MaxNumber, SetNumberOfTimesSet(e, n) PROVE ViewInv'
    <3>1. e \in OfType({"None"}) \cap Lists /\ SetNewValue(e, n, IF n > 0 THEN <<n>> ELSE Unset)
      BY <2>5 DEF SetNumberOfTimesSet
    <3>2. e \notin OfType({"String", "Path"})
      BY <3>1 DEF OfType
    <3>3. QED
      BY <1>1, <2>1, <3>1, <3>2, ReadsNumberOfTimesSet, SetKeepsViews
  <2>6. ASSUME NEW n \in 0..MaxNumber, SetUIntValue(e, n) PROVE ViewInv'
    <3>1. e \in OfType({"Int", "UInt"}) \ Lists /\ SetNewValue(e, n, <<n>>)
      BY <2>6 DEF SetUIntValue
    <3>2. e \notin OfType({"String", "Path"})
      BY <3>1 DEF OfType
    <3>3. QED
      BY <1>1, <2>1, <3>1, <3>2, ReadsUInt, SetKeepsViews
  <2>7. ASSUME NEW text \in Texts, SetStringValue(e, text) \/ SetURLValue(e, text) PROVE ViewInv'
    <3>1. e \in OfType({"String", "Path"}) /\ SetText(e, text)
      BY <2>7 DEF SetStringValue, SetURLValue, OfType
    <3>2. QED
      BY <1>1, <2>1, <3>1, ReadsText, SetKeepsViews DEF SetText
  <2>8. ASSUME NEW urls \in ServerLists, SetURLValueList(e, urls) PROVE ViewInv'
    <3>1. /\ e \in OfType({"LDAPURL"})
          /\ SetNewValue(e, urls, [i \in DOMAIN urls |-> splitURL(urls[i])])
      BY <2>8 DEF SetURLValueList
    <3>2. e \notin OfType({"String", "Path"})
      BY <3>1 DEF OfType
    <3>3. QED
      BY <1>1, <2>1, <3>1, <3>2, ReadsUrls, SetKeepsViews
  <2>9. QED
    BY <1>2, <2>2, <2>3, <2>4, <2>5, <2>6, <2>7, <2>8 DEF Change
<1>3. CASE ComponentList
  BY <1>1, <1>3, ComponentKeepsViews DEF ComponentList
<1>4. CASE Sync
  <2>1. PICK ok : /\ stored' = [e \in Entries |-> IF e \in ok THEN memory[e] ELSE stored[e]]
                  /\ saved' = [e \in Entries |-> IF e \in ok THEN asked[e] ELSE saved[e]]
    BY <1>4 DEF Sync
  <2>2. UNCHANGED <<memory, asked>>
    BY <1>4 DEF Sync
  <2>3. \A e \in Entries : /\ Reads(e, saved'[e], stored'[e])
                           /\ Reads(e, asked'[e], memory'[e])
    BY <2>1, <2>2 DEF ViewInv
  <2>4. OfType({"String", "Path"}) \subseteq Entries
    BY DEF OfType
  <2>5. \A e \in OfType({"String", "Path"}) \ Optional : memory'[e] # <<<<>>>> /\ stored'[e] # <<<<>>>>
    BY <2>1, <2>2, <2>4 DEF ViewInv
  <2>6. QED
    BY <1>1, <2>1, <2>2, <2>3, <2>5 DEF ViewInv
<1>5. CASE ApplicationClears
  <2>1. UNCHANGED <<stored, saved>>
    BY <1>5 DEF ApplicationClears, fileVars
  <2>2. Forget([e \in Entries |-> Unset], FALSE)
    BY <1>5 DEF ApplicationClears
  <2>3. QED
    BY <1>1, <2>1, <2>2, ForgetKeepsViews
<1>6. CASE OthersChange
  <2> DEFINE server == <<<<Ldap, Colon, "x", Colon, Colon, Colon, Colon, "x">>>>
  <2>1. /\ stored' = [stored EXCEPT !["ldapserver"] = server]
        /\ saved' = [saved EXCEPT !["ldapserver"] = None]
        /\ UNCHANGED <<memory, asked>>
    BY <1>6 DEF OthersChange, memoryVars
  <2>2. server # <<<<>>>>
    OBVIOUS
  <2> HIDE DEF server
  <2>3. \A e \in Entries : /\ stored'[e] = IF e = "ldapserver" THEN server ELSE stored[e]
                           /\ saved'[e] = IF e = "ldapserver" THEN None ELSE saved[e]
    BY <2>1 DEF ViewInv
  <2>4. \A e \in Entries : \A values : Reads(e, None, values)
    BY DefaultAssumption DEF Reads
  <2>5. \A e \in Entries : Reads(e, saved'[e], stored'[e]) /\ Reads(e, asked'[e], memory'[e])
    BY <2>1, <2>3, <2>4 DEF ViewInv
  <2>6. OfType({"String", "Path"}) \subseteq Entries
    BY DEF OfType
  <2>7. \A e \in OfType({"String", "Path"}) \ Optional : memory'[e] # <<<<>>>> /\ stored'[e] # <<<<>>>>
    BY <2>1, <2>2, <2>3, <2>6 DEF ViewInv
  <2>8. QED
    BY <1>1, <2>1, <2>5, <2>7 DEF ViewInv
<1>7. ASSUME NEW w \in Lookups, LookupGetsEntry(w) \/ LookupExecuted(w) PROVE ViewInv'
  BY <1>1, <1>7, ComponentKeepsViews DEF LookupGetsEntry, LookupExecuted
<1>8. ASSUME NEW w \in Lookups, LookupReadsEntry(w) PROVE ViewInv'
  BY <1>1, <1>8 DEF LookupReadsEntry, fileVars, memoryVars, ViewInv
<1>9. QED
  BY <1>2, <1>3, <1>4, <1>5, <1>6, <1>7, <1>8 DEF Next

\* What the application has set and saved is read back, for any texts, numbers and
\* servers, and nothing it sets makes gpgconf refuse a component.
THEOREM SavedReadBack == Spec => []SavedIsReadBack
<1>1. Spec => []ViewInv
  BY InitViewInv, NextViewInv, PTL DEF Spec
<1>2. ViewInv => SavedIsReadBack
  <2> SUFFICES ASSUME ViewInv PROVE SavedIsReadBack
    OBVIOUS
  <2>1. \A e \in Entries : CASE saved[e] = None -> TRUE
                             [] saved[e] = Default -> defaultValue(e) \in {None, View(e, stored[e])}
                             [] OTHER -> View(e, stored[e]) = saved[e]
    BY DEF ViewInv, Reads
  <2>2. ASSUME NEW c \in DOMAIN Components PROVE ~Refused(c)
    BY DEF ViewInv, Refused
  <2>3. QED
    BY <2>1, <2>2 DEF SavedIsReadBack
<1>3. QED
  BY <1>1, <1>2, PTL
==============================================================================
