----------------------- MODULE CircularBufferTheorems -----------------------
(***************************************************************************)
(* Facts about the operators the models of the driver are built from: sums *)
(* of sizes, concatenations, and the functions of aesd-circular-buffer.c,  *)
(* for every number of slots N.                                            *)
(***************************************************************************)
EXTENDS CircularBuffer, SequencesExt, SequenceTheorems, WellFoundedInduction, TLAPS

(***************************************************************************)
(* Induction.  A set of natural numbers has a least element; a claim about *)
(* all numbers is proved by looking at the least one that violates it.     *)
(***************************************************************************)
LEMMA LeastNat ==
  ASSUME NEW T \in SUBSET Nat, T # {}
  PROVE  \E m \in T : \A k \in T : m <= k
<1>. DEFINE R == {ss \in Nat \X Nat : ss[1] < ss[2]}
<1>1. IsWellFoundedOn(R, Nat)
  BY NatLessThanWellFounded DEF OpToRel
<1>. HIDE DEF R
<1>2. PICK x \in T : \A y \in T : ~(<<y, x>> \in R)
  BY <1>1, WFMin
<1>3. \A y \in T : ~(y < x)
  BY <1>2 DEF R
<1>. QED  BY <1>3

(***************************************************************************)
(* Sums, as the loops of main.c and aesd-circular-buffer.c build them up.  *)
(* First, there is a function that satisfies the recursion in SumBelow.    *)
(***************************************************************************)
LEMMA SumExists ==
  ASSUME NEW f \in [Slots -> Nat]
  PROVE  \E sum \in [0 .. N -> Nat] :
           sum = [k \in 0 .. N |-> IF k = 0 THEN 0 ELSE sum[k - 1] + f[k - 1]]
<1>. DEFINE Good(m, g) == /\ g \in [0 .. m -> Nat]
                          /\ g[0] = 0
                          /\ \A k \in 1 .. m : g[k] = g[k - 1] + f[k - 1]
            T == {m \in 0 .. N : ~ \E g : Good(m, g)}
<1>1. N \in Nat
  BY NAssumption
<1>2. T = {}
  <2>1. SUFFICES ASSUME T # {} PROVE FALSE
    OBVIOUS
  <2>2. PICK m \in T : \A k \in T : m <= k
    <3>1. T \in SUBSET Nat
      BY <1>1
    <3>. HIDE DEF T
    <3>. QED  BY <2>1, <3>1, LeastNat
  <2>3. CASE m = 0
    <3>1. Good(0, [k \in 0 .. 0 |-> 0])
      OBVIOUS
    <3>. QED  BY <2>3, <3>1
  <2>4. CASE m # 0
    <3>1. m \in 1 .. N /\ m - 1 \in 0 .. N /\ m - 1 \in Nat
      BY <1>1, <2>4
    <3>2. PICK g : Good(m - 1, g)
      BY <2>2, <3>1
    <3>. DEFINE h == [k \in 0 .. m |-> IF k < m THEN g[k] ELSE g[m - 1] + f[m - 1]]
    <3>3. f[m - 1] \in Nat /\ g[m - 1] \in Nat
      BY <1>1, <3>1, <3>2 DEF Slots
    <3>4. h \in [0 .. m -> Nat] /\ h[0] = 0
      BY <3>1, <3>2, <3>3
    <3>5. \A k \in 1 .. m : h[k] = h[k - 1] + f[k - 1]
      BY <3>1, <3>2, <3>3
    <3>. QED  BY <3>4, <3>5, <2>2
  <2>. QED  BY <2>3, <2>4
<1>3. PICK g : Good(N, g)
  BY <1>1, <1>2
<1>4. g = [k \in 0 .. N |-> IF k = 0 THEN 0 ELSE g[k - 1] + f[k - 1]]
  BY <1>1, <1>3
<1>. QED  BY <1>3, <1>4

\* SumBelow satisfies it.
LEMMA SumBelowRec ==
  ASSUME NEW f \in [Slots -> Nat]
  PROVE  /\ SumBelow(f, 0) = 0
         /\ \A j \in 1 .. N : SumBelow(f, j) = SumBelow(f, j - 1) + f[j - 1]
<1>. DEFINE s == CHOOSE sum : sum = [k \in 0 .. N |-> IF k = 0 THEN 0 ELSE sum[k - 1] + f[k - 1]]
<1>1. s = [k \in 0 .. N |-> IF k = 0 THEN 0 ELSE s[k - 1] + f[k - 1]]
  BY SumExists
<1>2. \A j : SumBelow(f, j) = s[j]
  BY DEF SumBelow
<1>3. N \in Nat
  BY NAssumption
<1>. HIDE DEF s
<1>4. s[0] = 0
  BY <1>1, <1>3
<1>5. \A j \in 1 .. N : s[j] = s[j - 1] + f[j - 1]
  BY <1>1, <1>3
<1>. QED  BY <1>2, <1>4, <1>5

\* A sum of sizes is a natural number.
LEMMA SumBelowNat ==
  ASSUME NEW f \in [Slots -> Nat]
  PROVE  \A j \in 0 .. N : SumBelow(f, j) \in Nat
<1>. DEFINE T == {m \in 0 .. N : SumBelow(f, m) \notin Nat}
<1>1. SUFFICES ASSUME T # {} PROVE FALSE
  OBVIOUS
<1>2. N \in Nat
  BY NAssumption
<1>3. PICK m \in T : \A k \in T : m <= k
  <2>1. T \in SUBSET Nat
    BY <1>2
  <2>. HIDE DEF T
  <2>. QED  BY <1>1, <2>1, LeastNat
<1>4. m # 0
  BY <1>3, SumBelowRec
<1>5. m \in 1 .. N /\ m - 1 \in 0 .. N /\ f[m - 1] \in Nat
  BY <1>2, <1>4 DEF Slots
<1>6. SumBelow(f, m - 1) \in Nat
  BY <1>2, <1>3, <1>5
<1>. QED  BY <1>5, <1>6, SumBelowRec

(***************************************************************************)
(* Concatenations.                                                         *)
(***************************************************************************)
\* g[i] is the concatenation of the first i elements of s, for i up to n.
Glued(s, n, g) == g[1] = s[1] /\ \A i \in 2 .. n : g[i] = g[i - 1] \o s[i]

\* There is such a function, with the recursion that FlattenSeq uses.
LEMMA GluedExists ==
  ASSUME NEW s, NEW n \in Nat
  PROVE  \E g : g = [i \in 1 .. n |-> IF i = 1 THEN s[i] ELSE g[i - 1] \o s[i]]
<1>. DEFINE cat(x, y) == x \o y
            Good(m, g) == g = [i \in 1 .. m |-> IF i = 1 THEN s[i] ELSE cat(g[i - 1], s[i])]
            T == {m \in 0 .. n : ~ \E g : Good(m, g)}
<1>. HIDE DEF cat
<1>1. T = {}
  <2>1. SUFFICES ASSUME T # {} PROVE FALSE
    OBVIOUS
  <2>2. PICK m \in T : \A k \in T : m <= k
    <3>1. T \in SUBSET Nat
      OBVIOUS
    <3>. HIDE DEF T
    <3>. QED  BY <2>1, <3>1, LeastNat
  <2>3. CASE m = 0
    <3>1. Good(0, [i \in 1 .. 0 |-> i])
      OBVIOUS
    <3>. QED  BY <2>3, <3>1
  <2>4. CASE m # 0
    <3>1. m \in 1 .. n /\ m - 1 \in 0 .. n /\ m - 1 \in Nat
      BY <2>4
    <3>2. PICK g : Good(m - 1, g)
      <4>1. m - 1 \notin T
        <5>. HIDE DEF T
        <5>. QED  BY <2>2, <3>1
      <4>. QED  BY <3>1, <4>1
    <3>. DEFINE h == [i \in 1 .. m |-> IF i < m THEN g[i]
                                       ELSE IF i = 1 THEN s[i] ELSE cat(g[m - 1], s[m])]
    <3>3. ASSUME NEW i \in 1 .. m PROVE h[i] = IF i = 1 THEN s[i] ELSE cat(h[i - 1], s[i])
      <4>1. CASE i < m
        <5>1. g[i] = IF i = 1 THEN s[i] ELSE cat(g[i - 1], s[i])
          BY <3>1, <3>2, <4>1
        <5>2. h[i] = g[i] /\ (i # 1 => h[i - 1] = g[i - 1])
          BY <3>1, <4>1
        <5>. HIDE DEF h
        <5>. QED  BY <5>1, <5>2
      <4>2. CASE i = m
        BY <3>1, <4>2
      <4>. QED  BY <3>1, <4>1, <4>2
    <3>4. Good(m, h)
      <4>1. h = [i \in 1 .. m |-> h[i]]
        OBVIOUS
      <4>. HIDE DEF h
      <4>. QED  BY <3>3, <4>1
    <3>. QED  BY <3>4, <2>2
  <2>. QED  BY <2>3, <2>4
<1>2. \E g : Good(n, g)
  <2>. HIDE DEF Good
  <2>. QED  BY <1>1
<1>. QED  BY <1>2 DEF cat

\* A function with that recursion glues.
LEMMA GluedRecursion ==
  ASSUME NEW s, NEW n \in Nat \ {0}, NEW g,
         g = [i \in 1 .. n |-> IF i = 1 THEN s[i] ELSE g[i - 1] \o s[i]]
  PROVE  Glued(s, n, g)
<1>. DEFINE cat(x, y) == x \o y
<1>1. g = [i \in 1 .. n |-> IF i = 1 THEN s[i] ELSE cat(g[i - 1], s[i])]
  OBVIOUS
<1>. HIDE DEF cat
<1>2. \A i \in 1 .. n : g[i] = IF i = 1 THEN s[i] ELSE cat(g[i - 1], s[i])
  BY <1>1, Zenon
<1>3. 1 \in 1 .. n /\ \A i \in 2 .. n : i \in 1 .. n /\ i # 1
  OBVIOUS
<1>4. g[1] = s[1] /\ \A i \in 2 .. n : g[i] = cat(g[i - 1], s[i])
  BY <1>2, <1>3, Zenon
<1>. QED  BY <1>4 DEF cat, Glued

\* All functions that glue agree.
LEMMA GluedUnique ==
  ASSUME NEW s, NEW n \in Nat \ {0}, NEW g, NEW h, Glued(s, n, g), Glued(s, n, h)
  PROVE  g[n] = h[n]
<1>. DEFINE cat(x, y) == x \o y
<1>1. /\ g[1] = s[1] /\ \A i \in 2 .. n : g[i] = cat(g[i - 1], s[i])
      /\ h[1] = s[1] /\ \A i \in 2 .. n : h[i] = cat(h[i - 1], s[i])
  BY DEF Glued
<1>. HIDE DEF cat
<1>. DEFINE T == {m \in 1 .. n : h[m] # g[m]}
<1>2. SUFFICES ASSUME T # {} PROVE FALSE
  OBVIOUS
<1>3. PICK m \in T : \A k \in T : m <= k
  <2>1. T \in SUBSET Nat
    OBVIOUS
  <2>. HIDE DEF T
  <2>. QED  BY <1>2, <2>1, LeastNat
<1>4. m # 1
  BY <1>1
<1>5. m \in 2 .. n /\ m - 1 \in 1 .. n /\ m - 1 < m
  BY <1>4
<1>6. h[m - 1] = g[m - 1]
  BY <1>3, <1>5
<1>. QED  BY <1>1, <1>5, <1>6

\* A longer function glues every prefix, too.
LEMMA GluedPrefix ==
  ASSUME NEW s, NEW t, NEW n \in Nat \ {0}, NEW m \in 1 .. n, NEW g, Glued(s, n, g),
         \A i \in 1 .. m : s[i] = t[i]
  PROVE  Glued(t, m, g)
<1>. DEFINE cat(x, y) == x \o y
<1>1. g[1] = s[1] /\ \A i \in 2 .. n : g[i] = cat(g[i - 1], s[i])
  BY DEF Glued
<1>. HIDE DEF cat
<1>2. g[1] = t[1] /\ \A i \in 2 .. m : g[i] = cat(g[i - 1], t[i])
  BY <1>1
<1>. QED  BY <1>2 DEF cat, Glued

\* What is glued from sequences is a sequence.
LEMMA GluedType ==
  ASSUME NEW S, NEW s, NEW n \in Nat \ {0}, NEW g, Glued(s, n, g),
         \A i \in 1 .. n : s[i] \in Seq(S)
  PROVE  \A i \in 1 .. n : g[i] \in Seq(S)
<1>. DEFINE T == {m \in 1 .. n : g[m] \notin Seq(S)}
<1>1. SUFFICES ASSUME T # {} PROVE FALSE
  OBVIOUS
<1>2. PICK m \in T : \A k \in T : m <= k
  <2>1. T \in SUBSET Nat
    OBVIOUS
  <2>. HIDE DEF T
  <2>. QED  BY <1>1, <2>1, LeastNat
<1>3. m # 1
  BY DEF Glued
<1>4. m \in 2 .. n /\ m - 1 \in 1 .. n /\ m - 1 < m
  BY <1>3
<1>5. g[m - 1] \in Seq(S) /\ s[m] \in Seq(S)
  BY <1>2, <1>4
<1>6. g[m - 1] \o s[m] \in Seq(S)
  BY <1>5, ConcatProperties
<1>7. g[m] = g[m - 1] \o s[m]
  BY <1>4 DEF Glued
<1>. QED  BY <1>6, <1>7

\* FlattenSeq glues.
LEMMA FlattenIs ==
  ASSUME NEW s, Len(s) \in Nat \ {0}, NEW g, Glued(s, Len(s), g)
  PROVE  FlattenSeq(s) = g[Len(s)]
<1>. DEFINE n == Len(s)
            fl == CHOOSE h : h = [i \in 1 .. n |-> IF i = 1 THEN s[i] ELSE h[i - 1] \o s[i]]
<1>1. fl = [i \in 1 .. n |-> IF i = 1 THEN s[i] ELSE fl[i - 1] \o s[i]]
  BY GluedExists
<1>2. FlattenSeq(s) = fl[n]
  BY DEF FlattenSeq
<1>. HIDE DEF fl
<1>3. Glued(s, n, fl)
  BY <1>1, GluedRecursion
<1>. QED  BY <1>2, <1>3, GluedUnique

\* Every sequence can be glued.
LEMMA FlattenGlued ==
  ASSUME NEW s, NEW n \in Nat \ {0}
  PROVE  \E g : Glued(s, n, g)
<1>1. PICK g : g = [i \in 1 .. n |-> IF i = 1 THEN s[i] ELSE g[i - 1] \o s[i]]
  BY GluedExists
<1>2. Glued(s, n, g)
  BY <1>1, GluedRecursion
<1>. QED  BY <1>2

\* The concatenation of no strings.
LEMMA FlattenEmpty == FlattenSeq(<< >>) = << >>
  BY DEF FlattenSeq

\* A concatenation of strings is a string.
LEMMA FlattenType ==
  ASSUME NEW S, NEW s \in Seq(Seq(S))
  PROVE  FlattenSeq(s) \in Seq(S)
<1>1. CASE s = << >>
  BY <1>1, FlattenEmpty, EmptySeq
<1>2. CASE s # << >>
  <2>1. Len(s) \in Nat \ {0} /\ \A i \in 1 .. Len(s) : s[i] \in Seq(S)
    BY <1>2, EmptySeq, ElementOfSeq
  <2>2. PICK g : Glued(s, Len(s), g)
    BY <2>1, FlattenGlued
  <2>3. \A i \in 1 .. Len(s) : g[i] \in Seq(S)
    BY <2>1, <2>2, GluedType, Zenon
  <2>4. Len(s) \in 1 .. Len(s)
    BY <2>1
  <2>. QED  BY <2>1, <2>2, <2>3, <2>4, FlattenIs, Zenon
<1>. QED  BY <1>1, <1>2

\* A string added at the end comes last.
LEMMA FlattenAppend ==
  ASSUME NEW S, NEW s \in Seq(Seq(S)), NEW e \in Seq(S)
  PROVE  FlattenSeq(Append(s, e)) = FlattenSeq(s) \o e
<1>. DEFINE t == Append(s, e)
<1>1. /\ Len(t) = Len(s) + 1 /\ t[Len(s) + 1] = e
      /\ \A i \in 1 .. Len(s) : t[i] = s[i]
      /\ Len(s) \in Nat
  BY AppendProperties
<1>. HIDE DEF t
<1>0. Len(t) \in Nat \ {0}
  BY <1>1
<1>2. PICK g : Glued(t, Len(t), g)
  BY <1>0, FlattenGlued, Zenon
<1>3. FlattenSeq(t) = g[Len(t)]
  BY <1>1, <1>2, FlattenIs
<1>4. CASE s = << >>
  <2>1. Len(t) = 1 /\ t[1] = e
    BY <1>1, <1>4
  <2>2. FlattenSeq(t) = e
    BY <1>2, <1>3, <2>1 DEF Glued
  <2>. QED  BY <1>4, <2>2, FlattenEmpty, ConcatEmptySeq DEF t
<1>5. CASE s # << >>
  <2>1. Len(s) \in Nat \ {0}
    BY <1>5, EmptySeq
  <2>2. Glued(s, Len(s), g)
    <3>1. Len(s) \in 1 .. Len(t)
      BY <1>1, <2>1
    <3>. QED  BY <1>0, <1>1, <1>2, <3>1, GluedPrefix, Zenon
  <2>3. FlattenSeq(s) = g[Len(s)]
    BY <2>1, <2>2, FlattenIs
  <2>4. g[Len(s) + 1] = g[Len(s)] \o t[Len(s) + 1]
    <3>1. Len(s) + 1 \in 2 .. Len(t) /\ (Len(s) + 1) - 1 = Len(s)
      BY <1>1, <2>1
    <3>2. \A i \in 2 .. Len(t) : g[i] = g[i - 1] \o t[i]
      BY <1>2 DEF Glued
    <3>. QED  BY <3>1, <3>2, Zenon
  <2>. QED  BY <1>1, <1>3, <2>3, <2>4 DEF t
<1>. QED  BY <1>4, <1>5

\* Without its first string a concatenation is shorter by the length of it.
LEMMA FlattenTailLen ==
  ASSUME NEW S, NEW s \in Seq(Seq(S)), s # << >>
  PROVE  Len(FlattenSeq(s)) = Len(s[1]) + Len(FlattenSeq(Tail(s)))
<1>. DEFINE t == Tail(s)
<1>1. /\ Len(s) \in Nat \ {0} /\ Len(t) = Len(s) - 1
      /\ \A i \in 1 .. Len(t) : t[i] = s[i + 1]
      /\ \A i \in 1 .. Len(s) : s[i] \in Seq(S)
      /\ t \in Seq(Seq(S))
  BY EmptySeq, HeadTailProperties, ElementOfSeq
<1>. HIDE DEF t
<1>2. PICK g : Glued(s, Len(s), g)
  BY <1>1, FlattenGlued, Zenon
<1>3. FlattenSeq(s) = g[Len(s)]
  BY <1>1, <1>2, FlattenIs
<1>4. \A i \in 1 .. Len(s) : Len(s[i]) \in Nat
  BY <1>1, LenProperties, Zenon
<1>5. CASE t = << >>
  <2>1. Len(s) = 1 /\ 1 \in 1 .. Len(s)
    BY <1>1, <1>5
  <2>2. g[1] = s[1] /\ Len(s[1]) \in Nat
    BY <1>2, <1>4, <2>1, Zenon DEF Glued
  <2>3. Len(FlattenSeq(t)) = 0
    BY <1>5, FlattenEmpty
  <2>4. Len(FlattenSeq(s)) = Len(s[1])
    BY <1>3, <2>1, <2>2, Zenon
  <2>. QED  BY <2>2, <2>3, <2>4 DEF t
<1>6. CASE t # << >>
  <2>1. Len(t) \in Nat \ {0} /\ Len(t) \in 1 .. Len(t) /\ Len(t) + 1 = Len(s)
    <3>1. Len(t) \in Nat \ {0}
      BY <1>1, <1>6, EmptySeq, Zenon
    <3>. QED  BY <1>1, <3>1
  <2>2. \A i \in 1 .. Len(t) : t[i] \in Seq(S)
    BY <1>1, ElementOfSeq, Zenon
  <2>3. PICK h : Glued(t, Len(t), h)
    BY <2>1, FlattenGlued, Zenon
  <2>4. \A i \in 1 .. Len(t) : h[i] \in Seq(S)
    BY <2>1, <2>2, <2>3, GluedType, Zenon
  <2>5. \A i \in 1 .. Len(s) : g[i] \in Seq(S)
    BY <1>1, <1>2, GluedType, Zenon
  <2>. DEFINE n == Len(t)
              Longer(m) == Len(g[m + 1]) = Len(s[1]) + Len(h[m])
              T == {m \in 1 .. n : ~Longer(m)}
  <2>. HIDE DEF Longer
  <2>6. T = {}
    <3>. SUFFICES ASSUME T # {} PROVE FALSE
      OBVIOUS
    <3>1. PICK m \in T : \A k \in T : m <= k
      <4>1. T \in SUBSET Nat
        BY <2>1
      <4>. HIDE DEF T
      <4>. QED  BY <4>1, LeastNat
    <3>2. m \in 1 .. n /\ ~Longer(m)
      OBVIOUS
    <3>3. ASSUME NEW k \in 1 .. n, k < m PROVE Longer(k)
      <4>1. k \notin T
        <5>. HIDE DEF T
        <5>. QED  BY <2>1, <3>1, <3>2, <3>3
      <4>. QED  BY <4>1, <3>3
    <3>. HIDE DEF T
    <3>4. m \in 1 .. Len(s) /\ m + 1 \in 2 .. Len(s) /\ (m + 1) - 1 = m /\ 1 \in 1 .. Len(s)
      BY <2>1, <3>2
    <3>5. g[m + 1] = g[m] \o t[m]
      BY <1>1, <1>2, <3>2, <3>4, Zenon DEF Glued
    <3>6. Len(g[m + 1]) = Len(g[m]) + Len(t[m])
      BY <2>2, <2>5, <3>2, <3>4, <3>5, ConcatProperties, Zenon
    <3>7. CASE m = 1
      <4>1. g[1] = s[1] /\ h[1] = t[1]
        BY <1>2, <2>3 DEF Glued
      <4>. QED  BY <3>2, <3>6, <3>7, <4>1, Zenon DEF Longer
    <3>8. CASE m # 1
      <4>1. m \in 2 .. n /\ m - 1 \in 1 .. n /\ m - 1 < m /\ (m - 1) + 1 = m
        BY <2>1, <3>2, <3>8
      <4>2. Len(g[m]) = Len(s[1]) + Len(h[m - 1])
        BY <3>3, <4>1, Zenon DEF Longer
      <4>3. h[m] = h[m - 1] \o t[m]
        BY <2>3, <4>1, Zenon DEF Glued
      <4>4. Len(h[m]) = Len(h[m - 1]) + Len(t[m])
        BY <2>2, <2>4, <3>2, <4>1, <4>3, ConcatProperties, Zenon
      <4>5. Len(s[1]) \in Nat /\ Len(h[m - 1]) \in Nat /\ Len(t[m]) \in Nat
        BY <1>4, <2>2, <2>4, <3>2, <3>4, <4>1, LenProperties, Zenon
      <4>6. Len(g[m + 1]) = Len(s[1]) + Len(h[m])
        <5>. DEFINE first == Len(s[1])
                    before == Len(h[m - 1])
                    last == Len(t[m])
        <5>1. Len(g[m + 1]) = (first + before) + last /\ Len(h[m]) = before + last
          BY <3>6, <4>2, <4>4, Zenon
        <5>2. first \in Nat /\ before \in Nat /\ last \in Nat
          BY <4>5
        <5>. HIDE DEF first, before, last
        <5>3. (first + before) + last = first + (before + last)
          BY <5>2
        <5>. QED  BY <5>1, <5>3, Zenon DEF first
      <4>. QED  BY <3>2, <4>6 DEF Longer
    <3>. QED  BY <3>7, <3>8
  <2>7. Len(g[n + 1]) = Len(s[1]) + Len(h[n])
    BY <2>1, <2>6 DEF Longer
  <2>8. FlattenSeq(t) = h[n]
    BY <2>1, <2>3, FlattenIs, Zenon
  <2>. QED  BY <1>3, <2>1, <2>7, <2>8, Zenon DEF t
<1>. QED  BY <1>5, <1>6

\* Where the bytes of the k-th string are in a concatenation.
LEMMA FlattenBytes ==
  ASSUME NEW S, NEW s \in Seq(Seq(S)), Len(s) <= N, NEW f \in [Slots -> Nat],
         \A i \in 1 .. Len(s) : Len(s[i]) = f[i - 1]
  PROVE  /\ Len(FlattenSeq(s)) = SumBelow(f, Len(s))
         /\ \A k \in 1 .. Len(s) : \A m \in 1 .. Len(s[k]) :
              /\ SumBelow(f, k - 1) + m \in 1 .. Len(FlattenSeq(s))
              /\ FlattenSeq(s)[SumBelow(f, k - 1) + m] = s[k][m]
<1>1. CASE s = << >>
  BY <1>1, FlattenEmpty, SumBelowRec
<1>2. CASE s # << >>
  <2>. DEFINE n == Len(s)
              sum(j) == SumBelow(f, j)
  <2>1. n \in Nat \ {0} /\ \A i \in 1 .. n : s[i] \in Seq(S)
    BY <1>2, EmptySeq, ElementOfSeq
  <2>2. PICK g : Glued(s, n, g)
    BY <2>1, FlattenGlued, Zenon
  <2>3. \A i \in 1 .. n : g[i] \in Seq(S)
    BY <2>1, <2>2, GluedType, Zenon
  <2>4. FlattenSeq(s) = g[n]
    BY <2>1, <2>2, FlattenIs, Zenon
  <2>5. /\ N \in Nat /\ n <= N
        /\ sum(0) = 0
        /\ \A j \in 0 .. n : sum(j) \in Nat
        /\ \A j \in 1 .. n : sum(j) = sum(j - 1) + f[j - 1]
    <3>1. sum(0) = 0 /\ \A j \in 1 .. N : sum(j) = sum(j - 1) + f[j - 1]
      BY SumBelowRec, Zenon
    <3>2. \A j \in 0 .. N : sum(j) \in Nat
      BY SumBelowNat, Zenon
    <3>3. N \in Nat /\ n <= N
      BY NAssumption
    <3>4. \A j \in 1 .. n : j \in 1 .. N
      BY <2>1, <3>3
    <3>5. \A j \in 0 .. n : j \in 0 .. N
      BY <2>1, <3>3
    <3>. QED  BY <3>1, <3>2, <3>3, <3>4, <3>5, Zenon
  <2>6. \A i \in 1 .. n : Len(s[i]) = f[i - 1] /\ f[i - 1] \in Nat
    BY <2>1, <2>5 DEF Slots
  <2>. DEFINE Placed(x, i) == /\ Len(x) = sum(i)
                              /\ \A k \in 1 .. i : \A m \in 1 .. f[k - 1] :
                                   /\ sum(k - 1) + m \in 1 .. sum(i)
                                   /\ x[sum(k - 1) + m] = s[k][m]
              T == {i \in 1 .. n : ~ Placed(g[i], i)}
  <2>. HIDE DEF sum, n
  <2>7. g[1] = s[1] /\ \A i \in 2 .. n : g[i] = g[i - 1] \o s[i]
    BY <2>2 DEF Glued
  <2>8. Placed(g[1], 1)
    <3>1. 1 \in 1 .. n /\ 1 - 1 = 0
      BY <2>1
    <3>2. sum(1) = f[0] /\ f[0] \in Nat /\ Len(s[1]) = f[0]
      BY <2>5, <2>6, <3>1
    <3>. QED  BY <2>5, <2>7, <3>2
  <2>9. ASSUME NEW i \in 2 .. n, Placed(g[i - 1], i - 1) PROVE Placed(g[i], i)
    <3>1. i - 1 \in 1 .. n /\ i \in 1 .. n /\ i - 1 \in 0 .. n /\ i \in 0 .. n
      BY <2>1
    <3>. DEFINE a == g[i - 1]
                b == s[i]
    <3>2. a \in Seq(S) /\ b \in Seq(S) /\ g[i] = a \o b
      BY <2>1, <2>3, <2>7, <3>1, Zenon
    <3>3. /\ Len(a) = sum(i - 1) /\ Len(b) = f[i - 1] /\ f[i - 1] \in Nat
          /\ sum(i - 1) \in Nat /\ sum(i) = sum(i - 1) + f[i - 1]
      BY <2>5, <2>6, <2>9, <3>1
    <3>. HIDE DEF a, b
    <3>4. /\ Len(g[i]) = sum(i)
          /\ \A j \in 1 .. sum(i) : g[i][j] = IF j <= sum(i - 1) THEN a[j] ELSE b[j - sum(i - 1)]
      <4>1. /\ Len(a \o b) = Len(a) + Len(b)
            /\ \A j \in 1 .. Len(a) + Len(b) :
                 (a \o b)[j] = IF j <= Len(a) THEN a[j] ELSE b[j - Len(a)]
        BY <3>2, ConcatProperties, Zenon
      <4>. QED  BY <3>2, <3>3, <4>1, Zenon
    <3>5. ASSUME NEW k \in 1 .. i, NEW m \in 1 .. f[k - 1]
          PROVE  /\ sum(k - 1) + m \in 1 .. sum(i)
                 /\ g[i][sum(k - 1) + m] = s[k][m]
      <4>1. CASE k = i
        <5>1. sum(k - 1) + m \in 1 .. sum(i) /\ ~(sum(k - 1) + m <= sum(i - 1))
              /\ (sum(k - 1) + m) - sum(i - 1) = m
          BY <3>3, <4>1
        <5>2. b = s[k]
          BY <4>1 DEF b
        <5>3. ASSUME NEW j \in 1 .. sum(i), ~(j <= sum(i - 1)), j - sum(i - 1) = m
              PROVE  g[i][j] = b[m]
          BY <3>4, <5>3, Zenon
        <5>. QED  BY <5>1, <5>2, <5>3, Zenon
      <4>2. CASE k # i
        <5>1. k \in 1 .. i - 1
          BY <3>1, <4>2
        <5>2. sum(k - 1) + m \in 1 .. sum(i - 1) /\ a[sum(k - 1) + m] = s[k][m]
          BY <2>9, <5>1, Zenon DEF a
        <5>3. sum(k - 1) + m \in 1 .. sum(i) /\ sum(k - 1) + m <= sum(i - 1)
          BY <3>3, <5>2
        <5>. QED  BY <3>4, <5>2, <5>3
      <4>. QED  BY <4>1, <4>2
    <3>. QED  BY <3>4, <3>5
  <2>. HIDE DEF Placed
  <2>10. T = {}
    <3>. SUFFICES ASSUME T # {} PROVE FALSE
      OBVIOUS
    <3>1. PICK m \in T : \A k \in T : m <= k
      <4>1. T \in SUBSET Nat
        BY <2>1
      <4>. HIDE DEF T
      <4>. QED  BY <4>1, LeastNat
    <3>2. m # 1
      BY <2>8
    <3>3. m \in 2 .. n /\ m - 1 \in 1 .. n /\ m - 1 < m
      BY <2>1, <3>2
    <3>4. m - 1 \notin T
      <4>. HIDE DEF T
      <4>. QED  BY <3>1, <3>3
    <3>. QED  BY <2>9, <3>3, <3>4
  <2>11. Placed(g[n], n)
    BY <2>1, <2>10
  <2>12. \A k \in 1 .. n : Len(s[k]) = f[k - 1]
    BY <2>6
  <2>13. /\ Len(g[n]) = sum(n)
         /\ \A k \in 1 .. n : \A m \in 1 .. Len(s[k]) :
              /\ sum(k - 1) + m \in 1 .. Len(g[n])
              /\ g[n][sum(k - 1) + m] = s[k][m]
    BY <2>11, <2>12, Zenon DEF Placed
  <2>. QED  BY <2>4, <2>13, Zenon DEF n, sum
<1>. QED  BY <1>1, <1>2

-----------------------------------------------------------------------------
(***************************************************************************)
(* The arithmetic of the two offsets: below 2N the remainder is at most    *)
(* one subtraction away.                                                   *)
(***************************************************************************)
LEMMA WrapOnce ==
  ASSUME NEW x \in 0 .. 2 * N - 1
  PROVE  x % N = IF x < N THEN x ELSE x - N
<1>1. N \in Nat /\ N > 0 /\ x \in Int
  BY NAssumption
<1>2. CASE x < N
  BY <1>1, <1>2
<1>3. CASE x >= N
  BY <1>1, <1>3
<1>. QED  BY <1>1, <1>2, <1>3

\* The fields of a buffer.
LEMMA BufferFields ==
  ASSUME NEW S, NEW b \in Buffer(S)
  PROVE  /\ N \in Nat \ {0}
         /\ b.in_offs \in 0 .. N - 1 /\ b.out_offs \in 0 .. N - 1
         /\ b.in_offs \in Slots /\ b.out_offs \in Slots
         /\ b.entry \in [Slots -> S]
         /\ b.full \in BOOLEAN
  BY NAssumption DEF Buffer, Slots

\* A buffer whose full flag tells the truth about its offsets.
Coherent(b) == b.full => b.in_offs = b.out_offs

(***************************************************************************)
(* aesd_circular_buffer_add_entry returns a well-formed, coherent buffer.  *)
(***************************************************************************)
LEMMA AddEntryType ==
  ASSUME NEW S, NEW b \in Buffer(S), NEW e \in S
  PROVE  /\ aesd_circular_buffer_add_entry(b, e) \in Buffer(S)
         /\ Coherent(aesd_circular_buffer_add_entry(b, e))
<1>1. (b.in_offs + 1) % N \in Slots
  BY NAssumption, WrapOnce DEF Buffer, Slots
<1>. QED  BY <1>1 DEF Buffer, Coherent, aesd_circular_buffer_add_entry

\* The slot of the j-th iteration, without the remainder.
LEMMA ScanSlotValue ==
  ASSUME NEW S, NEW b \in Buffer(S), NEW j \in 0 .. N - 1
  PROVE  /\ ScanSlot(b, j) \in Slots
         /\ ScanSlot(b, j) = IF b.out_offs + j < N THEN b.out_offs + j
                                                  ELSE b.out_offs + j - N
<1>1. N \in Nat /\ b.out_offs \in 0 .. N - 1
  BY BufferFields
<1>2. b.out_offs + j \in 0 .. 2 * N - 1
  BY <1>1
<1>. QED  BY <1>1, <1>2, WrapOnce DEF ScanSlot, Slots

(***************************************************************************)
(* The number of stored entries lies between 0 and N, it is N exactly when *)
(* the buffer is full, and Contents is a sequence of that length.          *)
(***************************************************************************)
LEMMA CountType ==
  ASSUME NEW S, NEW b \in Buffer(S)
  PROVE  /\ Count(b) \in 0 .. N
         /\ Count(b) = N <=> b.full
         /\ Contents(b) \in Seq(S)
         /\ Len(Contents(b)) = Count(b)
         /\ \A k \in 1 .. Count(b) : Contents(b)[k] = b.entry[ScanSlot(b, k - 1)]
<1>1. Count(b) \in 0 .. N /\ (Count(b) = N <=> b.full)
  BY NAssumption DEF Count, Buffer, Slots
<1>2. \A k \in 1 .. Count(b) : ScanSlot(b, k - 1) \in Slots
  BY <1>1, NAssumption, WrapOnce DEF ScanSlot, Slots, Buffer
<1>3. \A k \in 1 .. Count(b) : b.entry[ScanSlot(b, k - 1)] \in S
  BY <1>2 DEF Buffer
<1>4. Contents(b) \in Seq(S) /\ Len(Contents(b)) = Count(b)
  BY <1>1, <1>3, IsASeq, LenProperties DEF Contents
<1>. QED  BY <1>1, <1>4 DEF Contents

(***************************************************************************)
(* Adding an entry stores it last and, in a full buffer, drops the oldest: *)
(* the overwritten slot in_offs is the one reading would have started at.  *)
(***************************************************************************)
LEMMA AddEntryStores ==
  ASSUME NEW S, NEW b \in Buffer(S), Coherent(b), NEW e \in S
  PROVE  Contents(aesd_circular_buffer_add_entry(b, e)) =
           IF Len(Contents(b)) < N
           THEN Append(Contents(b), e)
           ELSE Append(Tail(Contents(b)), e)
<1>. DEFINE c    == aesd_circular_buffer_add_entry(b, e)
            want == IF Len(Contents(b)) < N
                    THEN Append(Contents(b), e)
                    ELSE Append(Tail(Contents(b)), e)
<1>1. c \in Buffer(S) /\ Coherent(c)
  BY AddEntryType
<1>2. /\ c.in_offs = IF b.in_offs + 1 < N THEN b.in_offs + 1 ELSE 0
      /\ c.out_offs = IF b.full THEN c.in_offs ELSE b.out_offs
      /\ c.full = (c.in_offs = c.out_offs)
      /\ c.entry = [b.entry EXCEPT ![b.in_offs] = e]
  <2>1. N \in Nat \ {0} /\ b.in_offs \in 0 .. N - 1
    BY BufferFields
  <2>2. b.in_offs + 1 \in 0 .. 2 * N - 1
    BY <2>1
  <2>3. (b.in_offs + 1) % N = IF b.in_offs + 1 < N THEN b.in_offs + 1 ELSE 0
    BY <2>1, <2>2, WrapOnce
  <2>. QED  BY <2>3 DEF aesd_circular_buffer_add_entry
<1>3. Count(c) = IF b.full THEN N ELSE Count(b) + 1
  <2>1. /\ N \in Nat \ {0} /\ b.full \in BOOLEAN
        /\ b.in_offs \in 0 .. N - 1 /\ b.out_offs \in 0 .. N - 1
    BY BufferFields
  <2>. HIDE DEF c
  <2>2. CASE b.full
    BY <1>2, <2>1, <2>2 DEF Count
  <2>3. CASE ~b.full
    <3>1. Count(b) = IF b.in_offs >= b.out_offs THEN b.in_offs - b.out_offs
                     ELSE b.in_offs - b.out_offs + N
      BY <2>3 DEF Count
    <3>2. c.out_offs = b.out_offs
      BY <1>2, <2>3
    <3>3. CASE c.in_offs = c.out_offs
      <4>1. Count(c) = N
        BY <1>2, <3>3 DEF Count
      <4>. QED  BY <1>2, <2>1, <2>3, <3>1, <3>2, <3>3, <4>1
    <3>4. CASE c.in_offs # c.out_offs
      <4>1. Count(c) = IF c.in_offs >= c.out_offs THEN c.in_offs - c.out_offs
                       ELSE c.in_offs - c.out_offs + N
        BY <1>2, <3>4 DEF Count
      <4>. QED  BY <1>2, <2>1, <2>3, <3>1, <3>2, <3>4, <4>1
    <3>. QED  BY <3>3, <3>4
  <2>. QED  BY <2>1, <2>2, <2>3
<1>4. /\ want \in Seq(S)
      /\ Len(want) = Count(c)
  BY <1>3, CountType, HeadTailProperties, AppendProperties, NAssumption
<1>5. ASSUME NEW k \in 1 .. Count(c)
      PROVE  Contents(c)[k] = want[k]
  <2>1. Contents(c)[k] = c.entry[ScanSlot(c, k - 1)]
    BY <1>1, CountType
  <2>2. /\ k \in 1 .. N
        /\ N \in Nat
        /\ b.in_offs \in 0 .. N - 1 /\ b.out_offs \in 0 .. N - 1
        /\ b.entry \in [Slots -> S]
        /\ b.in_offs \in Slots
    <3>. HIDE DEF c
    <3>1. Count(c) \in 0 .. N
      BY <1>1, CountType
    <3>2. /\ N \in Nat \ {0}
          /\ b.in_offs \in 0 .. N - 1 /\ b.out_offs \in 0 .. N - 1
          /\ b.entry \in [Slots -> S]
          /\ b.in_offs \in Slots
      BY BufferFields
    <3>. QED  BY <3>1, <3>2
  <2>3. /\ ScanSlot(b, k - 1) \in Slots
        /\ ScanSlot(b, k - 1) = IF b.out_offs + k - 1 < N THEN b.out_offs + k - 1
                                                         ELSE b.out_offs + k - 1 - N
    BY <2>2, ScanSlotValue
  <2>4. ScanSlot(c, k - 1) = IF c.out_offs + k - 1 < N THEN c.out_offs + k - 1
                                                       ELSE c.out_offs + k - 1 - N
    BY <1>1, <2>2, ScanSlotValue
  <2>5. CASE ~b.full
    <3>1. ScanSlot(c, k - 1) = ScanSlot(b, k - 1)
      BY <1>2, <2>5 DEF ScanSlot
    <3>2. want[k] = IF k <= Count(b) THEN b.entry[ScanSlot(b, k - 1)] ELSE e
      BY <1>3, <2>2, <2>5, CountType, AppendProperties
    <3>3. Count(b) = IF b.in_offs >= b.out_offs THEN b.in_offs - b.out_offs
                     ELSE b.in_offs - b.out_offs + N
      BY <2>5 DEF Count
    <3>4. k <= Count(b) <=> ScanSlot(b, k - 1) # b.in_offs
      BY <1>3, <2>2, <2>3, <2>5, <3>3
    <3>. HIDE DEF c, want
    <3>. QED  BY <1>2, <2>1, <2>2, <2>3, <3>1, <3>2, <3>4
  <2>6. CASE b.full
    <3>1. /\ Count(b) = N
          /\ b.out_offs = b.in_offs /\ c.out_offs = c.in_offs
      BY <1>2, <2>6, CountType DEF Coherent
    <3>2. CASE k < N
      <4>1. /\ ScanSlot(b, k) \in Slots
            /\ ScanSlot(b, k) = IF b.out_offs + k < N THEN b.out_offs + k
                                                     ELSE b.out_offs + k - N
        BY <2>2, <3>2, ScanSlotValue
      <4>2. ScanSlot(c, k - 1) = ScanSlot(b, k) /\ ScanSlot(b, k) # b.in_offs
        BY <1>2, <2>2, <2>4, <3>1, <3>2, <4>1
      <4>3. want[k] = Contents(b)[k + 1]
        BY <2>2, <3>1, <3>2, CountType, HeadTailProperties, AppendProperties
      <4>4. Contents(b)[k + 1] = b.entry[ScanSlot(b, k)]
        BY <2>2, <3>1, <3>2, CountType
      <4>. HIDE DEF c, want
      <4>5. c.entry[ScanSlot(b, k)] = b.entry[ScanSlot(b, k)]
        BY <1>2, <2>2, <4>1, <4>2
      <4>. QED  BY <2>1, <4>2, <4>3, <4>4, <4>5
    <3>3. CASE k = N
      <4>1. ScanSlot(c, k - 1) = b.in_offs
        BY <1>2, <2>2, <2>4, <3>1, <3>3
      <4>2. want[k] = e
        BY <2>2, <3>1, <3>3, CountType, HeadTailProperties, AppendProperties
      <4>. HIDE DEF c, want
      <4>. QED  BY <1>2, <2>1, <2>2, <4>1, <4>2
    <3>4. k < N \/ k = N
      BY <2>2
    <3>. QED  BY <3>2, <3>3, <3>4
  <2>. QED  BY <2>5, <2>6
<1>6. Contents(c) \in Seq(S) /\ Len(Contents(c)) = Count(c)
  BY <1>1, CountType
<1>. QED  BY <1>4, <1>5, <1>6, SeqEqual

\* The sizes of the entries in the order find looks at them.
Sizes(b) == [k \in Slots |-> b.entry[ScanSlot(b, k)].size]

\* Min, the community modules' operator, is the least element.
LEMMA MinIs ==
  ASSUME NEW T \in SUBSET Nat, T # {}
  PROVE  Min(T) \in T /\ \A k \in T : Min(T) <= k
  BY LeastNat DEF Min

\* The loop of find runs through the stored entries and no others.
LEMMA LoopEnteredIff ==
  ASSUME NEW S, NEW b \in Buffer(S), Coherent(b), NEW j \in 0 .. N
  PROVE  (\A k \in 0 .. j : LoopEntered(b, k)) <=> j < Count(b)
<1>1. /\ N \in Nat \ {0} /\ b.full \in BOOLEAN
      /\ b.in_offs \in 0 .. N - 1 /\ b.out_offs \in 0 .. N - 1
  BY BufferFields
<1>2. Count(b) \in 0 .. N /\ (Count(b) = N <=> b.full)
  BY CountType
<1>3. ASSUME NEW k \in 0 .. N - 1
      PROVE  ScanSlot(b, k) = IF b.out_offs + k < N THEN b.out_offs + k ELSE b.out_offs + k - N
  BY <1>1, ScanSlotValue
<1>4. CASE b.full
  <2>1. \A k \in 0 .. j : LoopEntered(b, k) <=> k < N
    BY <1>4 DEF LoopEntered, ScanLimit
  <2>. QED  BY <1>1, <1>2, <1>4, <2>1
<1>5. CASE ~b.full
  <2>1. Count(b) = IF b.in_offs >= b.out_offs THEN b.in_offs - b.out_offs
                   ELSE (b.in_offs - b.out_offs) + N
    BY <1>5 DEF Count
  <2>2. Count(b) \in 0 .. N - 1
    BY <1>1, <1>2, <1>5
  <2>3. \A k \in 0 .. N - 1 : ScanSlot(b, k) = b.in_offs <=> k = Count(b)
    BY <1>1, <1>3, <2>1
  <2>4. \A k \in 0 .. N - 1 : LoopEntered(b, k) <=> k # Count(b)
    BY <1>1, <1>5, <2>3 DEF LoopEntered, ScanLimit
  <2>5. ~LoopEntered(b, N)
    BY <1>1 DEF LoopEntered, ScanLimit
  <2>6. CASE j < Count(b)
    BY <1>1, <2>2, <2>4, <2>6
  <2>7. CASE j >= Count(b)
    <3>1. Count(b) \in 0 .. j /\ ~LoopEntered(b, Count(b))
      BY <1>1, <2>2, <2>4, <2>7
    <3>. QED  BY <2>2, <2>7, <3>1
  <2>. QED  BY <1>1, <2>2, <2>6, <2>7
<1>. QED  BY <1>1, <1>4, <1>5

(***************************************************************************)
(* What aesd_circular_buffer_find_entry_offset_for_fpos finds: the stored  *)
(* entry within which char_offset falls when the sizes of the entries      *)
(* before it are counted, or NULL past the end of the last one.            *)
(***************************************************************************)
LEMMA FindFinds ==
  ASSUME NEW S, \A e \in S : e.size \in Nat, NEW b \in Buffer(S), Coherent(b),
         NEW char_offset \in Nat
  PROVE  LET found == aesd_circular_buffer_find_entry_offset_for_fpos(b, char_offset)
         IN  /\ Sizes(b) \in [Slots -> Nat]
             /\ \/ found = NULL /\ AccumulatedBytes(b, Count(b)) <= char_offset
                \/ \E j \in 0 .. Count(b) - 1 :
                     /\ found = [slot |-> ScanSlot(b, j),
                                 byte |-> char_offset - AccumulatedBytes(b, j)]
                     /\ found # NULL
                     /\ AccumulatedBytes(b, j) <= char_offset
                     /\ char_offset < AccumulatedBytes(b, j) + b.entry[ScanSlot(b, j)].size
<1>. DEFINE a(j) == AccumulatedBytes(b, j)
            size(j) == b.entry[ScanSlot(b, j)].size
            find == aesd_circular_buffer_find_entry_offset_for_fpos(b, char_offset)
<1>1. /\ N \in Nat \ {0}
      /\ Count(b) \in 0 .. N
  BY BufferFields, CountType
<1>2. /\ \A k \in 0 .. N - 1 : ScanSlot(b, k) \in Slots /\ size(k) \in Nat
      /\ Sizes(b) \in [Slots -> Nat]
  <2>1. \A k \in 0 .. N - 1 : ScanSlot(b, k) \in Slots
    BY ScanSlotValue
  <2>2. b.entry \in [Slots -> S]
    BY BufferFields
  <2>3. \A k \in 0 .. N - 1 : size(k) \in Nat
    BY <2>1, <2>2
  <2>. QED  BY <2>1, <2>3 DEF Sizes, Slots
<1>3. /\ a(0) = 0
      /\ \A j \in 1 .. N : a(j) = a(j - 1) + size(j - 1)
      /\ \A j \in 0 .. N : a(j) \in Nat
  <2>1. \A j : a(j) = SumBelow(Sizes(b), j)
    BY DEF AccumulatedBytes, Sizes
  <2>2. \A j \in 1 .. N : j - 1 \in Slots /\ Sizes(b)[j - 1] = size(j - 1)
    BY <1>1 DEF Sizes, Slots
  <2>3. /\ SumBelow(Sizes(b), 0) = 0
        /\ \A j \in 1 .. N : SumBelow(Sizes(b), j) = SumBelow(Sizes(b), j - 1) + Sizes(b)[j - 1]
    BY <1>2, SumBelowRec, Zenon
  <2>4. \A j \in 0 .. N : SumBelow(Sizes(b), j) \in Nat
    BY <1>2, SumBelowNat, Zenon
  <2>. QED  BY <2>1, <2>2, <2>3, <2>4, Zenon
<1>. DEFINE hits == {j \in 0 .. N : /\ \A k \in 0 .. j : LoopEntered(b, k)
                                    /\ a(j) + size(j) > char_offset}
<1>4. find = IF hits = {} THEN NULL
             ELSE [slot |-> ScanSlot(b, Min(hits)), byte |-> char_offset - a(Min(hits))]
  BY DEF aesd_circular_buffer_find_entry_offset_for_fpos, ScanLimit
<1>5. \A j \in 0 .. N : (\A k \in 0 .. j : LoopEntered(b, k)) <=> j < Count(b)
  BY LoopEnteredIff, Zenon
<1>6. hits = {j \in 0 .. N : j < Count(b) /\ a(j) + size(j) > char_offset}
  BY <1>5, Zenon
<1>. HIDE DEF hits, a, size, find
<1>7. hits \subseteq 0 .. Count(b) - 1 /\ hits \in SUBSET Nat
  BY <1>1, <1>6
<1>8. CASE hits = {}
  <2>. DEFINE T == {j \in 0 .. Count(b) : a(j) > char_offset}
  <2>1. T = {}
    <3>. SUFFICES ASSUME T # {} PROVE FALSE
      OBVIOUS
    <3>1. PICK m \in T : \A k \in T : m <= k
      <4>1. T \in SUBSET Nat
        BY <1>1
      <4>. HIDE DEF T
      <4>. QED  BY <4>1, LeastNat
    <3>2. m # 0
      BY <1>3
    <3>3. m \in 1 .. N /\ m - 1 \in 0 .. N /\ m - 1 < Count(b) /\ a(m) > char_offset
      BY <1>1, <3>2
    <3>4. m - 1 \in hits
      BY <1>3, <1>6, <3>3
    <3>. QED  BY <1>8, <3>4
  <2>2. a(Count(b)) <= char_offset
    <3>1. ~(a(Count(b)) > char_offset) /\ a(Count(b)) \in Nat
      BY <1>1, <1>3, <2>1
    <3>. QED  BY <3>1
  <2>. QED  BY <1>2, <1>4, <1>8, <2>2 DEF a, find
<1>9. CASE hits # {}
  <2>. DEFINE j == Min(hits)
  <2>1. j \in hits /\ \A k \in hits : j <= k
    BY <1>7, <1>9, MinIs, Zenon
  <2>. HIDE DEF j
  <2>2. j \in 0 .. Count(b) - 1 /\ j \in 0 .. N - 1 /\ char_offset < a(j) + size(j) /\ a(j) \in Nat
    <3>1. j \in 0 .. N /\ j < Count(b) /\ a(j) + size(j) > char_offset
      BY <1>6, <2>1
    <3>2. j \in 0 .. N - 1
      BY <1>1, <3>1
    <3>3. a(j) \in Nat /\ size(j) \in Nat
      BY <1>2, <1>3, <3>1, <3>2
    <3>. QED  BY <1>1, <3>1, <3>2, <3>3
  <2>3. a(j) <= char_offset
    <3>1. CASE j = 0
      BY <1>3, <3>1
    <3>2. CASE j # 0
      <4>1. j \in 1 .. N /\ j - 1 \in 0 .. N /\ j - 1 < Count(b) /\ j - 1 < j /\ j - 1 \in 0 .. N - 1
        BY <1>1, <2>2, <3>2
      <4>2. j - 1 \notin hits
        BY <2>1, <4>1
      <4>3. ~(a(j - 1) + size(j - 1) > char_offset)
        BY <1>6, <4>1, <4>2
      <4>4. a(j) = a(j - 1) + size(j - 1) /\ a(j - 1) \in Nat /\ size(j - 1) \in Nat
        BY <1>2, <1>3, <4>1
      <4>. QED  BY <4>3, <4>4
    <3>. QED  BY <3>1, <3>2
  <2>4. ScanSlot(b, j) \in Slots /\ char_offset - a(j) \in Nat
    BY <1>2, <2>2, <2>3
  <2>5. find = [slot |-> ScanSlot(b, j), byte |-> char_offset - a(j)] /\ find # NULL
    <3>1. find = [slot |-> ScanSlot(b, j), byte |-> char_offset - a(j)]
      BY <1>4, <1>9 DEF j
    <3>2. find \in [slot : Slots, byte : Nat]
      BY <2>4, <3>1
    <3>. QED  BY <3>1, <3>2, NullAssumption
  <2>. QED  BY <1>2, <2>2, <2>3, <2>5 DEF a, size, find
<1>. QED  BY <1>8, <1>9

=============================================================================
