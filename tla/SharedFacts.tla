----------------------------- MODULE SharedFacts -----------------------------
(* What several of the proofs need: facts about the natural numbers, about   *)
(* FlattenSeq of SequencesExt, which the specifications are built on, and    *)
(* about the operators of SensorLists.  The induction theorems of the        *)
(* library take an operator; the ones here take a set, which the provers can *)
(* instantiate.                                                              *)
EXTENDS SensorLists, SequenceTheorems, FiniteSetTheorems, WellFoundedInduction, TLAPS

-----------------------------------------------------------------------------
(* The natural numbers *)

LEMMA LeastNatural ==
    ASSUME NEW S \in SUBSET Nat, S # {}
    PROVE  \E n \in S : \A m \in S : n <= m
<1>1. PICK n \in S : \A m \in S : ~ (<<m, n>> \in OpToRel(<, Nat))
  BY NatLessThanWellFounded, WFMin
<1>2. ASSUME NEW m \in S, m < n PROVE FALSE
  <2>1. <<m, n>> \in OpToRel(<, Nat)
    BY <1>2 DEF OpToRel
  <2>2. QED
    BY <1>1, <2>1
<1>3. QED
  BY <1>2

LEMMA InductionOverNat ==
    ASSUME NEW S \in SUBSET Nat, 0 \in S, \A n \in S : n + 1 \in S
    PROVE  S = Nat
<1> SUFFICES ASSUME Nat \ S # {} PROVE FALSE
  OBVIOUS
<1>1. PICK n \in Nat \ S : \A m \in Nat \ S : n <= m
  BY LeastNatural
<1>2. n # 0 /\ n - 1 \in Nat /\ n - 1 \in S
  BY <1>1
<1>3. QED
  BY <1>1, <1>2

\* What holds at 0 and of n if of n - 1 holds on the whole of 0 .. N.
LEMMA IterationHolds ==
    ASSUME NEW N \in Nat, NEW T \in SUBSET (0 .. N), 0 \in T,
           \A n \in 1 .. N : n - 1 \in T => n \in T
    PROVE  T = 0 .. N
<1> DEFINE U == {n \in Nat : n <= N => n \in T}
<1>1. 0 \in U
  OBVIOUS
<1>2. ASSUME NEW n \in U PROVE n + 1 \in U
  <2>1. CASE n + 1 <= N
    <3>1. n \in T /\ n + 1 \in 1 .. N /\ (n + 1) - 1 = n
      BY <2>1
    <3>2. n + 1 \in T
      BY <3>1
    <3>3. QED
      BY <3>2
  <2>2. CASE ~ n + 1 <= N
    BY <2>2
  <2>3. QED
    BY <2>1, <2>2
<1> HIDE DEF U
<1>3. U = Nat
  <2>1. U \in SUBSET Nat
    BY DEF U
  <2>2. QED
    BY <1>1, <1>2, <2>1, InductionOverNat
<1>4. ASSUME NEW n \in 0 .. N PROVE n \in T
  <2>1. n \in U /\ n <= N
    BY <1>3
  <2>2. QED
    BY <2>1 DEF U
<1>5. QED
  BY <1>4

\* `g` is what the step functions make of `first`, one after the other.
StepFunctions(N, S) == [(1 .. N) \X S -> S]
Iterates(N, S, first, step, g) ==
    /\ g \in [0 .. N -> S]
    /\ g[0] = first
    /\ \A n \in 1 .. N : g[n] = step[<<n, g[n - 1]>>]

\* A function on 0 .. N whose value at n is made of the one at n - 1 exists.
LEMMA IterationExists ==
    ASSUME NEW N \in Nat, NEW S, NEW first \in S, NEW step \in StepFunctions(N, S)
    PROVE  \E g : Iterates(N, S, first, step, g)
<1> DEFINE Upto(n) == \E g \in [0 .. n -> S] :
                          g[0] = first /\ \A m \in 1 .. n : g[m] = step[<<m, g[m - 1]>>]
           T == {n \in Nat : n <= N => Upto(n)}
<1>1. 0 \in T
  <2>1. PICK g : g = [n \in 0 .. 0 |-> first]
    OBVIOUS
  <2>2. g \in [0 .. 0 -> S] /\ g[0] = first
    BY <2>1
  <2>3. Upto(0)
    BY <2>2
  <2>4. QED
    BY <2>3
<1>2. ASSUME NEW n \in T PROVE n + 1 \in T
  <2>1. n \in Nat
    OBVIOUS
  <2>2. ASSUME n + 1 <= N PROVE Upto(n + 1)
    <3>1. Upto(n)
      BY <2>1, <2>2
    <3>2. PICK g \in [0 .. n -> S] :
              g[0] = first /\ \A m \in 1 .. n : g[m] = step[<<m, g[m - 1]>>]
      BY <3>1
    <3>3. PICK s \in S : s = step[<<n + 1, g[n]>>]
      <4>1. <<n + 1, g[n]>> \in (1 .. N) \X S
        BY <2>1, <2>2
      <4>2. QED
        BY <4>1 DEF StepFunctions
    <3>4. PICK h : h = [m \in 0 .. n + 1 |-> IF m <= n THEN g[m] ELSE s]
      OBVIOUS
    <3>5. h \in [0 .. n + 1 -> S]
      BY <2>1, <3>3, <3>4
    <3>6. h[0] = first
      BY <2>1, <3>2, <3>4
    <3>7. ASSUME NEW m \in 1 .. n + 1 PROVE h[m] = step[<<m, h[m - 1]>>]
      <4>1. h[m - 1] = g[m - 1]
        BY <2>1, <3>4
      <4>2. CASE m <= n
        <5>1. m \in 1 .. n /\ h[m] = g[m]
          BY <2>1, <3>4, <4>2
        <5>2. g[m] = step[<<m, g[m - 1]>>]
          BY <3>2, <5>1
        <5>3. QED
          BY <4>1, <5>1, <5>2
      <4>3. CASE m = n + 1
        <5>1. h[m] = s /\ m - 1 = n
          BY <2>1, <3>4, <4>3
        <5>2. QED
          BY <3>3, <4>1, <4>3, <5>1
      <4>4. QED
        BY <2>1, <4>2, <4>3
    <3>8. QED
      BY <3>5, <3>6, <3>7
  <2>3. n + 1 \in Nat /\ (n + 1 <= N => Upto(n + 1))
    BY <2>1, <2>2
  <2>4. QED
    BY <2>3
<1> HIDE DEF T
<1>3. T = Nat
  <2>1. T \in SUBSET Nat
    BY DEF T
  <2>2. QED
    BY <1>1, <1>2, <2>1, InductionOverNat
<1>4. N \in T
  BY <1>3
<1>5. QED
  BY <1>4 DEF T, Iterates

\* A bounded set of naturals has a largest element, and it is the one Max names.
LEMMA GreatestNatural ==
    ASSUME NEW S \in SUBSET Nat, S # {}, NEW b \in Nat, \A m \in S : m <= b
    PROVE  \E n \in S : \A m \in S : m <= n
<1> DEFINE T == {b - m : m \in S}
<1>1. T \in SUBSET Nat /\ T # {}
  <2>1. ASSUME NEW m \in S PROVE b - m \in Nat
    OBVIOUS
  <2>2. QED
    BY <2>1
<1>2. PICK t \in T : \A u \in T : t <= u
  BY <1>1, LeastNatural
<1>3. PICK n \in S : t = b - n
  BY <1>2
<1>4. ASSUME NEW m \in S PROVE m <= n
  <2>1. b - n <= b - m
    BY <1>2, <1>3
  <2>2. QED
    BY <2>1
<1>5. QED
  BY <1>4

LEMMA MaxIsGreatest ==
    ASSUME NEW S \in SUBSET Nat, S # {}, NEW b \in Nat, \A m \in S : m <= b
    PROVE  Max(S) \in S /\ \A m \in S : m <= Max(S)
<1>1. PICK n \in S : \A m \in S : m <= n
  BY GreatestNatural
<1>2. QED
  BY <1>1 DEF Max

-----------------------------------------------------------------------------
(* Pieces of sequences *)

\* What is left of a sequence from one place on, and from the next.
LEMMA SubSeqHead ==
    ASSUME NEW T, NEW s \in Seq(T), NEW n \in 1 .. Len(s)
    PROVE  /\ SubSeq(s, n, Len(s)) \in Seq(T)
           /\ SubSeq(s, n, Len(s)) # << >>
           /\ Head(SubSeq(s, n, Len(s))) = s[n]
           /\ Tail(SubSeq(s, n, Len(s))) = SubSeq(s, n + 1, Len(s))
<1>1. Len(s) \in n .. Len(s) /\ \A k \in n .. Len(s) : s[k] \in T
  OBVIOUS
<1>2. SubSeq(s, n, Len(s)) \in Seq(T) /\ Len(SubSeq(s, n, Len(s))) = Len(s) - n + 1
  BY <1>1, SubSeqProperties
<1>3. Len(s) - n + 1 # 0 /\ Len(<< >>) = 0
  OBVIOUS
<1>4. SubSeq(s, n, Len(s)) # << >>
  BY <1>2, <1>3
<1>5. QED
  BY <1>1, <1>2, <1>4, HeadTailOfSubSeq

\* A sequence cut in two.
LEMMA SplitSeq ==
    ASSUME NEW T, NEW s \in Seq(T), NEW m \in 0 .. Len(s)
    PROVE  /\ SubSeq(s, 1, m) \in Seq(T) /\ Len(SubSeq(s, 1, m)) = m
           /\ SubSeq(s, m + 1, Len(s)) \in Seq(T)
           /\ Len(SubSeq(s, m + 1, Len(s))) = Len(s) - m
           /\ s = SubSeq(s, 1, m) \o SubSeq(s, m + 1, Len(s))
<1>1. /\ SubSeq(s, 1, m) \in Seq(T) /\ Len(SubSeq(s, 1, m)) = m
      /\ SubSeq(s, m + 1, Len(s)) \in Seq(T)
      /\ Len(SubSeq(s, m + 1, Len(s))) = Len(s) - m
  OBVIOUS
<1>2. SubSeq(s, 1, m) \o SubSeq(s, m + 1, Len(s)) = SubSeq(s, 1, Len(s))
  <2>1. 1 \in 1 .. Len(s) + 1 /\ m \in 1 - 1 .. Len(s) /\ Len(s) \in m .. Len(s)
    OBVIOUS
  <2>2. QED
    BY <2>1, ConcatAdjacentSubSeq
<1>3. QED
  BY <1>1, <1>2, SubSeqFull

-----------------------------------------------------------------------------
(* FlattenSeq *)

\* Its recursive function, up to the length of the sequence.
FlattenTo(seqs, f) ==
    f = [i \in 1 .. Len(seqs) |-> IF i = 1 THEN seqs[i] ELSE f[i - 1] \o seqs[i]]

SameUpto(f, g, n) == \A i \in 1 .. n : f[i] = g[i]

LEMMA FlattenExists ==
    ASSUME NEW T, NEW ss \in Seq(Seq(T))
    PROVE  \E f : FlattenTo(ss, f)
<1> DEFINE Upto(n) == \E f : f = [i \in 1 .. n |-> IF i = 1 THEN ss[i] ELSE f[i - 1] \o ss[i]]
           S == {n \in Nat : Upto(n)}
<1>1. 0 \in S
  <2>1. \E f : f = [i \in 1 .. 0 |-> IF i = 1 THEN ss[i] ELSE f[i - 1] \o ss[i]]
    <3> DEFINE g == [i \in 1 .. 0 |-> ss[i]]
    <3>1. g = [i \in 1 .. 0 |-> IF i = 1 THEN ss[i] ELSE g[i - 1] \o ss[i]]
      OBVIOUS
    <3>2. QED
      BY <3>1
  <2>2. QED
    BY <2>1
<1>2. ASSUME NEW n \in S PROVE n + 1 \in S
  <2>1. PICK f : f = [i \in 1 .. n |-> IF i = 1 THEN ss[i] ELSE f[i - 1] \o ss[i]]
    OBVIOUS
  <2> DEFINE g == [i \in 1 .. n + 1 |->
                     IF i <= n THEN f[i] ELSE IF i = 1 THEN ss[i] ELSE f[i - 1] \o ss[i]]
             h == [i \in 1 .. n + 1 |-> IF i = 1 THEN ss[i] ELSE g[i - 1] \o ss[i]]
  <2>2. ASSUME NEW i \in 1 .. n + 1 PROVE g[i] = h[i]
    <3>1. i # 1 => i - 1 \in 1 .. n + 1 /\ i - 1 <= n
      BY <1>2
    <3>2. i # 1 => g[i - 1] = f[i - 1]
      BY <3>1
    <3>3. CASE i <= n
      <4>1. g[i] = f[i] /\ i \in 1 .. n
        BY <3>3
      <4>2. f[i] = IF i = 1 THEN ss[i] ELSE f[i - 1] \o ss[i]
        BY <2>1, <4>1
      <4>3. QED
        BY <3>2, <4>1, <4>2
    <3>4. CASE i > n
      BY <3>2, <3>4
    <3>5. QED
      BY <3>3, <3>4
  <2>3. g = h
    BY <2>2
  <2>4. \E e : e = [i \in 1 .. n + 1 |-> IF i = 1 THEN ss[i] ELSE e[i - 1] \o ss[i]]
    <3> HIDE DEF g
    <3>1. g = [i \in 1 .. n + 1 |-> IF i = 1 THEN ss[i] ELSE g[i - 1] \o ss[i]]
      BY <2>3
    <3>2. QED
      BY <3>1
  <2>5. n + 1 \in Nat
    BY <1>2
  <2>6. Upto(n + 1)
    BY ONLY <2>4
  <2>7. QED
    BY ONLY <2>5, <2>6
<1> HIDE DEF S
<1>3. S = Nat
  <2>1. S \in SUBSET Nat
    BY DEF S
  <2>2. QED
    BY <1>1, <1>2, <2>1, InductionOverNat
<1>4. Len(ss) \in S
  BY <1>3
<1>5. QED
  BY <1>4 DEF S, FlattenTo

LEMMA FlattenEquation ==
    ASSUME NEW T, NEW ss \in Seq(Seq(T)), ss # << >>
    PROVE  \E f : FlattenTo(ss, f) /\ FlattenSeq(ss) = f[Len(ss)]
<1> DEFINE F == CHOOSE f : FlattenTo(ss, f)
<1>1. FlattenTo(ss, F)
  BY FlattenExists
<1>2. FlattenSeq(ss) = F[Len(ss)]
  BY DEF FlattenSeq, FlattenTo
<1>3. QED
  BY <1>1, <1>2

LEMMA FlattenUnique ==
    ASSUME NEW ss, NEW tt, NEW f, NEW g, FlattenTo(ss, f), FlattenTo(tt, g),
           NEW n \in Nat, SameUpto(ss, tt, n),
           Len(ss) \in Nat, Len(tt) \in Nat, n <= Len(ss), n <= Len(tt)
    PROVE  SameUpto(f, g, n)
<1> USE DEF SameUpto
<1> DEFINE S == {m \in Nat : m \in 1 .. n => f[m] = g[m]}
<1>1. 0 \in S
  OBVIOUS
<1>2. ASSUME NEW m \in S PROVE m + 1 \in S
  <2>1. m \in Nat /\ (m \in 1 .. n => f[m] = g[m])
    BY <1>2
  <2>2. ASSUME m + 1 \in 1 .. n PROVE f[m + 1] = g[m + 1]
    <3>1. /\ f[m + 1] = IF m + 1 = 1 THEN ss[m + 1] ELSE f[m] \o ss[m + 1]
          /\ g[m + 1] = IF m + 1 = 1 THEN tt[m + 1] ELSE g[m] \o tt[m + 1]
      <4>1. m + 1 \in 1 .. Len(ss) /\ m + 1 \in 1 .. Len(tt) /\ (m + 1) - 1 = m
        BY <2>1, <2>2
      <4>2. f[m + 1] = IF m + 1 = 1 THEN ss[m + 1] ELSE f[m] \o ss[m + 1]
        BY ONLY <4>1, FlattenTo(ss, f) DEF FlattenTo
      <4>3. g[m + 1] = IF m + 1 = 1 THEN tt[m + 1] ELSE g[m] \o tt[m + 1]
        BY ONLY <4>1, FlattenTo(tt, g) DEF FlattenTo
      <4>4. QED
        BY ONLY <4>2, <4>3
    <3>2. m # 0 => m \in 1 .. n
      BY <2>1, <2>2
    <3>3. QED
      BY <2>1, <2>2, <3>1, <3>2
  <2>3. QED
    BY <2>1, <2>2
<1> HIDE DEF S
<1>3. S = Nat
  <2>1. S \in SUBSET Nat
    BY DEF S
  <2>2. QED
    BY <1>1, <1>2, <2>1, InductionOverNat
<1>4. ASSUME NEW i \in 1 .. n PROVE f[i] = g[i]
  <2>1. i \in S
    BY <1>3
  <2>2. QED
    BY <2>1 DEF S
<1>5. QED
  BY <1>4

LEMMA FlattenEmpty == FlattenSeq(<< >>) = << >>
BY DEF FlattenSeq

LEMMA FlattenType ==
    ASSUME NEW T, NEW ss \in Seq(Seq(T))
    PROVE  FlattenSeq(ss) \in Seq(T)
<1>1. CASE ss = << >>
  BY <1>1 DEF FlattenSeq
<1>2. CASE ss # << >>
  <2>1. PICK f : FlattenTo(ss, f) /\ FlattenSeq(ss) = f[Len(ss)]
    BY <1>2, FlattenEquation
  <2> DEFINE S == {m \in Nat : m \in 1 .. Len(ss) => f[m] \in Seq(T)}
  <2>2. 0 \in S
    OBVIOUS
  <2>3. ASSUME NEW m \in S PROVE m + 1 \in S
    <3>1. m \in Nat /\ (m \in 1 .. Len(ss) => f[m] \in Seq(T))
      BY <2>3
    <3>2. ASSUME m + 1 \in 1 .. Len(ss) PROVE f[m + 1] \in Seq(T)
      <4>1. f[m + 1] = IF m + 1 = 1 THEN ss[m + 1] ELSE f[m] \o ss[m + 1]
        <5>1. (m + 1) - 1 = m
          BY <3>1
        <5>2. QED
          BY <2>1, <3>2, <5>1 DEF FlattenTo
      <4>2. ss[m + 1] \in Seq(T)
        BY <3>2
      <4>3. m # 0 => m \in 1 .. Len(ss)
        BY <3>1, <3>2
      <4>4. m # 0 => f[m] \o ss[m + 1] \in Seq(T)
        BY <3>1, <4>2, <4>3
      <4>5. QED
        BY <4>1, <4>2, <4>4
    <3>3. QED
      BY <3>1, <3>2
  <2> HIDE DEF S
  <2>4. S = Nat
    <3>1. S \in SUBSET Nat
      BY DEF S
    <3>2. QED
      BY <2>2, <2>3, <3>1, InductionOverNat
  <2>5. Len(ss) \in 1 .. Len(ss)
    BY <1>2
  <2>6. QED
    BY <2>1, <2>4, <2>5 DEF S
<1>3. QED
  BY <1>1, <1>2

\* One sequence more is concatenated at the end.
LEMMA FlattenExtend ==
    ASSUME NEW T, NEW ss \in Seq(Seq(T)), NEW tt \in Seq(Seq(T)),
           Len(tt) = Len(ss) + 1, SameUpto(ss, tt, Len(ss))
    PROVE  FlattenSeq(tt) = FlattenSeq(ss) \o tt[Len(tt)]
<1>1. tt # << >> /\ tt[Len(tt)] \in Seq(T)
  OBVIOUS
<1>2. PICK g : FlattenTo(tt, g) /\ FlattenSeq(tt) = g[Len(tt)]
  BY <1>1, FlattenEquation
<1>3. CASE ss = << >>
  <2>1. g[1] = tt[1] /\ Len(tt) = 1
    BY <1>2, <1>3 DEF FlattenTo
  <2>2. << >> \o tt[Len(tt)] = tt[Len(tt)] /\ FlattenSeq(ss) = << >>
    BY <1>1, <1>3, FlattenEmpty
  <2>3. QED
    BY <1>2, <2>1, <2>2
<1>4. CASE ss # << >>
  <2>1. PICK f : FlattenTo(ss, f) /\ FlattenSeq(ss) = f[Len(ss)]
    BY <1>4, FlattenEquation
  <2>2. Len(ss) \in Nat /\ Len(ss) # 0 /\ Len(ss) <= Len(tt) /\ Len(tt) - 1 = Len(ss)
    BY <1>4
  <2>3. SameUpto(f, g, Len(ss))
    <3>1. /\ FlattenTo(ss, f) /\ FlattenTo(tt, g) /\ SameUpto(ss, tt, Len(ss))
          /\ Len(ss) \in Nat /\ Len(tt) \in Nat /\ Len(ss) <= Len(ss) /\ Len(ss) <= Len(tt)
      BY <1>2, <2>1, <2>2
    <3>2. QED
      BY ONLY <3>1, FlattenUnique
  <2>4. f[Len(ss)] = g[Len(ss)]
    <3>1. Len(ss) \in 1 .. Len(ss)
      BY <2>2
    <3>2. QED
      BY ONLY <3>1, <2>3 DEF SameUpto
  <2>5. g[Len(tt)] = g[Len(tt) - 1] \o tt[Len(tt)]
    <3>1. Len(tt) \in 1 .. Len(tt) /\ Len(tt) # 1
      BY <1>1, <2>2
    <3>2. QED
      BY <1>2, <3>1 DEF FlattenTo
  <2>6. QED
    BY <1>2, <2>1, <2>2, <2>4, <2>5
<1>5. QED
  BY <1>3, <1>4

\* t is s and something behind it.
Extension(T, s, t) == \E rest \in Seq(T) : t = s \o rest

LEMMA ExtensionReflexive ==
    ASSUME NEW T, NEW s \in Seq(T)
    PROVE  Extension(T, s, s)
<1>1. s = s \o << >> /\ << >> \in Seq(T)
  OBVIOUS
<1>2. QED
  BY <1>1 DEF Extension

LEMMA ExtensionTransitive ==
    ASSUME NEW T, NEW s \in Seq(T), NEW t, NEW u, Extension(T, s, t), Extension(T, t, u)
    PROVE  Extension(T, s, u)
<1>1. PICK v \in Seq(T), w \in Seq(T) : t = s \o v /\ u = t \o w
  BY DEF Extension
<1>2. u = s \o (v \o w) /\ v \o w \in Seq(T)
  BY <1>1, ConcatAssociative
<1>3. QED
  BY <1>2 DEF Extension

LEMMA ExtensionIsPrefix ==
    ASSUME NEW T, NEW s \in Seq(T), NEW t, Extension(T, s, t)
    PROVE  IsPrefix(s, t)
<1>1. PICK rest \in Seq(T) : t = s \o rest
  BY DEF Extension
<1>2. Len(s) <= Len(t) /\ SubSeq(t, 1, Len(s)) = s /\ SubSeq(s, 1, Len(s)) = s
  BY <1>1, SubSeqOfConcat1, SubSeqFull, ConcatProperties
<1>3. QED
  BY <1>2 DEF IsPrefix

\* What the first 0, 1, ... sequences of tt give.
Stages(T, tt, flat) ==
    /\ flat \in [0 .. Len(tt) -> Seq(T)]
    /\ flat[Len(tt)] = FlattenSeq(tt)
    /\ \A n \in Nat : n + 1 <= Len(tt) => flat[n + 1] = flat[n] \o tt[n + 1]

LEMMA FlattenStages ==
    ASSUME NEW T, NEW ss \in Seq(Seq(T)), NEW tt \in Seq(Seq(T)),
           Len(ss) <= Len(tt), SameUpto(ss, tt, Len(ss))
    PROVE  \E flat : Stages(T, tt, flat) /\ flat[Len(ss)] = FlattenSeq(ss)
<1>1. PICK first : first = [n \in 0 .. Len(tt) |-> SubSeq(tt, 1, n)]
  OBVIOUS
<1>2. ASSUME NEW n \in 0 .. Len(tt)
      PROVE  first[n] \in Seq(Seq(T)) /\ Len(first[n]) = n /\ \A i \in 1 .. n : first[n][i] = tt[i]
  BY <1>1
<1>3. PICK l \in Nat, m \in Nat : l = Len(ss) /\ m = Len(tt)
  OBVIOUS
<1>4. l \in 0 .. m /\ m \in 0 .. m /\ first[l] = ss /\ first[m] = tt
  <2>1. l \in 0 .. m /\ m \in 0 .. m
    BY <1>3
  <2>2. PICK s \in Seq(Seq(T)), t \in Seq(Seq(T)) : s = first[l] /\ t = first[m]
    BY <1>2, <1>3, <2>1
  <2>3. Len(s) = Len(ss) /\ \A i \in 1 .. Len(ss) : s[i] = ss[i]
    BY <1>2, <1>3, <2>1, <2>2 DEF SameUpto
  <2>4. Len(t) = Len(tt) /\ \A i \in 1 .. Len(tt) : t[i] = tt[i]
    BY <1>2, <1>3, <2>1, <2>2
  <2>5. s = ss /\ t = tt
    BY <2>3, <2>4, SeqEqual
  <2>6. QED
    BY <2>1, <2>2, <2>5
<1>5. PICK flat : flat = [n \in 0 .. m |-> FlattenSeq(first[n])]
  OBVIOUS
<1>6. flat \in [0 .. m -> Seq(T)]
  BY <1>2, <1>3, <1>5, FlattenType
<1>7. ASSUME NEW n \in Nat, n + 1 <= m
      PROVE  flat[n + 1] = flat[n] \o tt[n + 1]
  <2>1. n \in 0 .. m /\ n + 1 \in 0 .. m /\ n + 1 \in 1 .. n + 1
    BY <1>3, <1>7
  <2>2. PICK s \in Seq(Seq(T)), t \in Seq(Seq(T)) : s = first[n] /\ t = first[n + 1]
    BY <1>2, <1>3, <2>1
  <2>3. Len(t) = Len(s) + 1 /\ SameUpto(s, t, Len(s))
    <3>1. Len(s) = n /\ Len(t) = n + 1
      BY <1>2, <1>3, <2>1, <2>2
    <3>2. \A i \in 1 .. n : s[i] = tt[i]
      BY <1>2, <1>3, <2>1, <2>2
    <3>3. \A i \in 1 .. n + 1 : t[i] = tt[i]
      BY <1>2, <1>3, <2>1, <2>2
    <3>4. \A i \in 1 .. n : i \in 1 .. n + 1
      OBVIOUS
    <3>5. QED
      BY <3>1, <3>2, <3>3, <3>4 DEF SameUpto
  <2>4. FlattenSeq(t) = FlattenSeq(s) \o t[Len(t)]
    BY <2>3, FlattenExtend
  <2>5. Len(t) = n + 1 /\ t[n + 1] = tt[n + 1]
    BY <1>2, <1>3, <2>1, <2>2
  <2>6. QED
    BY <1>5, <2>1, <2>2, <2>4, <2>5
<1>8. Stages(T, tt, flat)
  <2>1. flat[m] = FlattenSeq(tt)
    BY <1>4, <1>5
  <2>2. QED
    BY <1>3, <1>6, <1>7, <2>1 DEF Stages
<1>9. flat[l] = FlattenSeq(ss)
  BY <1>4, <1>5
<1>10. QED
  BY <1>3, <1>8, <1>9

\* What the first sequences give is the beginning of what all of them give.
LEMMA FlattenPrefix ==
    ASSUME NEW T, NEW ss \in Seq(Seq(T)), NEW tt \in Seq(Seq(T)),
           Len(ss) <= Len(tt), SameUpto(ss, tt, Len(ss))
    PROVE  Extension(T, FlattenSeq(ss), FlattenSeq(tt))
<1>1. PICK flat : Stages(T, tt, flat) /\ flat[Len(ss)] = FlattenSeq(ss)
  BY FlattenStages
<1>2. PICK l \in Nat, m \in Nat : l = Len(ss) /\ m = Len(tt)
  OBVIOUS
<1>3. /\ l <= m /\ flat[l] = FlattenSeq(ss) /\ flat[m] = FlattenSeq(tt)
      /\ \A n \in 0 .. m : flat[n] \in Seq(T)
  BY <1>1, <1>2 DEF Stages
<1>4. ASSUME NEW n \in Nat, n + 1 <= m PROVE Extension(T, flat[n], flat[n + 1])
  <2>1. n + 1 \in 1 .. Len(tt)
    BY <1>2, <1>4
  <2>2. tt[n + 1] \in Seq(T)
    BY <2>1
  <2>3. flat[n + 1] = flat[n] \o tt[n + 1]
    BY <1>1, <1>2, <1>4 DEF Stages
  <2>4. QED
    BY <2>2, <2>3 DEF Extension
<1> DEFINE S == {n \in Nat : l + n <= m => Extension(T, flat[l], flat[l + n])}
<1>5. 0 \in S
  <2>1. l + 0 = l /\ flat[l] \in Seq(T)
    BY <1>3
  <2>2. QED
    BY <2>1, ExtensionReflexive
<1>6. ASSUME NEW n \in S PROVE n + 1 \in S
  <2>1. n \in Nat /\ (l + n <= m => Extension(T, flat[l], flat[l + n]))
    BY <1>6
  <2>2. ASSUME l + (n + 1) <= m
        PROVE  Extension(T, flat[l], flat[l + (n + 1)])
    <3>1. l + n \in Nat /\ l + n <= m /\ (l + n) + 1 = l + (n + 1)
      BY <2>1, <2>2
    <3>2. Extension(T, flat[l], flat[l + n])
      BY <2>1, <3>1
    <3>3. Extension(T, flat[l + n], flat[l + (n + 1)])
      BY <1>4, <2>2, <3>1
    <3>4. flat[l] \in Seq(T)
      BY <1>3
    <3>5. QED
      BY <3>2, <3>3, <3>4, ExtensionTransitive
  <2>3. n + 1 \in Nat
    BY <2>1
  <2>4. QED
    BY <2>2, <2>3
<1> HIDE DEF S
<1>7. S = Nat
  <2>1. S \in SUBSET Nat
    BY DEF S
  <2>2. QED
    BY <1>5, <1>6, <2>1, InductionOverNat
<1>8. m - l \in S /\ l + (m - l) = m
  BY <1>3, <1>7
<1>9. Extension(T, flat[l], flat[m])
  BY <1>8 DEF S
<1>10. QED
  BY <1>3, <1>9

\* Empty sequences at the end give nothing.
EmptyBehind(tt, n) == \A i \in n + 1 .. Len(tt) : tt[i] = << >>

LEMMA FlattenTrailing ==
    ASSUME NEW T, NEW ss \in Seq(Seq(T)), NEW tt \in Seq(Seq(T)),
           Len(ss) <= Len(tt), SameUpto(ss, tt, Len(ss)), EmptyBehind(tt, Len(ss))
    PROVE  FlattenSeq(tt) = FlattenSeq(ss)
<1>1. PICK flat : Stages(T, tt, flat) /\ flat[Len(ss)] = FlattenSeq(ss)
  BY FlattenStages
<1>2. PICK l \in Nat, m \in Nat : l = Len(ss) /\ m = Len(tt)
  OBVIOUS
<1>3. /\ l <= m /\ flat[l] = FlattenSeq(ss) /\ flat[m] = FlattenSeq(tt)
      /\ \A n \in 0 .. m : flat[n] \in Seq(T)
  BY <1>1, <1>2 DEF Stages
<1>4. ASSUME NEW n \in Nat, l <= n, n + 1 <= m PROVE flat[n + 1] = flat[n]
  <2>1. n + 1 \in l + 1 .. m
    BY <1>4
  <2>2. tt[n + 1] = << >>
    BY <1>2, <2>1 DEF EmptyBehind
  <2>3. flat[n + 1] = flat[n] \o tt[n + 1]
    BY <1>1, <1>2, <1>4 DEF Stages
  <2>4. flat[n] \in Seq(T)
    BY <1>3, <1>4
  <2>5. QED
    BY <2>2, <2>3, <2>4, ConcatEmptySeq
<1> DEFINE S == {n \in Nat : l + n <= m => flat[l + n] = flat[l]}
<1>5. 0 \in S
  OBVIOUS
<1>6. ASSUME NEW n \in S PROVE n + 1 \in S
  <2>1. n \in Nat /\ (l + n <= m => flat[l + n] = flat[l])
    BY <1>6
  <2>2. ASSUME l + (n + 1) <= m PROVE flat[l + (n + 1)] = flat[l]
    <3>1. l + n \in Nat /\ l + n <= m /\ l <= l + n /\ (l + n) + 1 = l + (n + 1)
      BY <2>1, <2>2
    <3>2. QED
      BY <1>4, <2>1, <2>2, <3>1
  <2>3. n + 1 \in Nat
    BY <2>1
  <2>4. QED
    BY <2>2, <2>3
<1> HIDE DEF S
<1>7. S = Nat
  <2>1. S \in SUBSET Nat
    BY DEF S
  <2>2. QED
    BY <1>5, <1>6, <2>1, InductionOverNat
<1>8. m - l \in S /\ l + (m - l) = m
  BY <1>3, <1>7
<1>9. flat[m] = flat[l]
  BY <1>8 DEF S
<1>10. QED
  BY <1>3, <1>9

LEMMA FlattenAllEmpty ==
    ASSUME NEW T, NEW tt \in Seq(Seq(T)), EmptyBehind(tt, 0)
    PROVE  FlattenSeq(tt) = << >>
<1>1. PICK ss \in Seq(Seq(T)) : ss = << >>
  <2>1. << >> \in Seq(Seq(T))
    BY EmptySeq
  <2>2. QED
    BY <2>1
<1>2. Len(ss) = 0 /\ Len(ss) <= Len(tt) /\ SameUpto(ss, tt, Len(ss)) /\ EmptyBehind(tt, Len(ss))
  BY <1>1 DEF SameUpto
<1>3. QED
  BY <1>1, <1>2, FlattenTrailing, FlattenEmpty

\* One of the sequences is filled, and those behind it are empty.
LEMMA FlattenFill ==
    ASSUME NEW T, NEW ss \in Seq(Seq(T)), NEW tt \in Seq(Seq(T)), NEW i \in 1 .. Len(tt),
           Len(ss) = Len(tt), SameUpto(ss, tt, i - 1),
           EmptyBehind(ss, i - 1), EmptyBehind(tt, i)
    PROVE  FlattenSeq(tt) = FlattenSeq(ss) \o tt[i]
<1>1. PICK short : short = SubSeq(ss, 1, i - 1)
  OBVIOUS
<1>2. PICK full : full = SubSeq(tt, 1, i)
  OBVIOUS
<1>3. i \in Nat /\ i - 1 \in 0 .. Len(ss) /\ i \in 0 .. Len(tt) /\ i \in 1 .. i
  OBVIOUS
<1>4. /\ short \in Seq(Seq(T)) /\ Len(short) = i - 1
      /\ full \in Seq(Seq(T)) /\ Len(full) = i
  BY <1>1, <1>2, <1>3, SplitSeq
<1>5. /\ \A k \in 1 .. i - 1 : short[k] = ss[k]
      /\ \A k \in 1 .. i : full[k] = tt[k]
  BY <1>1, <1>2
<1>6. SameUpto(short, ss, i - 1) /\ SameUpto(full, tt, i) /\ SameUpto(short, full, i - 1)
  BY <1>3, <1>5 DEF SameUpto
<1>7. FlattenSeq(ss) = FlattenSeq(short)
  <2>1. Len(short) <= Len(ss) /\ SameUpto(short, ss, Len(short)) /\ EmptyBehind(ss, Len(short))
    BY <1>3, <1>4, <1>6
  <2>2. QED
    BY <1>4, <2>1, FlattenTrailing
<1>8. FlattenSeq(tt) = FlattenSeq(full)
  <2>1. Len(full) <= Len(tt) /\ SameUpto(full, tt, Len(full)) /\ EmptyBehind(tt, Len(full))
    BY <1>3, <1>4, <1>6
  <2>2. QED
    BY <1>4, <2>1, FlattenTrailing
<1>9. FlattenSeq(full) = FlattenSeq(short) \o full[Len(full)]
  <2>1. Len(full) = Len(short) + 1 /\ SameUpto(short, full, Len(short))
    BY <1>3, <1>4, <1>6
  <2>2. QED
    BY <1>4, <2>1, FlattenExtend
<1>10. full[Len(full)] = tt[i]
  BY <1>3, <1>4, <1>5
<1>11. QED
  BY <1>7, <1>8, <1>9, <1>10

\* Where the elements of the concatenation come from: sequence by sequence, and
\* element by element within one.
InOrder(p, q) == p[1] < q[1] \/ (p[1] = q[1] /\ p[2] < q[2])
Places(ss, flat, at) ==
    /\ at \in [1 .. Len(flat) -> Nat \X Nat]
    /\ \A n \in 1 .. Len(flat) :
          /\ at[n][1] \in 1 .. Len(ss) /\ at[n][2] \in 1 .. Len(ss[at[n][1]])
          /\ flat[n] = ss[at[n][1]][at[n][2]]
    /\ \A n, l \in 1 .. Len(flat) : n < l => InOrder(at[n], at[l])
    /\ \A k \in 1 .. Len(ss) : \A b \in 1 .. Len(ss[k]) : \E n \in 1 .. Len(flat) : at[n] = <<k, b>>

\* The elements of one sequence more come last.
LEMMA PlacesExtend ==
    ASSUME NEW T, NEW ss \in Seq(Seq(T)), NEW tt \in Seq(Seq(T)),
           Len(tt) = Len(ss) + 1, SameUpto(ss, tt, Len(ss)),
           NEW flat \in Seq(T), NEW at, Places(ss, flat, at)
    PROVE  \E new : Places(tt, flat \o tt[Len(tt)], new)
<1>1. PICK m \in Nat : m = Len(ss)
  OBVIOUS
<1>2. Len(tt) = m + 1 /\ tt[m + 1] \in Seq(T) /\ \A k \in 1 .. m : tt[k] = ss[k]
  <2>1. Len(tt) = m + 1
    BY <1>1
  <2>2. m + 1 \in 1 .. Len(tt)
    BY <2>1
  <2>3. tt[m + 1] \in Seq(T)
    BY <2>2
  <2>4. \A k \in 1 .. m : tt[k] = ss[k]
    BY <1>1 DEF SameUpto
  <2>5. QED
    BY <2>1, <2>3, <2>4
<1>3. PICK last \in Seq(T) : last = tt[m + 1]
  BY <1>2
<1>4. PICK x \in Nat : x = Len(flat)
  OBVIOUS
<1>5. PICK y \in Nat : y = Len(last)
  OBVIOUS
<1>6. PICK all : all = flat \o last
  OBVIOUS
<1>7. /\ Len(all) = x + y /\ \A n \in 1 .. x : all[n] = flat[n]
      /\ \A n \in x + 1 .. x + y : all[n] = last[n - x]
  BY <1>4, <1>5, <1>6
<1> DEFINE new == [n \in 1 .. x + y |-> IF n <= x THEN at[n] ELSE <<m + 1, n - x>>]
<1>8. /\ at \in [1 .. x -> Nat \X Nat]
      /\ \A n \in 1 .. x : /\ at[n][1] \in 1 .. m /\ at[n][2] \in 1 .. Len(ss[at[n][1]])
                           /\ flat[n] = ss[at[n][1]][at[n][2]]
      /\ \A n, l \in 1 .. x : n < l => InOrder(at[n], at[l])
      /\ \A k \in 1 .. m : \A b \in 1 .. Len(ss[k]) : \E n \in 1 .. x : at[n] = <<k, b>>
  BY <1>1, <1>4 DEF Places
<1>9. \A n \in 1 .. x : new[n] = at[n]
  OBVIOUS
<1>10. \A n \in x + 1 .. x + y : new[n] = <<m + 1, n - x>>
  OBVIOUS
<1>11. \A n \in 1 .. x + y : n \in 1 .. x \/ n \in x + 1 .. x + y
  OBVIOUS
<1>12. new \in [1 .. x + y -> Nat \X Nat]
  <2>1. ASSUME NEW n \in 1 .. x + y
        PROVE  (IF n <= x THEN at[n] ELSE <<m + 1, n - x>>) \in Nat \X Nat
    <3>1. CASE n <= x
      BY <1>8, <3>1
    <3>2. CASE ~(n <= x)
      <4>1. n - x \in Nat /\ m + 1 \in Nat
        BY <3>2
      <4>2. QED
        BY <3>2, <4>1
    <3>3. QED
      BY <3>1, <3>2
  <2>2. QED
    BY <2>1
<1> HIDE DEF new
<1>13. ASSUME NEW n \in 1 .. x + y
       PROVE  /\ new[n][1] \in 1 .. m + 1 /\ new[n][2] \in 1 .. Len(tt[new[n][1]])
              /\ all[n] = tt[new[n][1]][new[n][2]]
  <2>1. CASE n \in 1 .. x
    <3>1. PICK p : p = at[n]
      OBVIOUS
    <3>2. p[1] \in 1 .. m /\ p[2] \in 1 .. Len(ss[p[1]]) /\ flat[n] = ss[p[1]][p[2]]
      BY <1>8, <2>1, <3>1
    <3>3. tt[p[1]] = ss[p[1]] /\ p[1] \in 1 .. m + 1
      <4>1. PICK k \in 1 .. m : k = p[1]
        BY <3>2
      <4>2. tt[k] = ss[k] /\ k \in 1 .. m + 1
        BY <1>2
      <4>3. QED
        BY <4>1, <4>2
    <3>4. new[n] = p /\ all[n] = flat[n]
      BY <1>7, <1>9, <2>1, <3>1
    <3>5. QED
      BY <3>2, <3>3, <3>4
  <2>2. CASE n \in x + 1 .. x + y
    <3>1. new[n][1] = m + 1 /\ new[n][2] = n - x
      BY <1>10, <2>2
    <3>2. n - x \in 1 .. y /\ m + 1 \in 1 .. m + 1
      BY <2>2
    <3>3. all[n] = last[n - x]
      BY <1>7, <2>2
    <3>4. QED
      BY <1>3, <1>5, <3>1, <3>2, <3>3
  <2>3. QED
    BY <1>11, <2>1, <2>2
<1>14. ASSUME NEW n \in 1 .. x + y, NEW l \in 1 .. x + y, n < l
       PROVE  InOrder(new[n], new[l])
  <2>1. CASE l \in 1 .. x
    <3>1. n \in 1 .. x
      BY <1>14, <2>1
    <3>2. new[n] = at[n] /\ new[l] = at[l]
      BY ONLY <1>9, <2>1, <3>1
    <3>3. InOrder(at[n], at[l])
      BY ONLY <1>8, <1>14, <2>1, <3>1
    <3>4. QED
      BY <3>2, <3>3
  <2>2. CASE n \in 1 .. x /\ l \in x + 1 .. x + y
    <3>1. at[n][1] \in 1 .. m
      BY <1>8, <2>2
    <3>2. new[n] = at[n]
      BY ONLY <1>9, <2>2
    <3>3. new[l] = <<m + 1, l - x>>
      BY ONLY <1>10, <2>2
    <3>4. new[n][1] \in 1 .. m /\ new[l][1] = m + 1
      BY <3>1, <3>2, <3>3
    <3>5. QED
      BY <3>4 DEF InOrder
  <2>3. CASE n \in x + 1 .. x + y /\ l \in x + 1 .. x + y
    <3>1. new[n] = <<m + 1, n - x>> /\ new[l] = <<m + 1, l - x>>
      BY ONLY <1>10, <2>3
    <3>2. n - x < l - x
      BY <1>14
    <3>3. QED
      BY <3>1, <3>2 DEF InOrder
  <2>4. QED
    BY <1>11, <1>14, <2>1, <2>2, <2>3
<1>15. ASSUME NEW k \in 1 .. m + 1, NEW b \in 1 .. Len(tt[k])
       PROVE  \E n \in 1 .. x + y : new[n] = <<k, b>>
  <2>1. CASE k \in 1 .. m
    <3>1. b \in 1 .. Len(ss[k])
      BY <1>2, <2>1
    <3>2. PICK n \in 1 .. x : at[n] = <<k, b>>
      BY <1>8, <2>1, <3>1
    <3>3. n \in 1 .. x + y /\ new[n] = <<k, b>>
      BY <1>9, <3>2
    <3>4. QED
      BY <3>3
  <2>2. CASE k = m + 1
    <3>1. b \in 1 .. y
      BY <1>3, <1>5, <2>2
    <3>2. b + x \in x + 1 .. x + y /\ b + x \in 1 .. x + y /\ (b + x) - x = b
      BY <3>1
    <3>3. new[b + x] = <<k, b>>
      BY <1>10, <2>2, <3>2
    <3>4. QED
      BY <3>2, <3>3
  <2>3. QED
    BY <2>1, <2>2
<1>16. Places(tt, all, new)
  <2>1. PICK z : z = x + y
    OBVIOUS
  <2>2. Len(all) = z
    BY <1>7, <2>1
  <2>3. /\ new \in [1 .. z -> Nat \X Nat]
        /\ \A n, l \in 1 .. z : n < l => InOrder(new[n], new[l])
    BY <1>12, <1>14, <2>1
  <2>4. \A n \in 1 .. z : /\ new[n][1] \in 1 .. Len(tt)
                           /\ new[n][2] \in 1 .. Len(tt[new[n][1]])
                           /\ all[n] = tt[new[n][1]][new[n][2]]
    BY <1>2, <1>13, <2>1
  <2>5. \A k \in 1 .. Len(tt) : \A b \in 1 .. Len(tt[k]) : \E n \in 1 .. z : new[n] = <<k, b>>
    BY <1>2, <1>15, <2>1
  <2>6. QED
    BY ONLY <2>2, <2>3, <2>4, <2>5 DEF Places
<1>17. QED
  BY <1>2, <1>3, <1>6, <1>16

\* Every element of the concatenation has its place, in order, and every place
\* its element.
LEMMA FlattenPlaces ==
    ASSUME NEW T, NEW ss \in Seq(Seq(T))
    PROVE  \E at : Places(ss, FlattenSeq(ss), at)
<1> DEFINE S == {n \in Nat : \A tt \in Seq(Seq(T)) :
                    Len(tt) = n => \E at : Places(tt, FlattenSeq(tt), at)}
<1>1. 0 \in S
  <2>1. ASSUME NEW tt \in Seq(Seq(T)), Len(tt) = 0
        PROVE  \E at : Places(tt, FlattenSeq(tt), at)
    <3>1. tt = << >> /\ FlattenSeq(tt) = << >>
      BY <2>1, FlattenEmpty
    <3>2. Places(tt, << >>, << >>)
      BY <3>1 DEF Places
    <3>3. QED
      BY <3>1, <3>2
  <2>2. QED
    BY <2>1
<1>2. ASSUME NEW n \in S PROVE n + 1 \in S
  <2>1. ASSUME NEW tt \in Seq(Seq(T)), Len(tt) = n + 1
        PROVE  \E at : Places(tt, FlattenSeq(tt), at)
    <3>1. n \in Nat
      BY <1>2
    <3>2. PICK uu : uu = [k \in 1 .. n |-> tt[k]]
      OBVIOUS
    <3>3. uu \in Seq(Seq(T)) /\ Len(uu) = n /\ SameUpto(uu, tt, n)
      BY <2>1, <3>1, <3>2 DEF SameUpto
    <3>4. PICK at : Places(uu, FlattenSeq(uu), at)
      BY <1>2, <3>3
    <3>5. FlattenSeq(uu) \in Seq(T)
      BY <3>3, FlattenType
    <3>6. FlattenSeq(tt) = FlattenSeq(uu) \o tt[Len(tt)]
      BY <2>1, <3>3, FlattenExtend
    <3>7. \E new : Places(tt, FlattenSeq(uu) \o tt[Len(tt)], new)
      BY <2>1, <3>3, <3>4, <3>5, PlacesExtend
    <3>8. QED
      BY <3>6, <3>7
  <2>2. n + 1 \in Nat
    BY <1>2
  <2>3. QED
    BY <2>1, <2>2
<1> HIDE DEF S
<1>3. S = Nat
  <2>1. S \in SUBSET Nat
    BY DEF S
  <2>2. QED
    BY <1>1, <1>2, <2>1, InductionOverNat
<1>4. Len(ss) \in S
  BY <1>3
<1>5. QED
  BY <1>4 DEF S

-----------------------------------------------------------------------------
(* The common list *)

CommonTo(V, g) == g = [n \in 0 .. Len(V) |-> IF n = 0 THEN << >> ELSE Meet(g[n - 1], V[n])]

\* The recursive function of Common has a solution on its whole domain.
LEMMA CommonExists ==
    ASSUME NEW V, Len(V) \in Nat
    PROVE  \E g : CommonTo(V, g)
<1> DEFINE Upto(n) == \E g : g = [i \in 0 .. n |-> IF i = 0 THEN << >> ELSE Meet(g[i - 1], V[i])]
           S == {n \in Nat : Upto(n)}
<1>1. 0 \in S
  <2> DEFINE g == [i \in 0 .. 0 |-> << >>]
  <2>1. g = [i \in 0 .. 0 |-> IF i = 0 THEN << >> ELSE Meet(g[i - 1], V[i])]
    OBVIOUS
  <2>2. Upto(0)
    <3> HIDE DEF g
    <3>1. QED
      BY <2>1
  <2>3. QED
    BY <2>2
<1>2. ASSUME NEW n \in S PROVE n + 1 \in S
  <2>1. PICK g : g = [i \in 0 .. n |-> IF i = 0 THEN << >> ELSE Meet(g[i - 1], V[i])]
    OBVIOUS
  <2>2. n \in Nat
    OBVIOUS
  <2> DEFINE h == [i \in 0 .. n + 1 |-> IF i <= n THEN g[i] ELSE Meet(g[i - 1], V[i])]
             t == [i \in 0 .. n + 1 |-> IF i = 0 THEN << >> ELSE Meet(h[i - 1], V[i])]
  <2>3. ASSUME NEW i \in 0 .. n + 1 PROVE h[i] = t[i]
    <3>1. i # 0 => h[i - 1] = g[i - 1]
      BY <2>2
    <3>2. CASE i <= n
      <4>1. h[i] = g[i] /\ i \in 0 .. n
        BY <2>2, <3>2
      <4>2. g[i] = IF i = 0 THEN << >> ELSE Meet(g[i - 1], V[i])
        BY <2>1, <4>1
      <4>3. QED
        BY <3>1, <4>1, <4>2
    <3>3. CASE i > n
      BY <2>2, <3>1, <3>3
    <3>4. QED
      BY <2>2, <3>2, <3>3
  <2>4. h = t
    BY <2>3
  <2>5. \E e : e = [i \in 0 .. n + 1 |-> IF i = 0 THEN << >> ELSE Meet(e[i - 1], V[i])]
    <3> HIDE DEF h
    <3>1. h = [i \in 0 .. n + 1 |-> IF i = 0 THEN << >> ELSE Meet(h[i - 1], V[i])]
      BY <2>4
    <3>2. QED
      BY <3>1
  <2>6. Upto(n + 1)
    BY ONLY <2>5
  <2>7. n + 1 \in Nat
    BY <2>2
  <2>8. QED
    BY ONLY <2>6, <2>7
<1> HIDE DEF S
<1>3. S = Nat
  <2>1. S \in SUBSET Nat
    BY DEF S
  <2>2. QED
    BY <1>1, <1>2, <2>1, InductionOverNat
<1>4. Len(V) \in S
  BY <1>3
<1>5. QED
  BY <1>4 DEF S, CommonTo

\* Common is the last value of such a function.
LEMMA CommonEquation ==
    ASSUME NEW V, Len(V) \in Nat
    PROVE  \E g : CommonTo(V, g) /\ Common(V) = g[Len(V)]
<1> DEFINE g == CHOOSE g : CommonTo(V, g)
<1>1. CommonTo(V, g)
  BY CommonExists
<1>2. Common(V) = g[Len(V)]
  BY DEF Common, CommonTo
<1>3. QED
  BY <1>1, <1>2

\* The sensor n of the lists visited is the first of those kept with its name.
FirstAt(V, n, name) ==
    /\ n \in 1 .. Len(V) /\ V[n].keep /\ V[n].name = name
    /\ \A l \in 1 .. n - 1 : V[l].keep => V[l].name # name

\* The first n sensors visited have been given the columns `cols`, in the order
\* of the first of each name.
ColumnsOf(V, n, cols) ==
    /\ cols \in Seq(SensorType)
    /\ \A i \in 1 .. Len(cols) : cols[i].index = i - 1
    /\ \A l \in 1 .. n : V[l].keep => \E i \in 1 .. Len(cols) : cols[i].name = V[l].name
    /\ \E at \in [1 .. Len(cols) -> 1 .. n] :
          /\ \A i \in 1 .. Len(cols) :
                FirstAt(V, at[i], cols[i].name) /\ cols[i].size = V[at[i]].size
          /\ \A i, j \in 1 .. Len(cols) : i < j => at[i] < at[j]

\* One sensor more.
LEMMA MeetOne ==
    ASSUME NEW V \in Seq(SensorType), NEW n \in Nat, n < Len(V),
           NEW cols, ColumnsOf(V, n, cols)
    PROVE  ColumnsOf(V, n + 1, Meet(cols, V[n + 1]))
<1>1. n + 1 \in 1 .. Len(V)
  OBVIOUS
<1>2. PICK s \in SensorType : s = V[n + 1]
  BY <1>1
<1>3. cols \in Seq(SensorType)
  BY DEF ColumnsOf
<1>4. PICK x \in Nat : x = Len(cols)
  BY <1>3
<1>5. PICK at \in [1 .. x -> 1 .. n] :
          /\ \A i \in 1 .. x : FirstAt(V, at[i], cols[i].name) /\ cols[i].size = V[at[i]].size
          /\ \A i, j \in 1 .. x : i < j => at[i] < at[j]
  BY <1>4 DEF ColumnsOf
<1>6. \A l \in 1 .. n : V[l].keep => \E i \in 1 .. x : cols[i].name = V[l].name
  BY <1>4 DEF ColumnsOf
<1>7. \A l \in 1 .. n + 1 : l \in 1 .. n \/ l = n + 1
  OBVIOUS
<1>8. (\E a \in ToSet(cols) : a.name = s.name) <=> \E i \in 1 .. x : cols[i].name = s.name
  BY <1>3, <1>4 DEF ToSet
<1>9. CASE ~s.keep \/ \E i \in 1 .. x : cols[i].name = s.name
  <2>1. Meet(cols, s) = cols
    BY <1>8, <1>9 DEF Meet
  <2>2. \A l \in 1 .. n + 1 : V[l].keep => \E i \in 1 .. x : cols[i].name = V[l].name
    BY <1>2, <1>6, <1>7, <1>9
  <2>3. at \in [1 .. x -> 1 .. n + 1]
    OBVIOUS
  <2>4. ColumnsOf(V, n + 1, cols)
    BY <1>3, <1>4, <1>5, <2>2, <2>3 DEF ColumnsOf
  <2>5. QED
    BY <1>2, <2>1, <2>4
<1>10. CASE s.keep /\ \A i \in 1 .. x : cols[i].name # s.name
  <2>1. PICK new : new = [s EXCEPT !.index = x]
    OBVIOUS
  <2>2. new \in SensorType /\ new.index = x /\ new.name = s.name /\ new.size = s.size
    <3>1. s = [name |-> s.name, size |-> s.size, index |-> s.index,
               keep |-> s.keep, crit |-> s.crit]
      BY <1>2 DEF SensorType
    <3>2. new = [name |-> s.name, size |-> s.size, index |-> x,
                 keep |-> s.keep, crit |-> s.crit]
      BY <2>1, <3>1
    <3>3. s.name \in STRING /\ s.size \in Nat /\ s.keep \in BOOLEAN /\ s.crit \in BOOLEAN /\ x \in Int
      BY <1>2 DEF SensorType
    <3>4. QED
      BY <3>2, <3>3 DEF SensorType
  <2>3. PICK more : more = Append(cols, new)
    OBVIOUS
  <2>4. Meet(cols, s) = more
    BY <1>4, <1>8, <1>10, <2>1, <2>3 DEF Meet
  <2>5. /\ more \in Seq(SensorType) /\ Len(more) = x + 1 /\ more[x + 1] = new
        /\ \A i \in 1 .. x : more[i] = cols[i]
    BY <1>3, <1>4, <2>2, <2>3
  <2>6. \A i \in 1 .. x + 1 : i \in 1 .. x \/ i = x + 1
    OBVIOUS
  <2>7. \A i \in 1 .. x + 1 : more[i].index = i - 1
    BY <1>4, <2>2, <2>5, <2>6 DEF ColumnsOf
  <2>8. \A l \in 1 .. n + 1 : V[l].keep => \E i \in 1 .. x + 1 : more[i].name = V[l].name
    <3>1. ASSUME NEW l \in 1 .. n, V[l].keep PROVE \E i \in 1 .. x + 1 : more[i].name = V[l].name
      <4>1. PICK i \in 1 .. x : cols[i].name = V[l].name
        BY <1>6, <3>1
      <4>2. i \in 1 .. x + 1 /\ more[i] = cols[i]
        BY <2>5
      <4>3. QED
        BY <4>1, <4>2
    <3>2. more[x + 1].name = V[n + 1].name /\ x + 1 \in 1 .. x + 1
      BY <1>2, <2>2, <2>5
    <3>3. QED
      BY <1>7, <3>1, <3>2
  <2> DEFINE att == [i \in 1 .. x + 1 |-> IF i <= x THEN at[i] ELSE n + 1]
  <2>9. att \in [1 .. x + 1 -> 1 .. n + 1] /\ att[x + 1] = n + 1 /\ \A i \in 1 .. x : att[i] = at[i]
    OBVIOUS
  <2> HIDE DEF att
  <2>10. FirstAt(V, n + 1, s.name)
    <3>1. ASSUME NEW l \in 1 .. (n + 1) - 1, V[l].keep PROVE V[l].name # s.name
      <4>1. l \in 1 .. n
        OBVIOUS
      <4>2. QED
        BY <1>6, <1>10, <3>1, <4>1
    <3>2. QED
      BY <1>1, <1>2, <1>10, <3>1 DEF FirstAt
  <2>11. \A i \in 1 .. x + 1 : FirstAt(V, att[i], more[i].name) /\ more[i].size = V[att[i]].size
    <3>1. \A i \in 1 .. x : FirstAt(V, att[i], more[i].name) /\ more[i].size = V[att[i]].size
      BY <1>5, <2>5, <2>9
    <3>2. FirstAt(V, att[x + 1], more[x + 1].name) /\ more[x + 1].size = V[att[x + 1]].size
      BY <1>2, <2>2, <2>5, <2>9, <2>10
    <3>3. QED
      BY <2>6, <3>1, <3>2
  <2>12. \A i, j \in 1 .. x + 1 : i < j => att[i] < att[j]
    <3>1. TAKE i, j \in 1 .. x + 1
    <3>2. HAVE i < j
    <3>3. i \in 1 .. x
      BY <3>2
    <3>4. CASE j \in 1 .. x
      BY <1>5, <2>9, <3>2, <3>3, <3>4
    <3>5. CASE j = x + 1
      <4>1. at[i] \in 1 .. n /\ att[i] = at[i] /\ att[j] = n + 1
        BY <2>9, <3>3, <3>5
      <4>2. QED
        BY <4>1
    <3>6. QED
      BY <2>6, <3>4, <3>5
  <2>13. ColumnsOf(V, n + 1, more)
    BY <2>5, <2>7, <2>8, <2>9, <2>11, <2>12 DEF ColumnsOf
  <2>14. QED
    BY <1>2, <2>4, <2>13
<1>11. QED
  BY <1>9, <1>10

\* The common list of the sensors visited has a column for each name kept,
\* in the order of the first of each name.
LEMMA CommonIs ==
    ASSUME NEW V \in Seq(SensorType)
    PROVE  ColumnsOf(V, Len(V), Common(V))
<1>1. PICK g : CommonTo(V, g) /\ Common(V) = g[Len(V)]
  BY CommonEquation
<1>2. PICK m \in Nat : m = Len(V)
  OBVIOUS
<1>3. /\ g[0] = << >> /\ \A n \in 1 .. m : g[n] = Meet(g[n - 1], V[n])
  BY <1>1, <1>2 DEF CommonTo
<1> DEFINE S == {n \in Nat : n <= m => ColumnsOf(V, n, g[n])}
<1>4. 0 \in S
  <2>1. ColumnsOf(V, 0, << >>)
    <3>1. PICK cols : cols = << >>
      OBVIOUS
    <3>2. cols \in Seq(SensorType) /\ Len(cols) = 0 /\ cols \in [1 .. 0 -> 1 .. 0]
      BY <3>1
    <3>3. \A i \in 1 .. Len(cols) : FALSE
      BY <3>2
    <3>4. \E at \in [1 .. Len(cols) -> 1 .. 0] :
             /\ \A i \in 1 .. Len(cols) :
                   FirstAt(V, at[i], cols[i].name) /\ cols[i].size = V[at[i]].size
             /\ \A i, j \in 1 .. Len(cols) : i < j => at[i] < at[j]
      BY <3>2, <3>3
    <3>5. ColumnsOf(V, 0, cols)
      BY <3>2, <3>3, <3>4 DEF ColumnsOf
    <3>6. QED
      BY <3>1, <3>5
  <2>2. QED
    BY <1>3, <2>1
<1>5. ASSUME NEW n \in S PROVE n + 1 \in S
  <2>1. n \in Nat /\ (n <= m => ColumnsOf(V, n, g[n]))
    OBVIOUS
  <2>2. ASSUME n + 1 <= m PROVE ColumnsOf(V, n + 1, g[n + 1])
    <3>1. n < Len(V) /\ ColumnsOf(V, n, g[n])
      BY <1>2, <2>1, <2>2
    <3>2. g[n + 1] = Meet(g[n], V[n + 1])
      <4>1. n + 1 \in 1 .. m /\ (n + 1) - 1 = n
        BY <2>1, <2>2
      <4>2. QED
        BY <1>3, <4>1
    <3>3. QED
      BY <2>1, <3>1, <3>2, MeetOne
  <2>3. QED
    BY <2>1, <2>2
<1> HIDE DEF S
<1>6. S = Nat
  <2>1. S \in SUBSET Nat
    BY DEF S
  <2>2. QED
    BY <1>4, <1>5, <2>1, InductionOverNat
<1>7. QED
  BY <1>1, <1>2, <1>6 DEF S

-----------------------------------------------------------------------------
(* Maps of sensor lists *)

AreLists(m, crcs) == DOMAIN m \subseteq crcs /\ \A c \in DOMAIN m : m[c] \in ListType

\* What one list has in place of another: the same sensors, by name and size.
SameSensors(l, r) ==
    /\ DOMAIN r.sensors = DOMAIN l.sensors
    /\ \A k \in DOMAIN l.sensors : r.sensors[k].name = l.sensors[k].name
                                   /\ r.sensors[k].size = l.sensors[k].size

\* The parts of a list.
LEMMA ListIs ==
    ASSUME NEW l \in ListType
    PROVE  /\ l = [sensors |-> l.sensors, nToStore |-> l.nToStore]
           /\ l.sensors \in Seq(SensorType) /\ l.nToStore \in Nat
           /\ Len(l.sensors) \in Nat /\ DOMAIN l.sensors = 1 .. Len(l.sensors)
           /\ \A k \in DOMAIN l.sensors : l.sensors[k] \in SensorType
BY DEF ListType

\* The parts of a sensor, and a new index or a new keep mark for it.
LEMMA SensorIs ==
    ASSUME NEW s \in SensorType
    PROVE  /\ s = [name |-> s.name, size |-> s.size, index |-> s.index,
                   keep |-> s.keep, crit |-> s.crit]
           /\ s.name \in STRING /\ s.size \in Nat /\ s.index \in Int
           /\ s.keep \in BOOLEAN /\ s.crit \in BOOLEAN
           /\ \A i \in Int : /\ [s EXCEPT !.index = i] \in SensorType
                             /\ [s EXCEPT !.index = i].index = i
                             /\ [s EXCEPT !.index = i].name = s.name
                             /\ [s EXCEPT !.index = i].size = s.size
                             /\ [s EXCEPT !.index = i].keep = s.keep
           /\ \A b \in BOOLEAN : /\ [s EXCEPT !.keep = b] \in SensorType
                                 /\ [s EXCEPT !.keep = b].keep = b
                                 /\ [s EXCEPT !.keep = b].name = s.name
                                 /\ [s EXCEPT !.keep = b].size = s.size
<1>1. /\ s = [name |-> s.name, size |-> s.size, index |-> s.index,
              keep |-> s.keep, crit |-> s.crit]
      /\ s.name \in STRING /\ s.size \in Nat /\ s.index \in Int
      /\ s.keep \in BOOLEAN /\ s.crit \in BOOLEAN
  BY DEF SensorType
<1>2. ASSUME NEW i \in Int
      PROVE  /\ [s EXCEPT !.index = i] \in SensorType
             /\ [s EXCEPT !.index = i].index = i
             /\ [s EXCEPT !.index = i].name = s.name
             /\ [s EXCEPT !.index = i].size = s.size
             /\ [s EXCEPT !.index = i].keep = s.keep
  <2>1. [s EXCEPT !.index = i] = [name |-> s.name, size |-> s.size, index |-> i,
                                  keep |-> s.keep, crit |-> s.crit]
    BY <1>1
  <2>2. QED
    BY <1>1, <2>1 DEF SensorType
<1>3. ASSUME NEW b \in BOOLEAN
      PROVE  /\ [s EXCEPT !.keep = b] \in SensorType
             /\ [s EXCEPT !.keep = b].keep = b
             /\ [s EXCEPT !.keep = b].name = s.name
             /\ [s EXCEPT !.keep = b].size = s.size
  <2>1. [s EXCEPT !.keep = b] = [name |-> s.name, size |-> s.size, index |-> s.index,
                                 keep |-> b, crit |-> s.crit]
    BY <1>1
  <2>2. QED
    BY <1>1, <2>1 DEF SensorType
<1>4. QED
  BY <1>1, <1>2, <1>3

\* A new criterion mark for a sensor.
LEMMA CritIs ==
    ASSUME NEW s \in SensorType, NEW b \in BOOLEAN, NEW t, t = [s EXCEPT !.crit = b]
    PROVE  t \in SensorType /\ t.keep = s.keep /\ t.name = s.name /\ t.size = s.size
<1>1. t = [name |-> s.name, size |-> s.size, index |-> s.index, keep |-> s.keep, crit |-> b]
  BY SensorIs
<1>2. QED
  BY <1>1, SensorIs DEF SensorType

\* A list as it is read is a list, all of it kept, of the same sensors.
LEMMA RawIs ==
    ASSUME NEW list \in Seq([name: STRING, size: Nat])
    PROVE  /\ Raw(list) \in ListType /\ DOMAIN Raw(list).sensors = DOMAIN list
           /\ \A k \in DOMAIN list : /\ Raw(list).sensors[k].keep
                                     /\ Raw(list).sensors[k].name = list[k].name
<1>2. PICK x \in Nat : x = Len(list)
  OBVIOUS
<1>3. DOMAIN list = 1 .. x /\ \A k \in 1 .. x : list[k].name \in STRING /\ list[k].size \in Nat
  <2>1. PICK T : T = [name: STRING, size: Nat]
    OBVIOUS
  <2>2. list \in Seq(T)
    BY <2>1
  <2>3. DOMAIN list = 1 .. x /\ \A k \in 1 .. x : list[k] \in T
    BY <1>2, <2>2
  <2>4. QED
    BY <2>1, <2>3
<1>4. PICK sensors : sensors = [k \in 1 .. x |->
        [name |-> list[k].name, size |-> list[k].size,
         index |-> k - 1, keep |-> TRUE, crit |-> TRUE]]
  OBVIOUS
<1>5. Raw(list) = [sensors |-> sensors, nToStore |-> x]
  BY <1>2, <1>3, <1>4 DEF Raw
<1>6. ASSUME NEW k \in 1 .. x
      PROVE  [name |-> list[k].name, size |-> list[k].size,
              index |-> k - 1, keep |-> TRUE, crit |-> TRUE] \in SensorType
  BY <1>3 DEF SensorType
<1>7. /\ sensors \in Seq(SensorType) /\ DOMAIN sensors = 1 .. x
      /\ \A k \in 1 .. x : sensors[k].keep /\ sensors[k].name = list[k].name
  BY <1>4, <1>6
<1>8. QED
  BY <1>3, <1>5, <1>7 DEF ListType

\* qKeep changes what is kept, by name, and leaves names and sizes.
LEMMA KeepIs ==
    ASSUME NEW crcs, NEW m, AreLists(m, crcs), NEW names,
           \A c \in DOMAIN m : \A k \in DOMAIN m[c].sensors : m[c].sensors[k].keep
    PROVE  /\ AreLists(Keep(m, names), crcs) /\ DOMAIN Keep(m, names) = DOMAIN m
           /\ \A c \in DOMAIN m :
                 /\ SameSensors(m[c], Keep(m, names)[c])
                 /\ \A k \in DOMAIN m[c].sensors :
                       Keep(m, names)[c].sensors[k].keep <=>
                          names = {} \/ m[c].sensors[k].name \in names
<1>1. CASE names = {}
  <2>1. Keep(m, names) = m
    BY <1>1 DEF Keep
  <2>2. QED
    BY <1>1, <2>1 DEF SameSensors
<1>2. CASE names # {}
  <2> DEFINE S(c) == [k \in DOMAIN m[c].sensors |->
                        [m[c].sensors[k] EXCEPT !.keep = m[c].sensors[k].name \in names]]
             N(c) == Cardinality({k \in DOMAIN S(c) : S(c)[k].keep})
  <2>1. Keep(m, names) = [c \in DOMAIN m |-> [sensors |-> S(c), nToStore |-> N(c)]]
    BY <1>2 DEF Keep
  <2>2. ASSUME NEW c \in DOMAIN m
        PROVE  /\ DOMAIN S(c) = DOMAIN m[c].sensors /\ DOMAIN S(c) = 1 .. Len(m[c].sensors)
               /\ Len(m[c].sensors) \in Nat
               /\ \A k \in DOMAIN m[c].sensors :
                     /\ S(c)[k] \in SensorType
                     /\ S(c)[k].name = m[c].sensors[k].name
                     /\ S(c)[k].size = m[c].sensors[k].size
                     /\ S(c)[k].keep <=> m[c].sensors[k].name \in names
    <3>1. m[c] \in ListType
      BY DEF AreLists
    <3>2. /\ Len(m[c].sensors) \in Nat /\ DOMAIN m[c].sensors = 1 .. Len(m[c].sensors)
          /\ \A k \in DOMAIN m[c].sensors : m[c].sensors[k] \in SensorType
      BY <3>1, ListIs
    <3>3. ASSUME NEW k \in DOMAIN m[c].sensors
          PROVE  /\ S(c)[k] \in SensorType
                 /\ S(c)[k].name = m[c].sensors[k].name
                 /\ S(c)[k].size = m[c].sensors[k].size
                 /\ S(c)[k].keep <=> m[c].sensors[k].name \in names
      <4>0. (m[c].sensors[k].name \in names) \in BOOLEAN
        OBVIOUS
      <4>1. PICK b \in BOOLEAN : b = (m[c].sensors[k].name \in names)
        BY <4>0
      <4>2. PICK s \in SensorType : s = m[c].sensors[k]
        BY <3>2
      <4>3. S(c)[k] = [s EXCEPT !.keep = b]
        BY <4>1, <4>2
      <4>4. QED
        BY <4>1, <4>2, <4>3, SensorIs
    <3>4. QED
      BY <3>2, <3>3
  <2> HIDE DEF S
  <2>3. ASSUME NEW c \in DOMAIN m PROVE N(c) \in Nat /\ S(c) \in Seq(SensorType)
    <3>1. PICK x \in Nat : x = Len(m[c].sensors)
      BY <2>2
    <3>2. DOMAIN S(c) = 1 .. x /\ \A k \in 1 .. x : S(c)[k] \in SensorType
      BY <2>2, <3>1
    <3>3. S(c) = [k \in 1 .. x |-> S(c)[k]]
      BY <3>2 DEF S
    <3>4. S(c) \in Seq(SensorType)
      BY <3>2, <3>3
    <3>5. {k \in DOMAIN S(c) : S(c)[k].keep} \subseteq 1 .. x
      BY <3>2
    <3>6. IsFiniteSet(1 .. x)
      BY FS_Interval
    <3>7. QED
      BY <3>4, <3>5, <3>6, FS_Subset, FS_CardinalityType
  <2> HIDE DEF N
  <2>4. ASSUME NEW c \in DOMAIN m
        PROVE  Keep(m, names)[c].sensors = S(c) /\ Keep(m, names)[c] \in ListType
    <3>1. Keep(m, names)[c] = [sensors |-> S(c), nToStore |-> N(c)]
      BY <2>1
    <3>2. QED
      BY <2>3, <3>1 DEF ListType
  <2>5. DOMAIN Keep(m, names) = DOMAIN m
    BY <2>1
  <2>6. QED
    BY <1>2, <2>2, <2>4, <2>5 DEF AreLists, SameSensors
<1>3. QED
  BY <1>1, <1>2

\* qCriteria leaves what is kept, names and sizes.
LEMMA SelectIs ==
    ASSUME NEW crcs, NEW m, AreLists(m, crcs), NEW names
    PROVE  /\ AreLists(Select(m, names), crcs) /\ DOMAIN Select(m, names) = DOMAIN m
           /\ \A c \in DOMAIN m :
                 /\ SameSensors(m[c], Select(m, names)[c])
                 /\ \A k \in DOMAIN m[c].sensors :
                       Select(m, names)[c].sensors[k].keep = m[c].sensors[k].keep
<1>1. CASE names = {}
  <2>1. Select(m, names) = m
    BY <1>1 DEF Select
  <2>2. QED
    BY <2>1 DEF SameSensors
<1>2. CASE names # {}
  <2> DEFINE S(c) == [k \in DOMAIN m[c].sensors |->
                        [m[c].sensors[k] EXCEPT !.crit = m[c].sensors[k].name \in names]]
  <2>1. Select(m, names) = [c \in DOMAIN m |-> [m[c] EXCEPT !.sensors = S(c)]]
    BY <1>2 DEF Select
  <2>2. ASSUME NEW c \in DOMAIN m
        PROVE  /\ DOMAIN S(c) = DOMAIN m[c].sensors /\ DOMAIN S(c) = 1 .. Len(m[c].sensors)
               /\ Len(m[c].sensors) \in Nat
               /\ \A k \in DOMAIN m[c].sensors :
                     /\ S(c)[k] \in SensorType
                     /\ S(c)[k].name = m[c].sensors[k].name
                     /\ S(c)[k].size = m[c].sensors[k].size
                     /\ S(c)[k].keep = m[c].sensors[k].keep
    <3>1. m[c] \in ListType
      BY DEF AreLists
    <3>2. /\ Len(m[c].sensors) \in Nat /\ DOMAIN m[c].sensors = 1 .. Len(m[c].sensors)
          /\ \A k \in DOMAIN m[c].sensors : m[c].sensors[k] \in SensorType
      BY <3>1, ListIs
    <3>3. ASSUME NEW k \in DOMAIN m[c].sensors
          PROVE  /\ S(c)[k] \in SensorType
                 /\ S(c)[k].name = m[c].sensors[k].name
                 /\ S(c)[k].size = m[c].sensors[k].size
                 /\ S(c)[k].keep = m[c].sensors[k].keep
      <4>0. (m[c].sensors[k].name \in names) \in BOOLEAN
        OBVIOUS
      <4>1. PICK b \in BOOLEAN : b = (m[c].sensors[k].name \in names)
        BY <4>0
      <4>2. PICK s \in SensorType : s = m[c].sensors[k]
        BY <3>2
      <4>3. S(c)[k] = [s EXCEPT !.crit = b]
        BY <4>1, <4>2
      <4>4. PICK new : new = [s EXCEPT !.crit = b]
        OBVIOUS
      <4>5. new \in SensorType /\ new.keep = s.keep /\ new.name = s.name /\ new.size = s.size
        BY <4>4, CritIs
      <4>6. S(c)[k] = new /\ m[c].sensors[k] = s
        BY <4>2, <4>3, <4>4
      <4> HIDE DEF S
      <4>7. QED
        BY <4>5, <4>6
    <3>4. QED
      BY <3>2, <3>3
  <2> HIDE DEF S
  <2>3. ASSUME NEW c \in DOMAIN m PROVE S(c) \in Seq(SensorType)
    <3>1. PICK x \in Nat : x = Len(m[c].sensors)
      BY <2>2
    <3>2. DOMAIN S(c) = 1 .. x /\ \A k \in 1 .. x : S(c)[k] \in SensorType
      BY <2>2, <3>1
    <3>3. S(c) = [k \in 1 .. x |-> S(c)[k]]
      BY <3>2 DEF S
    <3>4. QED
      BY <3>2, <3>3
  <2>4. ASSUME NEW c \in DOMAIN m
        PROVE  Select(m, names)[c].sensors = S(c) /\ Select(m, names)[c] \in ListType
    <3>1. Select(m, names)[c] = [m[c] EXCEPT !.sensors = S(c)]
      BY <2>1
    <3>2. m[c] = [sensors |-> m[c].sensors, nToStore |-> m[c].nToStore] /\ m[c].nToStore \in Nat
      BY ListIs DEF AreLists
    <3>3. Select(m, names)[c] = [sensors |-> S(c), nToStore |-> m[c].nToStore]
      BY <3>1, <3>2
    <3>4. QED
      BY <2>3, <3>2, <3>3 DEF ListType
  <2>5. DOMAIN Select(m, names) = DOMAIN m
    BY <2>1
  <2>6. QED
    BY <2>2, <2>4, <2>5 DEF AreLists, SameSensors
<1>3. QED
  BY <1>1, <1>2

-----------------------------------------------------------------------------
(* The columns *)

\* The order of the map lists every CRC.
IsOrder(order, crcs) ==
    /\ order \in Seq(crcs)
    /\ \A c \in crcs : \E n \in 1 .. Len(order) : order[n] = c

Pieces(m, order) ==
    [k \in DOMAIN order |->
        IF order[k] \in DOMAIN m THEN m[order[k]].sensors ELSE << >>]

\* The lists in the order of the map, one piece for each CRC.
LEMMA VisitedIs ==
    ASSUME NEW crcs, NEW order, IsOrder(order, crcs), NEW m, AreLists(m, crcs)
    PROVE  /\ Visited(m, order) \in Seq(SensorType)
           /\ Len(Pieces(m, order)) = Len(order)
           /\ \A n \in 1 .. Len(order) :
                 Pieces(m, order)[n] = IF order[n] \in DOMAIN m THEN m[order[n]].sensors ELSE << >>
           /\ \E at : Places(Pieces(m, order), Visited(m, order), at)
<1>1. PICK x \in Nat : x = Len(order) /\ DOMAIN order = 1 .. x
  BY DEF IsOrder
<1>2. ASSUME NEW k \in 1 .. x
      PROVE  (IF order[k] \in DOMAIN m THEN m[order[k]].sensors ELSE << >>) \in Seq(SensorType)
  <2>1. CASE order[k] \in DOMAIN m
    <3>1. m[order[k]] \in ListType
      BY <2>1 DEF AreLists
    <3>2. m[order[k]].sensors \in Seq(SensorType)
      BY <3>1, ListIs
    <3>3. QED
      BY <2>1, <3>2
  <2>2. CASE order[k] \notin DOMAIN m
    <3>1. << >> \in Seq(SensorType)
      OBVIOUS
    <3>2. QED
      BY <2>2, <3>1
  <2>3. QED
    BY <2>1, <2>2
<1>3. Pieces(m, order) \in Seq(Seq(SensorType)) /\ Len(Pieces(m, order)) = x
      /\ \A n \in 1 .. x :
            Pieces(m, order)[n] = IF order[n] \in DOMAIN m THEN m[order[n]].sensors ELSE << >>
  <2>1. Pieces(m, order) = [k \in 1 .. x |->
          IF order[k] \in DOMAIN m THEN m[order[k]].sensors ELSE << >>]
    BY <1>1 DEF Pieces
  <2>2. QED
    BY <1>2, <2>1
<1>4. Visited(m, order) = FlattenSeq(Pieces(m, order))
  BY DEF Visited, Pieces
<1>5. QED
  BY <1>1, <1>3, <1>4, FlattenType, FlattenPlaces

\* The sensors visited are those of the lists.
LEMMA VisitedMembers ==
    ASSUME NEW crcs, NEW order, IsOrder(order, crcs), NEW m, AreLists(m, crcs)
    PROVE  \A s : s \in ToSet(Visited(m, order)) <=>
              \E c \in DOMAIN m : \E b \in DOMAIN m[c].sensors : s = m[c].sensors[b]
<1>1. PICK V \in Seq(SensorType) : V = Visited(m, order)
  BY VisitedIs
<1>2. PICK P : P = Pieces(m, order)
  OBVIOUS
<1>3. /\ \E at : Places(P, V, at)
      /\ Len(P) = Len(order)
      /\ \A n \in 1 .. Len(order) : P[n] = IF order[n] \in DOMAIN m THEN m[order[n]].sensors ELSE << >>
  BY <1>1, <1>2, VisitedIs
<1>4. PICK y \in Nat : y = Len(order)
  BY DEF IsOrder
<1>5. PICK at : Places(P, V, at)
  BY <1>3
<1>6. \A s : s \in ToSet(V) <=> \E n \in 1 .. Len(V) : s = V[n]
  BY DEF ToSet
<1>7. ASSUME NEW n \in 1 .. Len(V)
      PROVE  \E c \in DOMAIN m : \E b \in DOMAIN m[c].sensors : V[n] = m[c].sensors[b]
  <2>1. PICK k \in 1 .. y : k = at[n][1]
    BY <1>3, <1>4, <1>5 DEF Places
  <2>2. PICK b \in 1 .. Len(P[k]) : V[n] = P[k][b]
    BY <1>5, <2>1 DEF Places
  <2>3. order[k] \in DOMAIN m
    <3>1. order[k] \notin DOMAIN m => P[k] = << >>
      BY <1>3, <1>4
    <3>2. order[k] \notin DOMAIN m => Len(P[k]) = 0
      BY <3>1
    <3>3. QED
      BY <2>2, <3>2
  <2>4. P[k] = m[order[k]].sensors /\ m[order[k]] \in ListType
    BY <1>3, <1>4, <2>3 DEF AreLists
  <2>5. b \in DOMAIN m[order[k]].sensors
    BY <2>4, ListIs
  <2>6. QED
    BY <2>2, <2>3, <2>4, <2>5
<1>8. ASSUME NEW c \in DOMAIN m, NEW b \in DOMAIN m[c].sensors
      PROVE  \E n \in 1 .. Len(V) : m[c].sensors[b] = V[n]
  <2>1. PICK k \in 1 .. y : order[k] = c
    BY <1>4 DEF IsOrder, AreLists
  <2>2. P[k] = m[c].sensors /\ m[c] \in ListType
    BY <1>3, <1>4, <2>1 DEF AreLists
  <2>3. b \in 1 .. Len(P[k])
    BY <2>2, ListIs
  <2>4. PICK n \in 1 .. Len(V) : at[n] = <<k, b>>
    BY <1>3, <1>4, <1>5, <2>3 DEF Places
  <2>5. at[n][1] = k /\ at[n][2] = b
    BY <2>4
  <2>6. V[n] = P[k][b]
    BY <1>5, <2>5 DEF Places
  <2>7. QED
    BY <2>2, <2>6
<1>9. QED
  BY <1>1, <1>6, <1>7, <1>8

AtColumn(cols, s) ==
    /\ s.index \in 0 .. Len(cols) - 1
    /\ cols[s.index + 1].name = s.name /\ cols[s.index + 1].size = s.size

\* setUpForData gives every sensor that is kept the common column of its name
\* and size, and changes nothing else of the lists but the number of columns.
LEMMA ReindexedIs ==
    ASSUME NEW crcs, NEW order, IsOrder(order, crcs), NEW m, AreLists(m, crcs), SizesAgree(m, order),
           NEW cols, cols = CommonList(m, order), NEW r, r = Reindexed(m, order)
    PROVE  /\ AreLists(r, crcs) /\ DOMAIN r = DOMAIN m /\ cols \in Seq(SensorType)
           /\ \A c \in DOMAIN m :
                 /\ SameSensors(m[c], r[c]) /\ r[c].nToStore = Len(cols)
                 /\ \A k \in DOMAIN m[c].sensors :
                       /\ r[c].sensors[k].keep = m[c].sensors[k].keep
                       /\ r[c].sensors[k].keep => AtColumn(cols, r[c].sensors[k])
<1>1. PICK V \in Seq(SensorType) : V = Visited(m, order)
  BY VisitedIs
<1>2. ColumnsOf(V, Len(V), cols)
  BY <1>1, CommonIs DEF CommonList
<1>3. PICK x \in Nat : x = Len(cols) /\ DOMAIN cols = 1 .. x
  BY <1>2 DEF ColumnsOf
<1>4. cols \in Seq(SensorType)
  BY <1>2 DEF ColumnsOf
<1> DEFINE Column(s) == (CHOOSE k \in DOMAIN cols : cols[k].name = s.name) - 1
           New(s) == IF s.keep THEN [s EXCEPT !.index = Column(s)] ELSE s
<1>5. r = [c \in DOMAIN m |-> [sensors |-> [k \in DOMAIN m[c].sensors |-> New(m[c].sensors[k])],
                               nToStore |-> Len(cols)]]
  BY DEF Reindexed
<1>6. ASSUME NEW s \in SensorType, s.keep, s \in ToSet(V)
      PROVE  /\ Column(s) \in 0 .. x - 1
             /\ cols[Column(s) + 1].name = s.name /\ cols[Column(s) + 1].size = s.size
  <2>1. PICK l \in 1 .. Len(V) : V[l] = s
    BY <1>6 DEF ToSet
  <2>2. \E i \in 1 .. x : cols[i].name = s.name
    BY <1>2, <1>3, <1>6, <2>1 DEF ColumnsOf
  <2>3. PICK i : i = CHOOSE k \in DOMAIN cols : cols[k].name = s.name
    OBVIOUS
  <2>4. i \in 1 .. x /\ cols[i].name = s.name
    BY <1>3, <2>2, <2>3
  <2>5. PICK n \in 1 .. Len(V) : V[n].keep /\ V[n].name = cols[i].name /\ cols[i].size = V[n].size
    <3>1. PICK at \in [1 .. x -> 1 .. Len(V)] :
              \A j \in 1 .. x : FirstAt(V, at[j], cols[j].name) /\ cols[j].size = V[at[j]].size
      BY <1>2, <1>3 DEF ColumnsOf
    <3>2. PICK n : n = at[i]
      OBVIOUS
    <3>3. FirstAt(V, n, cols[i].name) /\ cols[i].size = V[n].size
      BY <2>4, <3>1, <3>2
    <3>4. QED
      BY <3>3 DEF FirstAt
  <2>6. V[n] \in ToSet(V)
    BY DEF ToSet
  <2>7. V[n].size = s.size
    BY <1>1, <1>6, <2>4, <2>5, <2>6 DEF SizesAgree
  <2>8. Column(s) = i - 1
    BY <2>3
  <2>9. i - 1 \in 0 .. x - 1 /\ (i - 1) + 1 = i
    BY <1>3, <2>4
  <2>10. QED
    BY <2>4, <2>5, <2>7, <2>8, <2>9
<1> HIDE DEF Column
<1>7. ASSUME NEW s \in SensorType, s \in ToSet(V)
      PROVE  /\ New(s) \in SensorType /\ New(s).name = s.name /\ New(s).size = s.size
             /\ New(s).keep = s.keep /\ (s.keep => AtColumn(cols, New(s)))
  <2>1. CASE ~s.keep
    <3>1. New(s) = s
      BY <2>1
    <3>2. QED
      BY <2>1, <3>1
  <2>2. CASE s.keep
    <3>1. PICK i \in Int : i = Column(s)
      BY <1>3, <1>6, <1>7, <2>2
    <3>2. New(s) = [s EXCEPT !.index = i]
      BY <2>2, <3>1
    <3>3. /\ i \in 0 .. x - 1 /\ cols[i + 1].name = s.name /\ cols[i + 1].size = s.size
      BY <1>6, <1>7, <2>2, <3>1
    <3>4. PICK t : t = [s EXCEPT !.index = i]
      OBVIOUS
    <3>5. t \in SensorType /\ t.index = i /\ t.name = s.name /\ t.size = s.size /\ t.keep = s.keep
      BY <3>4, SensorIs
    <3>6. AtColumn(cols, t)
      BY <1>3, <3>3, <3>5 DEF AtColumn
    <3>7. New(s) = t
      BY <3>2, <3>4
    <3> HIDE DEF New
    <3>8. QED
      BY <3>5, <3>6, <3>7
  <2>3. QED
    BY <2>1, <2>2
<1> HIDE DEF New
<1>8. ASSUME NEW c \in DOMAIN m
      PROVE  /\ r[c] \in ListType /\ r[c].nToStore = x /\ DOMAIN r[c].sensors = DOMAIN m[c].sensors
             /\ \A k \in DOMAIN m[c].sensors :
                   /\ m[c].sensors[k] \in SensorType /\ m[c].sensors[k] \in ToSet(V)
                   /\ r[c].sensors[k] = New(m[c].sensors[k])
  <2>1. m[c] \in ListType
    BY DEF AreLists
  <2>2. PICK y \in Nat : y = Len(m[c].sensors) /\ DOMAIN m[c].sensors = 1 .. y
    BY <2>1, ListIs
  <2>3. \A k \in 1 .. y : m[c].sensors[k] \in SensorType
    BY <2>1, <2>2, ListIs
  <2>4. \A k \in 1 .. y : m[c].sensors[k] \in ToSet(V)
    BY <1>1, <2>2, VisitedMembers
  <2>5. PICK sensors : sensors = [k \in 1 .. y |-> New(m[c].sensors[k])]
    OBVIOUS
  <2>6. \A k \in 1 .. y : New(m[c].sensors[k]) \in SensorType
    BY <1>7, <2>3, <2>4
  <2>7. sensors \in Seq(SensorType) /\ DOMAIN sensors = 1 .. y
    BY <2>5, <2>6
  <2>8. r[c] = [sensors |-> sensors, nToStore |-> x]
    BY <1>3, <1>5, <2>2, <2>5
  <2>9. r[c].sensors = sensors /\ r[c].nToStore = x /\ r[c] \in ListType
    BY <2>7, <2>8 DEF ListType
  <2>10. QED
    BY <2>2, <2>3, <2>4, <2>5, <2>7, <2>9
<1>9. DOMAIN r = DOMAIN m
  BY <1>5
<1>10. AreLists(r, crcs)
  BY <1>8, <1>9 DEF AreLists
<1>11. ASSUME NEW c \in DOMAIN m
       PROVE  /\ SameSensors(m[c], r[c]) /\ r[c].nToStore = Len(cols)
              /\ \A k \in DOMAIN m[c].sensors :
                    /\ r[c].sensors[k].keep = m[c].sensors[k].keep
                    /\ r[c].sensors[k].keep => AtColumn(cols, r[c].sensors[k])
  <2>1. ASSUME NEW k \in DOMAIN m[c].sensors
        PROVE  /\ r[c].sensors[k].name = m[c].sensors[k].name
               /\ r[c].sensors[k].size = m[c].sensors[k].size
               /\ r[c].sensors[k].keep = m[c].sensors[k].keep
               /\ r[c].sensors[k].keep => AtColumn(cols, r[c].sensors[k])
    <3>1. PICK s \in SensorType : s = m[c].sensors[k] /\ s \in ToSet(V)
      BY <1>8
    <3>2. r[c].sensors[k] = New(s)
      BY <1>8, <3>1
    <3>3. QED
      BY <1>7, <3>1, <3>2
  <2>2. QED
    BY <1>3, <1>8, <2>1 DEF SameSensors
<1>12. QED
  BY <1>4, <1>9, <1>10, <1>11

\* The names with a column are those of the sensors kept.
ColumnsAreKept(m, cols) ==
    \A name : (\E i \in 1 .. Len(cols) : cols[i].name = name) <=>
                 \E c \in DOMAIN m : \E b \in DOMAIN m[c].sensors :
                    m[c].sensors[b].keep /\ m[c].sensors[b].name = name

LEMMA ColumnNames ==
    ASSUME NEW crcs, NEW order, IsOrder(order, crcs), NEW m, AreLists(m, crcs),
           NEW cols, cols = CommonList(m, order)
    PROVE  ColumnsAreKept(m, cols)
<1>1. PICK V \in Seq(SensorType) : V = Visited(m, order)
  BY VisitedIs
<1>2. ColumnsOf(V, Len(V), cols)
  BY <1>1, CommonIs DEF CommonList
<1>3. \A s : (\E n \in 1 .. Len(V) : s = V[n]) <=>
              \E c \in DOMAIN m : \E b \in DOMAIN m[c].sensors : s = m[c].sensors[b]
  <2>1. \A s : s \in ToSet(V) <=>
              \E c \in DOMAIN m : \E b \in DOMAIN m[c].sensors : s = m[c].sensors[b]
    BY <1>1, VisitedMembers
  <2>2. \A s : s \in ToSet(V) <=> \E n \in 1 .. Len(V) : s = V[n]
    BY DEF ToSet
  <2>3. QED
    BY <2>1, <2>2
<1>4. ASSUME NEW i \in 1 .. Len(cols)
      PROVE  \E n \in 1 .. Len(V) : V[n].keep /\ V[n].name = cols[i].name
  BY <1>2 DEF ColumnsOf, FirstAt
<1>5. ASSUME NEW n \in 1 .. Len(V), V[n].keep
      PROVE  \E i \in 1 .. Len(cols) : cols[i].name = V[n].name
  BY <1>2, <1>5 DEF ColumnsOf
<1>6. ASSUME NEW i \in 1 .. Len(cols)
      PROVE  \E c \in DOMAIN m : \E b \in DOMAIN m[c].sensors :
                m[c].sensors[b].keep /\ m[c].sensors[b].name = cols[i].name
  <2>1. PICK n \in 1 .. Len(V) : V[n].keep /\ V[n].name = cols[i].name
    BY <1>4
  <2>2. PICK s : s = V[n]
    OBVIOUS
  <2>3. PICK c \in DOMAIN m : \E b \in DOMAIN m[c].sensors : s = m[c].sensors[b]
    BY <1>3, <2>2
  <2>4. QED
    BY <2>1, <2>2, <2>3
<1>7. ASSUME NEW c \in DOMAIN m, NEW b \in DOMAIN m[c].sensors, m[c].sensors[b].keep
      PROVE  \E i \in 1 .. Len(cols) : cols[i].name = m[c].sensors[b].name
  <2>1. PICK s : s = m[c].sensors[b]
    OBVIOUS
  <2>2. PICK n \in 1 .. Len(V) : s = V[n]
    BY <1>3, <2>1
  <2>3. QED
    BY <1>5, <1>7, <2>1, <2>2
<1>8. QED
  BY <1>6, <1>7 DEF ColumnsAreKept
=============================================================================
