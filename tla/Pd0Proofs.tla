------------------------------ MODULE Pd0Proofs ------------------------------
(* For every command line of ADCP files: the types of Pd0, the rows of its   *)
(* output and what they show, and the header rows.                           *)
EXTENDS Pd0, SharedFacts, FiniteSetTheorems, TLAPS

-----------------------------------------------------------------------------
(* The inductive invariant *)

Own(p) == input[p[1]].ensembles[p[2]]
Running == pc \in {"header", "sections", "dump", "close"}

Control ==
    /\ input \in Inputs
    /\ pc \in {"scan", "file", "header", "sections", "dump", "close", "done", "failed"}
    /\ f \in 1 .. Len(input) + 1 /\ e \in Nat \ {0} /\ k \in Nat \ {0}
    /\ Running => f <= Len(input) /\ e <= Len(File.ensembles) + 1
    /\ pc \in {"sections", "dump"} => e <= Len(File.ensembles)
    /\ pc = "sections" => k <= Len(Ensemble.types) + 1
    /\ pc = "dump" => k <= Len(Order) + 1
    /\ pc = "close" => e = Len(File.ensembles) + 1
    /\ pc = "done" => f = Len(input) + 1
    /\ index \in Nat /\ sIndex \in 0 .. index
    /\ hdr \in Seq(HeaderShape)

\* The sections in memory, and the rows written.
Memory ==
    /\ value \in [Sections -> ValueShape]
    /\ \A s \in Melded : value[s].n < Low * Low
    /\ qSet \in [Sections -> BOOLEAN]
    /\ out \in Seq([Sections -> ValueShape \cup {Fill}])
    /\ Len(out) <= index + 1
    /\ pc \notin {"dump", "failed"} => Len(out) <= index

\* The scan has seen every leader the sections can be sized by.
Scanned ==
    /\ maxCells \in 0 .. 255
    /\ pc = "scan" => \A s \in Sections : value[s].n = 0
    /\ pc # "failed" =>
          /\ \A j \in 1 .. Len(input) :
                pc # "scan" \/ j < f => MaxNumberOfCells(input[j]) <= maxCells
          /\ pc # "scan" => schema.dims["j"] = maxCells
          /\ \A s \in Cellwise \cup {"fixed"} : value[s].n <= maxCells

\* The rows written are those of the ensembles before the one at hand.
Progress ==
    /\ index <= Cardinality(Deserving)
    /\ pc = "scan" => index = 0
    /\ pc = "file" => index = Cardinality(Earlier(<<f, 1>>))
    /\ Running => index = Cardinality(Earlier(<<f, e>>))
    /\ pc = "done" => index = Cardinality(Deserving)

\* What the first n sections of the ensemble at hand have left in memory.
LeaderRead(p, s, n) ==
    \E b \in 1 .. n : Own(p).types[b] = s /\ \E a \in 1 .. b - 1 : Own(p).types[a] = "fixed"
Holds(v, p, s, n) ==
    /\ v.of = p
    /\ s \in Melded => v.n = Own(p).msb * Low + Own(p).low
    /\ s = "fixed" => v.n = Own(p).cells
    /\ s \in Cellwise /\ LeaderRead(p, s, n) => v.n = Own(p).cells
Has(p, s, n) == \E b \in 1 .. n : Own(p).types[b] = s
Read(p, n) ==
    \A s \in Sections : /\ qSet[s] <=> Has(p, s, n)
                        /\ qSet[s] => Holds(value[s], p, s, n)
Loading ==
    /\ pc = "sections" => Read(<<f, e>>, k - 1)
    /\ pc = "dump" => Read(<<f, e>>, Len(Ensemble.types))

Put(s, n) == \E b \in 1 .. n : Order[b] = s
Dumping ==
    pc = "dump" =>
        /\ Len(out) <= index \/ \E s \in Sections : qSet[s]
        /\ \A s \in Sections : Row(index + 1)[s] =
              IF Put(s, k - 1) /\ ~NothingToPut(s) THEN value[s] ELSE Fill

\* What a row may show of a section of its ensemble.
Width(p) == Len(Own(p).types)
Shows(v, p, s) ==
    IF Has(p, s, Width(p))
    THEN \/ v = Fill /\ s \in Cellwise /\ (LeaderRead(p, s, Width(p)) => Own(p).cells = 0)
         \/ v \in ValueShape /\ Holds(v, p, s, Width(p)) /\ (s \in Cellwise => v.n # 0)
    ELSE v = Fill
Rows ==
    \A r \in 1 .. index : \E p \in Deserving :
        Cardinality(Earlier(p)) = r - 1 /\ \A s \in Sections : Shows(Row(r)[s], p, s)

\* The header rows, as far as they go.
NextStart == IF hdr = << >> THEN 0 ELSE hdr[Len(hdr)].stop + 1
Tile(j) ==
    /\ hdr[j].start = IF j = 1 THEN 0 ELSE hdr[j - 1].stop + 1
    /\ hdr[j].stop >= hdr[j].start
    /\ \A r \in hdr[j].start .. hdr[j].stop :
          r < Cardinality(Deserving) /\ Wanted[r + 1][1] = hdr[j].file
Tiles ==
    /\ \A j \in DOMAIN hdr : Tile(j)
    /\ pc = "scan" => hdr = << >>
    /\ pc \in {"file", "done"} => index = NextStart
    /\ Running => sIndex = NextStart /\ sIndex = Cardinality(Earlier(<<f, 1>>))

IInv == Control /\ Memory /\ Scanned /\ Progress /\ Loading /\ Dumping /\ Rows /\ Tiles

-----------------------------------------------------------------------------
(* The order of the ensembles *)

\* A command line is a sequence of files of the shape the model gives them.
LEMMA InputShape ==
    ASSUME input \in Inputs
    PROVE  /\ input \in Seq(FileShape) /\ Len(input) \in Nat /\ DOMAIN input = 1 .. Len(input)
           /\ \A j \in 1 .. Len(input) :
                 /\ input[j].ensembles \in Seq(EnsembleShape)
                 /\ Len(input[j].ensembles) \in Nat
                 /\ DOMAIN input[j].ensembles = 1 .. Len(input[j].ensembles)
                 /\ input[j].scanned \in 0 .. 255
<1>1. input \in Seq(FileShape)
  BY InputsAssumption
<1>2. \A j \in 1 .. Len(input) : input[j] \in FileShape
  BY <1>1
<1>3. QED
  BY <1>1, <1>2 DEF FileShape

\* An ensemble that deserves a row is a place in a file.
LEMMA DeservingAre ==
    ASSUME input \in Inputs
    PROVE  \A p : p \in Deserving <=>
              /\ p = <<p[1], p[2]>>
              /\ p[1] \in 1 .. Len(input) /\ p[2] \in 1 .. Len(input[p[1]].ensembles)
              /\ Deserves(Own(p))
<1>1. ASSUME NEW p, p \in Deserving
      PROVE  /\ p = <<p[1], p[2]>>
             /\ p[1] \in 1 .. Len(input) /\ p[2] \in 1 .. Len(input[p[1]].ensembles)
             /\ Deserves(Own(p))
  <2>1. PICK j \in DOMAIN input :
          p \in {j} \X {i \in DOMAIN input[j].ensembles : Deserves(input[j].ensembles[i])}
    BY <1>1 DEF Deserving
  <2>2. p = <<p[1], p[2]>> /\ p[1] = j /\ p[2] \in DOMAIN input[j].ensembles
        /\ Deserves(input[j].ensembles[p[2]])
    BY <2>1
  <2>3. QED
    BY <2>1, <2>2, InputShape DEF Own
<1>2. ASSUME NEW p, p = <<p[1], p[2]>>,
             p[1] \in 1 .. Len(input), p[2] \in 1 .. Len(input[p[1]].ensembles), Deserves(Own(p))
      PROVE  p \in Deserving
  <2>1. p[1] \in DOMAIN input /\ p[2] \in DOMAIN input[p[1]].ensembles
    BY <1>2, InputShape
  <2>2. p \in {p[1]} \X {i \in DOMAIN input[p[1]].ensembles : Deserves(input[p[1]].ensembles[i])}
    BY <1>2, <2>1 DEF Own
  <2>3. QED
    BY <2>1, <2>2 DEF Deserving
<1>3. QED
  BY <1>1, <1>2

\* There are finitely many ensembles.
LEMMA DeservingFinite ==
    ASSUME input \in Inputs
    PROVE  IsFiniteSet(Deserving)
<1> DEFINE Upto(n) == {p \in Deserving : p[1] <= n}
           S == {n \in Nat : n <= Len(input) => IsFiniteSet(Upto(n))}
<1>1. 0 \in S
  <2>1. Upto(0) = {}
    BY DeservingAre
  <2>2. QED
    BY <2>1, FS_EmptySet
<1>2. ASSUME NEW n \in S PROVE n + 1 \in S
  <2> SUFFICES ASSUME n + 1 <= Len(input) PROVE IsFiniteSet(Upto(n + 1))
    <3>1. n + 1 \in Nat
      OBVIOUS
    <3>2. QED
      BY <3>1
  <2>1. n \in Nat /\ IsFiniteSet(Upto(n)) /\ n + 1 \in 1 .. Len(input)
    BY InputShape
  <2>2. PICK m \in Nat : m = Len(input[n + 1].ensembles)
    BY <2>1, InputShape
  <2>3. IsFiniteSet({n + 1} \X (1 .. m))
    <3>1. IsFiniteSet({n + 1})
      BY FS_Singleton
    <3>2. IsFiniteSet(1 .. m)
      BY FS_Interval
    <3>3. QED
      BY <3>1, <3>2, FS_Product
  <2>4. IsFiniteSet(Upto(n) \cup ({n + 1} \X (1 .. m)))
    BY <2>1, <2>3, FS_Union
  <2>5. Upto(n + 1) \subseteq Upto(n) \cup ({n + 1} \X (1 .. m))
    <3>1. ASSUME NEW p \in Deserving, p[1] <= n + 1, ~(p[1] <= n)
          PROVE  p \in {n + 1} \X (1 .. m)
      <4>1. p = <<p[1], p[2]>> /\ p[1] \in 1 .. Len(input) /\ p[2] \in 1 .. Len(input[p[1]].ensembles)
        BY DeservingAre
      <4>2. p[1] = n + 1
        BY <2>1, <3>1, <4>1, InputShape
      <4>3. QED
        BY <2>2, <4>1, <4>2
    <3>2. QED
      BY <3>1
  <2>6. QED
    BY <2>4, <2>5, FS_Subset
<1>3. S = Nat
  <2> HIDE DEF S
  <2>1. S \in SUBSET Nat
    BY DEF S
  <2>2. QED
    BY <1>1, <1>2, <2>1, InductionOverNat
<1>4. Upto(Len(input)) = Deserving
  BY DeservingAre, InputShape
<1>5. QED
  BY <1>3, <1>4, InputShape

\* How many come before a place.
LEMMA EarlierFinite ==
    ASSUME input \in Inputs, NEW p
    PROVE  /\ IsFiniteSet(Earlier(p)) /\ Cardinality(Earlier(p)) \in Nat
           /\ Cardinality(Earlier(p)) <= Cardinality(Deserving)
           /\ Cardinality(Deserving) \in Nat
<1>1. Earlier(p) \subseteq Deserving
  BY DEF Earlier
<1>2. QED
  BY <1>1, DeservingFinite, FS_Subset, FS_CardinalityType

\* One more when a place that deserves a row is passed, as many when not.
LEMMA EarlierNext ==
    ASSUME input \in Inputs, NEW j \in Nat, NEW i \in Nat
    PROVE  Cardinality(Earlier(<<j, i + 1>>)) =
              IF <<j, i>> \in Deserving THEN Cardinality(Earlier(<<j, i>>)) + 1
              ELSE Cardinality(Earlier(<<j, i>>))
<1>1. \A q \in Deserving : q = <<q[1], q[2]>> /\ q[1] \in Nat /\ q[2] \in Nat
  BY DeservingAre, InputShape
<1>2. \A q \in Deserving : Precedes(q, <<j, i + 1>>) <=> Precedes(q, <<j, i>>) \/ q = <<j, i>>
  BY <1>1 DEF Precedes
<1>3. ~Precedes(<<j, i>>, <<j, i>>)
  BY DEF Precedes
<1>4. CASE <<j, i>> \in Deserving
  <2>1. Earlier(<<j, i + 1>>) = Earlier(<<j, i>>) \cup {<<j, i>>} /\ <<j, i>> \notin Earlier(<<j, i>>)
    BY <1>2, <1>3, <1>4 DEF Earlier
  <2>2. QED
    BY <1>4, <2>1, EarlierFinite, FS_AddElement
<1>5. CASE <<j, i>> \notin Deserving
  <2>1. Earlier(<<j, i + 1>>) = Earlier(<<j, i>>)
    BY <1>2, <1>5 DEF Earlier
  <2>2. QED
    BY <1>5, <2>1
<1>6. QED
  BY <1>4, <1>5

\* Behind the last ensemble of a file is the first of the next.
LEMMA EarlierFiles ==
    ASSUME input \in Inputs
    PROVE  /\ Earlier(<<1, 1>>) = {}
           /\ \A j \in 1 .. Len(input) :
                 Earlier(<<j, Len(input[j].ensembles) + 1>>) = Earlier(<<j + 1, 1>>)
           /\ Earlier(<<Len(input) + 1, 1>>) = Deserving
<1>1. \A q \in Deserving : /\ q[1] \in 1 .. Len(input)
                            /\ q[2] \in 1 .. Len(input[q[1]].ensembles)
                            /\ q[1] \in Nat /\ q[2] \in Nat
  BY DeservingAre, InputShape
<1>2. \A q \in Deserving : ~Precedes(q, <<1, 1>>) /\ Precedes(q, <<Len(input) + 1, 1>>)
  BY <1>1, InputShape DEF Precedes
<1>3. ASSUME NEW j \in 1 .. Len(input)
      PROVE  Earlier(<<j, Len(input[j].ensembles) + 1>>) = Earlier(<<j + 1, 1>>)
  <2>1. PICK m \in Nat : m = Len(input[j].ensembles)
    BY InputShape
  <2>2. \A q \in Deserving : Precedes(q, <<j, m + 1>>) <=> Precedes(q, <<j + 1, 1>>)
    <3>1. TAKE q \in Deserving
    <3>2. q[1] \in Nat /\ q[2] \in Nat /\ q[2] >= 1 /\ (q[1] = j => q[2] <= m) /\ j \in Nat
      BY <1>1, <2>1, InputShape
    <3>3. QED
      BY <3>2 DEF Precedes
  <2>3. QED
    BY <2>1, <2>2 DEF Earlier
<1>4. QED
  BY <1>2, <1>3 DEF Earlier

\* No two ensembles have the same number of rows before them, and those of a
\* file lie between the first row of the file and the first of the next.
LEMMA EarlierOrder ==
    ASSUME input \in Inputs, NEW p \in Deserving
    PROVE  /\ \A q \in Deserving : Cardinality(Earlier(q)) = Cardinality(Earlier(p)) => q = p
           /\ \A j \in Nat : p[1] < j => Cardinality(Earlier(p)) < Cardinality(Earlier(<<j, 1>>))
           /\ \A j \in Nat : p[1] >= j => Cardinality(Earlier(<<j, 1>>)) <= Cardinality(Earlier(p))
           /\ Cardinality(Earlier(p)) < Cardinality(Deserving)
<1>1. \A q \in Deserving : q = <<q[1], q[2]>> /\ q[1] \in Nat /\ q[2] \in Nat /\ q[2] >= 1
  BY DeservingAre, InputShape
<1>2. ASSUME NEW q \in Deserving, NEW t, Precedes(q, t), t[1] \in Nat, t[2] \in Nat
      PROVE  Cardinality(Earlier(q)) < Cardinality(Earlier(t))
  <2>1. q \in Earlier(t) /\ q \notin Earlier(q)
    BY <1>1, <1>2 DEF Earlier, Precedes
  <2>2. \A x \in Deserving : Precedes(x, q) => Precedes(x, t)
    BY <1>1, <1>2 DEF Precedes
  <2>3. Earlier(q) \cup {q} \subseteq Earlier(t)
    BY <2>1, <2>2 DEF Earlier
  <2>4. Cardinality(Earlier(q) \cup {q}) = Cardinality(Earlier(q)) + 1
    BY <2>1, EarlierFinite, FS_AddElement
  <2>5. Cardinality(Earlier(q) \cup {q}) <= Cardinality(Earlier(t))
    BY <2>3, EarlierFinite, FS_Subset
  <2>6. QED
    BY <2>4, <2>5, EarlierFinite
<1>3. ASSUME NEW q \in Deserving, Cardinality(Earlier(q)) = Cardinality(Earlier(p))
      PROVE  q = p
  <2>1. Precedes(q, p) \/ Precedes(p, q) \/ q = p
    BY <1>1 DEF Precedes
  <2>2. Cardinality(Earlier(p)) \in Nat
    BY EarlierFinite
  <2>3. QED
    BY <1>1, <1>2, <1>3, <2>1, <2>2
<1>4. ASSUME NEW j \in Nat, p[1] < j
      PROVE  Cardinality(Earlier(p)) < Cardinality(Earlier(<<j, 1>>))
  BY <1>2, <1>4 DEF Precedes
<1>5. ASSUME NEW j \in Nat, p[1] >= j
      PROVE  Cardinality(Earlier(<<j, 1>>)) <= Cardinality(Earlier(p))
  <2>1. \A x \in Deserving : Precedes(x, <<j, 1>>) => Precedes(x, p)
    BY <1>1, <1>5 DEF Precedes
  <2>2. Earlier(<<j, 1>>) \subseteq Earlier(p)
    BY <2>1 DEF Earlier
  <2>3. QED
    BY <2>2, EarlierFinite, FS_Subset
<1>6. Cardinality(Earlier(p)) < Cardinality(Deserving)
  <2>1. p[1] < Len(input) + 1 /\ Len(input) + 1 \in Nat
    BY DeservingAre, InputShape
  <2>2. QED
    BY <1>4, <2>1, EarlierFiles
<1>7. QED
  BY <1>3, <1>4, <1>5, <1>6

\* The ensemble of a row is the one with that many before it.
LEMMA WantedIs ==
    ASSUME input \in Inputs, NEW p \in Deserving, NEW r, Cardinality(Earlier(p)) = r - 1, r \in Nat
    PROVE  Wanted[r] = p /\ r \in 1 .. Cardinality(Deserving) /\ Len(Wanted) = Cardinality(Deserving)
<1>1. Cardinality(Deserving) \in Nat /\ Cardinality(Earlier(p)) \in Nat
  BY EarlierFinite
<1>2. r \in 1 .. Cardinality(Deserving)
  BY <1>1, EarlierOrder
<1>3. Len(Wanted) = Cardinality(Deserving)
  BY <1>1 DEF Wanted
<1>4. Wanted[r] = CHOOSE q \in Deserving : Cardinality(Earlier(q)) = r - 1
  BY <1>2 DEF Wanted
<1>5. QED
  BY <1>2, <1>3, <1>4, EarlierOrder

-----------------------------------------------------------------------------
(* What the operators of the model yield *)

\* The eight sections, all of them in the order of the dump.
LEMMA SectionsAre ==
    /\ Sections = {"fixed", "variable", "velocity", "correlation", "echo",
                   "percent_good", "bottom_track", "vmdas"}
    /\ Len(Order) = 8 /\ \A b \in 1 .. Len(Order) : Order[b] \in Sections
    /\ \A s \in Sections : Put(s, Len(Order))
<1>1. Len(Order) = 8 /\ DOMAIN Order = 1 .. 8
  BY DEF Order
<1>2. /\ Order[1] = "fixed" /\ Order[2] = "variable" /\ Order[3] = "velocity"
      /\ Order[4] = "correlation" /\ Order[5] = "echo" /\ Order[6] = "percent_good"
      /\ Order[7] = "bottom_track" /\ Order[8] = "vmdas"
  BY DEF Order
<1>3. Sections = {Order[b] : b \in 1 .. 8}
  BY <1>1 DEF Sections, ToSet
<1>4. \A b \in 1 .. 8 : b = 1 \/ b = 2 \/ b = 3 \/ b = 4 \/ b = 5 \/ b = 6 \/ b = 7 \/ b = 8
  OBVIOUS
<1>5. QED
  BY <1>1, <1>2, <1>3, <1>4 DEF Put

\* The scan takes the largest of the leaders of a file.
LEMMA ScanFindsAll ==
    ASSUME input \in Inputs, NEW j \in 1 .. Len(input)
    PROVE  /\ MaxNumberOfCells(input[j]) \in 0 .. 255
           /\ \A i \in 1 .. Len(input[j].ensembles) :
                 HasLeader(input[j].ensembles[i]) =>
                    input[j].ensembles[i].cells <= MaxNumberOfCells(input[j])
<1> DEFINE S == LeaderCells(input[j]) \cup {input[j].scanned}
<1>1. /\ input[j].ensembles \in Seq(EnsembleShape) /\ input[j].scanned \in 0 .. 255
      /\ DOMAIN input[j].ensembles = 1 .. Len(input[j].ensembles)
  BY InputShape
<1>2. \A i \in 1 .. Len(input[j].ensembles) : input[j].ensembles[i].cells \in 0 .. 255
  <2>1. \A i \in 1 .. Len(input[j].ensembles) : input[j].ensembles[i] \in EnsembleShape
    BY <1>1
  <2>2. QED
    BY <2>1 DEF EnsembleShape
<1>3. S \in SUBSET (0 .. 255) /\ S # {}
  <2>1. ASSUME NEW x \in LeaderCells(input[j]) PROVE x \in 0 .. 255
    <3>1. PICK i \in DOMAIN input[j].ensembles : x = input[j].ensembles[i].cells
      BY DEF LeaderCells
    <3>2. QED
      BY <1>1, <1>2, <3>1
  <2>2. QED
    BY <1>1, <2>1
<1>4. \A i \in 1 .. Len(input[j].ensembles) :
         HasLeader(input[j].ensembles[i]) => input[j].ensembles[i].cells \in S
  BY <1>1 DEF LeaderCells
<1>5. MaxNumberOfCells(input[j]) = Max(S)
  BY DEF MaxNumberOfCells
<1> HIDE DEF S
<1>6. Max(S) \in S /\ \A m \in S : m <= Max(S)
  <2>1. S \in SUBSET Nat /\ \A m \in S : m <= 255
    BY <1>3
  <2>2. QED
    BY <1>3, <2>1, 255 \in Nat, MaxIsGreatest
<1>7. Max(S) \in 0 .. 255
  BY <1>3, <1>6
<1>8. QED
  BY <1>4, <1>5, <1>6, <1>7

\* A quotient and a remainder are those of the sum they make.
LEMMA Remainder ==
    ASSUME NEW d \in Nat \ {0}, NEW q \in Nat, NEW r \in 0 .. d - 1
    PROVE  (q * d + r) % d = r
<1>1. PICK x \in Nat : x = q * d + r
  OBVIOUS
<1>2. PICK b \in Int : b = x \div d
  OBVIOUS
<1>3. PICK a \in Int : a = x % d
  OBVIOUS
<1>4. a \in 0 .. d - 1
  BY <1>3
<1>5. x = d * b + a
  BY <1>2, <1>3
<1>6. PICK t \in Int : t = q - b
  OBVIOUS
<1>7. d * t = a - r
  BY <1>1, <1>5, <1>6
<1>8. t >= 1 => d * t >= d
  OBVIOUS
<1>9. t <= -1 => d * t <= -d
  OBVIOUS
<1>10. t = 0
  BY <1>4, <1>7, <1>8, <1>9
<1>11. a = r
  BY <1>7, <1>10
<1>12. QED
  BY <1>1, <1>3, <1>11

\* The melded field is that of its two parts, whatever the union held before.
LEMMA MeldIs ==
    ASSUME NEW union \in Nat, NEW low \in 0 .. Low - 1, NEW msb \in 0 .. Low - 1
    PROVE  /\ Meld(union, low, msb) = msb * Low + low
           /\ Meld(union, low, msb) \in Nat /\ Meld(union, low, msb) < Low * Low
<1>1. Low \in Nat \ {0}
  BY SizesAssumption
<1>2. union \div Low \in Nat
  BY <1>1
<1>3. ((union \div Low) * Low + low) % Low = low
  BY <1>1, <1>2, Remainder
<1>4. Meld(union, low, msb) = msb * Low + low
  <2>1. msb * Low \in Nat
    BY <1>1
  <2>2. QED
    BY <1>3, <2>1 DEF Meld
<1>5. msb * Low \in Nat /\ msb * Low <= (Low - 1) * Low /\ (Low - 1) * Low = Low * Low - Low
      /\ Low * Low \in Nat
  BY <1>1
<1>6. QED
  BY <1>1, <1>4, <1>5

-----------------------------------------------------------------------------
(* The steps keep the invariant *)

-----------------------------------------------------------------------------
(* The invariant is inductive *)

\* The command line never changes, nor what is said of it.
LEMMA SameInput ==
    ASSUME UNCHANGED input
    PROVE  /\ Deserving' = Deserving /\ Wanted' = Wanted
           /\ \A p : Own(p)' = Own(p) /\ Earlier(p)' = Earlier(p) /\ Width(p)' = Width(p)
           /\ \A p, s, n : Has(p, s, n)' <=> Has(p, s, n)
           /\ \A v, p, s, n : Holds(v, p, s, n)' <=> Holds(v, p, s, n)
           /\ \A v, p, s : Shows(v, p, s)' <=> Shows(v, p, s)
<1>1. Deserving' = Deserving
  BY DEF Deserving
<1>2. \A p : Earlier(p)' = Earlier(p)
  BY <1>1 DEF Earlier
<1>3. Wanted' = Wanted
  BY <1>1, <1>2 DEF Wanted
<1>4. \A p : Own(p)' = Own(p) /\ Width(p)' = Width(p)
  BY DEF Own, Width
<1>5. \A p, s, n : (Has(p, s, n)' <=> Has(p, s, n)) /\ (LeaderRead(p, s, n)' <=> LeaderRead(p, s, n))
  BY <1>4 DEF Has, LeaderRead
<1>6. \A v, p, s, n : Holds(v, p, s, n)' <=> Holds(v, p, s, n)
  BY <1>4, <1>5 DEF Holds
<1>7. \A v, p, s : Shows(v, p, s)' <=> Shows(v, p, s)
  BY <1>4, <1>5, <1>6 DEF Shows
<1>8. QED
  BY <1>1, <1>2, <1>3, <1>4, <1>5, <1>6, <1>7

\* The place the next state is at.
LEMMA PlaceAfter ==
    ASSUME UNCHANGED input, NEW j, NEW i, f' = j, e' = i
    PROVE  /\ Cardinality(Earlier(<<f, 1>>))' = Cardinality(Earlier(<<j, 1>>))
           /\ Cardinality(Earlier(<<f, e>>))' = Cardinality(Earlier(<<j, i>>))
<1>1. Earlier(<<f, 1>>)' = Earlier(<<j, 1>>) /\ Earlier(<<f, e>>)' = Earlier(<<j, i>>)
  BY SameInput DEF Earlier
<1>2. QED
  BY <1>1

\* The rows written stay as they are while the row at hand is written.
LEMMA RowsSame ==
    ASSUME IInv, UNCHANGED <<input, index>>, \A r \in 1 .. index : Row(r)' = Row(r)
    PROVE  Rows'
<1> SUFFICES ASSUME NEW r \in 1 .. index
             PROVE  (\E p \in Deserving :
                       Cardinality(Earlier(p)) = r - 1 /\ \A s \in Sections : Shows(Row(r)[s], p, s))'
  BY DEF Rows
<1>1. PICK p \in Deserving :
        Cardinality(Earlier(p)) = r - 1 /\ \A s \in Sections : Shows(Row(r)[s], p, s)
  BY DEF IInv, Rows
<1>2. ASSUME NEW s \in Sections PROVE Shows(Row(r)[s], p, s)'
  <2>1. PICK v : v = Row(r)[s]
    OBVIOUS
  <2>2. Shows(v, p, s)'
    BY <1>1, <2>1, SameInput
  <2>3. (Row(r)[s])' = v
    BY <2>1
  <2>4. QED
    BY <2>2, <2>3 DEF Shows
<1>3. Cardinality(Earlier(p))' = r - 1 /\ p \in Deserving'
  BY <1>1, SameInput
<1>4. QED
  BY <1>2, <1>3

\* The header rows stay as they are.
LEMMA TilesSame ==
    ASSUME IInv, UNCHANGED <<input, hdr>>
    PROVE  NextStart' = NextStart /\ \A j \in DOMAIN hdr' : Tile(j)'
<1>1. NextStart' = NextStart
  BY DEF NextStart
<1>2. \A j \in DOMAIN hdr : Tile(j)' <=> Tile(j)
  BY SameInput DEF Tile
<1>3. QED
  BY <1>1, <1>2 DEF IInv, Tiles

\* A run begins in a state of the invariant.
LEMMA InitInv == Init => IInv
<1> SUFFICES ASSUME Init PROVE IInv
  OBVIOUS
<1>1. input \in Inputs /\ Len(input) \in Nat
  BY InputShape DEF Init
<1>2. Control
  BY <1>1 DEF Init, Control, Running
<1>3. Memory
  <2>1. Low * Low > 0
    BY SizesAssumption
  <2>2. value \in [Sections -> ValueShape] /\ \A s \in Sections : value[s].n = 0
    BY DEF Init, ValueShape
  <2>3. Melded \subseteq Sections
    BY SectionsAre DEF Melded
  <2>4. QED
    BY <2>1, <2>2, <2>3 DEF Init, Memory, NoFlags
<1>4. Scanned
  <2>1. Cellwise \cup {"fixed"} \subseteq Sections
    BY SectionsAre DEF Cellwise
  <2>2. QED
    BY <2>1 DEF Init, Scanned
<1>5. Progress
  BY <1>1, EarlierFinite DEF Init, Progress, Running
<1>6. Rows /\ Tiles /\ Loading /\ Dumping
  BY DEF Init, Rows, Tiles, Running, Loading, Dumping
<1>7. QED
  BY <1>2, <1>3, <1>4, <1>5, <1>6 DEF IInv

\* The scan of a file (pd02netCDF.C:63-79).
LEMMA ScanFileInv == IInv /\ ScanFile => IInv'
<1> SUFFICES ASSUME IInv, ScanFile PROVE IInv'
  OBVIOUS
<1> USE DEF rows
<1>1. /\ pc = "scan" /\ pc' = "scan" /\ f <= Len(input) /\ f' = f + 1
      /\ UNCHANGED <<input, e, schema, chunks, value, qSet, k, out, index, sIndex, hdr>>
      /\ maxCells' = Greater(maxCells, MaxNumberOfCells(File))
      /\ input \in Inputs /\ f \in 1 .. Len(input)
  BY DEF ScanFile, IInv, Control
<1>2. MaxNumberOfCells(File) \in 0 .. 255 /\ File = input[f] /\ maxCells \in 0 .. 255
  BY <1>1, ScanFindsAll DEF File, IInv, Scanned
<1>3. maxCells' \in 0 .. 255 /\ maxCells' >= maxCells /\ MaxNumberOfCells(input[f]) <= maxCells'
  BY <1>1, <1>2 DEF Greater
<1>4. Control'
  BY <1>1, InputShape DEF IInv, Control, Running
<1>5. Memory'
  BY <1>1 DEF IInv, Memory
<1>6. Scanned'
  <2>1. \A j \in 1 .. Len(input) : j < f + 1 => j < f \/ j = f
    BY <1>1, InputShape
  <2>2. \A j \in 1 .. Len(input) : j < f => MaxNumberOfCells(input[j]) <= maxCells
                                             /\ MaxNumberOfCells(input[j]) \in 0 .. 255
    BY <1>1, ScanFindsAll DEF IInv, Scanned
  <2>3. ASSUME NEW j \in 1 .. Len(input), j < f + 1
        PROVE  MaxNumberOfCells(input[j]) <= maxCells'
    <3>1. CASE j = f
      BY <1>3, <3>1, Zenon
    <3>2. CASE j < f
      <4>1. PICK m \in 0 .. 255 : m = MaxNumberOfCells(input[j])
        BY <2>2, <3>2
      <4>2. m <= maxCells
        BY <2>2, <3>2, <4>1
      <4>3. m <= maxCells'
        BY <1>2, <1>3, <4>2
      <4>4. QED
        BY <4>1, <4>3
    <3>3. QED
      BY <2>1, <2>3, <3>1, <3>2
  <2>4. \A s \in Cellwise \cup {"fixed"} : value[s].n <= maxCells'
    <3>1. Cellwise \cup {"fixed"} \subseteq Sections
      BY SectionsAre DEF Cellwise
    <3>2. \A s \in Sections : value[s].n = 0
      BY <1>1 DEF IInv, Scanned
    <3>3. QED
      BY <1>3, <3>1, <3>2
  <2>5. \A s \in Sections : value[s].n = 0
    BY <1>1 DEF IInv, Scanned
  <2>6. QED
    <3>1. /\ pc' = "scan" /\ maxCells' \in 0 .. 255 /\ input' = input /\ f' = f + 1
          /\ value' = value
      BY <1>1, <1>3
    <3>2. QED
      BY ONLY <2>3, <2>4, <2>5, <3>1 DEF Scanned
<1>7. Progress'
  BY <1>1, SameInput DEF IInv, Progress, Running
<1>8. Loading' /\ Dumping'
  BY <1>1 DEF Loading, Dumping
<1>9. Rows'
  BY <1>1, RowsSame DEF Row
<1>10. Tiles'
  BY <1>1, TilesSame DEF IInv, Tiles, Running
<1>11. QED
  BY <1>4, <1>5, <1>6, <1>7, <1>8, <1>9, <1>10 DEF IInv

\* The output is defined with the cells the scan found (pd02netCDF.C:80-83).
LEMMA SetUpInv == IInv /\ SetUp => IInv'
<1> SUFFICES ASSUME IInv, SetUp PROVE IInv'
  OBVIOUS
<1> USE DEF rows
<1>1. /\ pc = "scan" /\ pc' = "file" /\ f > Len(input) /\ f' = 1
      /\ UNCHANGED <<input, e, maxCells, value, qSet, k, out, index, sIndex, hdr>>
      /\ input \in Inputs /\ index = 0 /\ hdr = << >>
  BY DEF SetUp, IInv, Control, Progress, Tiles
<1>2. schema'.dims["j"] = maxCells'
  <2>1. schema'.dims = Dimensions
    BY DEF SetUp
  <2>2. QED
    BY <1>1, <2>1 DEF Dimensions
<1>3. Control'
  BY <1>1, InputShape DEF IInv, Control, Running
<1>4. Memory'
  BY <1>1 DEF IInv, Memory
<1>5. Scanned'
  <2>1. \A j \in 1 .. Len(input) : MaxNumberOfCells(input[j]) <= maxCells
    BY <1>1, InputShape DEF IInv, Control, Scanned
  <2>2. QED
    BY <1>1, <1>2, <2>1 DEF IInv, Scanned
<1>6. Progress'
  <2>1. Cardinality(Earlier(<<f, 1>>))' = 0
    BY <1>1, PlaceAfter, EarlierFiles, FS_EmptySet
  <2>2. QED
    BY <1>1, <2>1, SameInput DEF IInv, Progress, Running
<1>7. Loading' /\ Dumping'
  BY <1>1 DEF Loading, Dumping
<1>8. Rows'
  BY <1>1, RowsSame DEF Row
<1>9. Tiles'
  <2>1. NextStart' = 0
    BY <1>1 DEF NextStart
  <2>2. QED
    BY <1>1, <2>1, TilesSame DEF Tiles, Running
<1>10. QED
  BY <1>3, <1>4, <1>5, <1>6, <1>7, <1>8, <1>9 DEF IInv

\* After the scan its result stays, and what is in memory stays within it.
LEMMA ScannedSame ==
    ASSUME IInv, pc \notin {"scan", "failed"}, pc' # "scan",
           UNCHANGED <<input, maxCells, schema>>,
           \A s \in Cellwise \cup {"fixed"} : value'[s].n <= maxCells
    PROVE  Scanned'
<1>1. \A j \in 1 .. Len(input) : MaxNumberOfCells(input[j]) <= maxCells
  BY DEF IInv, Scanned
<1>2. maxCells \in 0 .. 255 /\ schema.dims["j"] = maxCells
  BY DEF IInv, Scanned
<1>3. QED
  BY <1>1, <1>2 DEF Scanned

\* A file is opened: no row of it is written yet.
LEMMA OpenFileInv == IInv /\ OpenFile => IInv'
<1> SUFFICES ASSUME IInv, OpenFile PROVE IInv'
  OBVIOUS
<1> USE DEF rows, scan
<1>1. /\ pc = "file" /\ pc' = "header" /\ f <= Len(input) /\ e' = 1 /\ sIndex' = index
      /\ UNCHANGED <<input, f, maxCells, schema, value, k, out, index, hdr>>
      /\ qSet' = NoFlags /\ input \in Inputs /\ f \in 1 .. Len(input) /\ index \in Nat
  BY DEF OpenFile, IInv, Control
<1>2. Control'
  BY <1>1, InputShape DEF IInv, Control, Running, File
<1>3. Memory'
  BY <1>1 DEF IInv, Memory, NoFlags
<1>4. Scanned'
  BY <1>1, ScannedSame DEF IInv, Scanned
<1>5. Progress'
  <2>1. PICK j : j = f
    OBVIOUS
  <2>2. Cardinality(Earlier(<<f, e>>))' = Cardinality(Earlier(<<j, 1>>))
    BY <1>1, <2>1, PlaceAfter
  <2>3. QED
    BY <1>1, <2>1, <2>2, SameInput DEF IInv, Progress, Running
<1>6. Loading' /\ Dumping'
  BY <1>1 DEF Loading, Dumping
<1>7. Rows'
  BY <1>1, RowsSame DEF Row
<1>8. Tiles'
  <2>1. PICK j : j = f
    OBVIOUS
  <2>2. Cardinality(Earlier(<<f, 1>>))' = Cardinality(Earlier(<<j, 1>>))
    BY <1>1, <2>1, PlaceAfter
  <2>3. QED
    BY <1>1, <2>1, <2>2, TilesSame DEF IInv, Progress, Tiles, Running
<1>9. QED
  BY <1>2, <1>3, <1>4, <1>5, <1>6, <1>7, <1>8 DEF IInv

\* While an ensemble is read and written, its place and the header rows stay.
LEMMA PlaceSame ==
    ASSUME IInv, Running, pc' \in {"header", "sections", "dump", "close"},
           UNCHANGED <<input, f, e, index, sIndex, hdr>>
    PROVE  Progress' /\ Tiles'
<1>1. PICK j : j = f
  OBVIOUS
<1>2. PICK i : i = e
  OBVIOUS
<1>3. /\ Cardinality(Earlier(<<f, 1>>))' = Cardinality(Earlier(<<j, 1>>))
      /\ Cardinality(Earlier(<<f, e>>))' = Cardinality(Earlier(<<j, i>>))
  BY <1>1, <1>2, PlaceAfter
<1>4. Progress'
  BY <1>1, <1>2, <1>3, SameInput DEF IInv, Progress, Running
<1>5. Tiles'
  BY <1>1, <1>3, TilesSame DEF IInv, Tiles, Running
<1>6. QED
  BY <1>4, <1>5

\* What has been read of the ensemble the next state is at.
LEMMA ReadAfter ==
    ASSUME UNCHANGED input, NEW j, NEW i, f' = j, e' = i, NEW n, NEW m,
           k' - 1 = n, Len(Ensemble.types)' = m
    PROVE  /\ Read(<<f, e>>, k - 1)' <=> Read(<<j, i>>, n)'
           /\ Read(<<f, e>>, Len(Ensemble.types))' <=> Read(<<j, i>>, m)'
<1>1. PICK p : p = <<j, i>>
  OBVIOUS
<1>2. /\ Read(<<f, e>>, k - 1)' <=> \A s \in Sections : (qSet'[s] <=> Has(p, s, n))
                                       /\ (qSet'[s] => Holds(value'[s], p, s, n))
      /\ Read(<<f, e>>, Len(Ensemble.types))' <=> \A s \in Sections : (qSet'[s] <=> Has(p, s, m))
                                       /\ (qSet'[s] => Holds(value'[s], p, s, m))
      /\ Read(<<j, i>>, n)' <=> \A s \in Sections : (qSet'[s] <=> Has(p, s, n))
                                       /\ (qSet'[s] => Holds(value'[s], p, s, n))
      /\ Read(<<j, i>>, m)' <=> \A s \in Sections : (qSet'[s] <=> Has(p, s, m))
                                       /\ (qSet'[s] => Holds(value'[s], p, s, m))
  BY <1>1, SameInput DEF Read, Has, Holds, LeaderRead, Own
<1>3. QED
  BY <1>2

\* The ensemble at hand is one of the file at hand.
LEMMA Here ==
    ASSUME IInv, pc \in {"sections", "dump"} \/ (pc = "header" /\ e <= Len(File.ensembles))
    PROVE  /\ input \in Inputs /\ f \in 1 .. Len(input) /\ e \in 1 .. Len(input[f].ensembles)
           /\ Ensemble = Own(<<f, e>>) /\ <<f, e>> \in Nat \X Nat
           /\ Ensemble.types \in Seq(Sections \cup {"other"}) /\ Ensemble.cells \in 0 .. 255
           /\ Ensemble.low \in 0 .. Low - 1 /\ Ensemble.msb \in 0 .. Low - 1
           /\ DOMAIN Ensemble.types = 1 .. Len(Ensemble.types) /\ Len(Ensemble.types) \in Nat
<1>1. /\ input \in Inputs /\ f \in 1 .. Len(input) /\ e \in Nat \ {0}
      /\ e <= Len(File.ensembles) /\ File = input[f]
  BY InputShape DEF IInv, Control, Running, File
<1>2. e \in 1 .. Len(input[f].ensembles) /\ Ensemble = Own(<<f, e>>) /\ <<f, e>> \in Nat \X Nat
  BY <1>1, InputShape DEF Ensemble, Own
<1>3. Ensemble \in EnsembleShape
  BY <1>1, <1>2, InputShape DEF Own
<1>4. QED
  BY <1>1, <1>2, <1>3 DEF EnsembleShape

\* A new ensemble: no section is set, although their values live on.
LEMMA BeginEnsembleInv == IInv /\ BeginEnsemble => IInv'
<1> SUFFICES ASSUME IInv, BeginEnsemble PROVE IInv'
  OBVIOUS
<1> USE DEF rows, scan
<1>1. /\ pc = "header" /\ pc' = "sections" /\ k' = 1 /\ e <= Len(File.ensembles)
      /\ UNCHANGED <<input, f, e, maxCells, schema, value, out, index, sIndex, hdr>>
      /\ qSet' = NoFlags /\ Running
  BY DEF BeginEnsemble, Running
<1>2. Control'
  <2>1. File' = File /\ Ensemble' = Ensemble
    BY <1>1 DEF File, Ensemble
  <2>2. 1 <= Len(Ensemble.types) + 1
    BY <1>1, Here
  <2>3. QED
    BY <1>1, <2>1, <2>2 DEF IInv, Control, Running
<1>3. Memory'
  BY <1>1 DEF IInv, Memory, NoFlags
<1>4. Scanned'
  BY <1>1, ScannedSame DEF IInv, Scanned
<1>5. Progress' /\ Tiles'
  BY <1>1, PlaceSame
<1>6. Loading'
  <2>1. PICK j : j = f
    OBVIOUS
  <2>2. PICK i : i = e
    OBVIOUS
  <2>3. Read(<<j, i>>, 0)'
    BY <1>1 DEF Read, NoFlags, Has
  <2>4. PICK m : m = Len(Ensemble.types)'
    OBVIOUS
  <2>5. Read(<<f, e>>, k - 1)'
    BY <1>1, <2>1, <2>2, <2>3, <2>4, ReadAfter
  <2>6. QED
    BY <1>1, <2>5 DEF Loading
<1>7. Dumping'
  BY <1>1 DEF Dumping
<1>8. Rows'
  BY <1>1, RowsSame DEF Row
<1>9. QED
  BY <1>2, <1>3, <1>4, <1>5, <1>6, <1>7, <1>8 DEF IInv

\* One section read: it is the ensemble's own, with the cells of the last
\* leader, and the flags tell the sections read.
LEMMA SectionRead ==
    ASSUME IInv, pc = "sections", k <= Len(Ensemble.types), NEW s \in Sections, s = Ensemble.types[k],
           NEW p, p = <<f, e>>
    PROVE  /\ Loaded(s) \in ValueShape /\ Holds(Loaded(s), p, s, k)
           /\ s \in Melded => Loaded(s).n < Low * Low
           /\ s \in Cellwise \cup {"fixed"} => Loaded(s).n <= maxCells
<1>1. /\ input \in Inputs /\ f \in 1 .. Len(input) /\ e \in 1 .. Len(input[f].ensembles)
      /\ Ensemble = Own(<<f, e>>) /\ <<f, e>> \in Nat \X Nat
      /\ Ensemble.types \in Seq(Sections \cup {"other"}) /\ Ensemble.cells \in 0 .. 255
      /\ Ensemble.low \in 0 .. Low - 1 /\ Ensemble.msb \in 0 .. Low - 1
      /\ DOMAIN Ensemble.types = 1 .. Len(Ensemble.types)
      /\ k \in 1 .. Len(Ensemble.types)
  BY Here DEF IInv, Control
<1>2. value \in [Sections -> ValueShape] /\ "fixed" \in Sections /\ maxCells \in 0 .. 255
      /\ Read(p, k - 1)
  BY SectionsAre DEF IInv, Memory, Scanned, Loading
<1>3. CellsNow \in Nat /\ CellsNow <= maxCells
  BY <1>2 DEF CellsNow, ValueShape, IInv, Scanned
<1>4. Loaded(s).of = <<f, e>>
  BY DEF Loaded
<1>5. CASE s = "fixed"
  <2> DEFINE c == Ensemble.cells
  <2>0. c \in 0 .. 255
    BY <1>1
  <2>1. Loaded(s) = [of |-> <<f, e>>, n |-> Ensemble.cells]
    <3>1. s \notin Melded /\ s \notin Cellwise
      BY <1>5 DEF Melded, Cellwise
    <3>2. QED
      BY <1>5, <3>1 DEF Loaded
  <2>2. c <= maxCells
    <3>1. HasLeader(Ensemble)
      BY <1>1, <1>5 DEF HasLeader, ToSet
    <3>2. Ensemble = input[f].ensembles[e]
      BY <1>1 DEF Own
    <3>3. Ensemble.cells <= MaxNumberOfCells(input[f]) /\ MaxNumberOfCells(input[f]) \in 0 .. 255
      BY <1>1, <3>1, <3>2, ScanFindsAll
    <3>4. MaxNumberOfCells(input[f]) <= maxCells
      BY <1>1 DEF IInv, Scanned
    <3>5. PICK m \in 0 .. 255 : m = MaxNumberOfCells(input[f])
      BY <3>3
    <3>6. c <= m /\ m <= maxCells
      BY <3>3, <3>4, <3>5
    <3> HIDE DEF c
    <3>7. QED
      BY ONLY <1>2, <2>0, <3>5, <3>6, m \in Int
  <2>3. s \notin Melded /\ s \notin Cellwise
    BY <1>5 DEF Melded, Cellwise
  <2>4. Loaded(s) \in ValueShape
    <3>1. Loaded(s) = [of |-> <<f, e>>, n |-> c]
      BY <2>1
    <3> HIDE DEF c
    <3>2. c \in Nat
      BY <2>0
    <3>3. QED
      BY <1>1, <3>1, <3>2 DEF ValueShape
  <2>5. Holds(Loaded(s), p, s, k)
    <3>1. Loaded(s).n = Own(p).cells
      BY <1>1, <2>1
    <3>2. Loaded(s).of = p
      BY <1>4
    <3>3. QED
      BY <2>3, <3>1, <3>2 DEF Holds
  <2>6. QED
    BY <2>1, <2>2, <2>3, <2>4, <2>5
<1>6. CASE s \in Cellwise
  <2>1. s # "fixed" /\ s \notin Melded
    BY <1>6 DEF Cellwise, Melded
  <2>2. Loaded(s) = [of |-> <<f, e>>, n |-> CellsNow]
    BY <1>6, <2>1 DEF Loaded
  <2>3. ASSUME LeaderRead(p, s, k) PROVE CellsNow = Own(p).cells
    <3>1. PICK a \in 1 .. k - 1 : Own(p).types[a] = "fixed"
      <4>1. PICK b \in 1 .. k : \E a \in 1 .. b - 1 : Own(p).types[a] = "fixed"
        BY <2>3 DEF LeaderRead
      <4>2. \A a \in 1 .. b - 1 : a \in 1 .. k - 1
        BY <1>1, <4>1
      <4>3. QED
        BY <4>1, <4>2
    <3>3. Has(p, "fixed", k - 1)
      BY <3>1 DEF Has
    <3>4. qSet["fixed"] /\ Holds(value["fixed"], p, "fixed", k - 1)
      BY <1>2, <3>3 DEF Read
    <3>5. QED
      BY <3>4 DEF Holds, CellsNow
  <2>4. Holds(Loaded(s), p, s, k)
    BY <2>1, <2>2, <2>3 DEF Holds
  <2>5. Loaded(s) \in ValueShape
    BY <1>1, <1>3, <2>2 DEF ValueShape
  <2>6. QED
    BY <1>3, <2>1, <2>2, <2>4, <2>5
<1>7. CASE s \in Melded
  <2>1. s # "fixed" /\ s \notin Cellwise
    BY <1>7 DEF Cellwise, Melded
  <2>2. Loaded(s) = [of |-> <<f, e>>, n |-> Meld(value[s].n, Ensemble.low, Ensemble.msb)]
    BY <1>7, <2>1 DEF Loaded
  <2>3. PICK m : m = Meld(value[s].n, Ensemble.low, Ensemble.msb)
    OBVIOUS
  <2>4. m = Ensemble.msb * Low + Ensemble.low /\ m \in Nat /\ m < Low * Low
    <3>1. value[s].n \in Nat
      BY <1>2 DEF ValueShape
    <3>2. QED
      BY <1>1, <2>3, <3>1, MeldIs
  <2>5. Loaded(s) = [of |-> <<f, e>>, n |-> m]
    BY <2>2, <2>3
  <2>6. Holds(Loaded(s), p, s, k)
    <3>1. m = Own(p).msb * Low + Own(p).low
      BY <1>1, <2>4
    <3>2. Loaded(s).of = p /\ Loaded(s).n = m
      BY <2>5
    <3>3. QED
      BY <2>1, <3>1, <3>2 DEF Holds
  <2>7. Loaded(s) \in ValueShape
    BY <1>1, <2>4, <2>5 DEF ValueShape
  <2>8. QED
    BY <2>1, <2>4, <2>5, <2>6, <2>7
<1>8. CASE s \notin Cellwise \cup Melded \cup {"fixed"}
  <2>1. Loaded(s) = [of |-> <<f, e>>, n |-> 0]
    BY <1>8 DEF Loaded
  <2>2. s # "fixed" /\ s \notin Cellwise /\ s \notin Melded
    BY <1>8
  <2>3. Loaded(s).of = p
    BY <1>4
  <2>4. Holds(Loaded(s), p, s, k)
    BY <2>2, <2>3 DEF Holds
  <2>5. Loaded(s) \in ValueShape
    BY <1>1, <2>1 DEF ValueShape
  <2>6. QED
    BY <2>2, <2>4, <2>5
<1>9. QED
  BY <1>5, <1>6, <1>7, <1>8

\* One more section of the ensemble at hand is in memory.
LEMMA LoadSectionInv == IInv /\ LoadSection => IInv'
<1> SUFFICES ASSUME IInv, LoadSection PROVE IInv'
  OBVIOUS
<1> USE DEF rows, scan
<1>1. /\ pc = "sections" /\ pc' = "sections" /\ k <= Len(Ensemble.types) /\ k' = k + 1
      /\ UNCHANGED <<input, f, e, maxCells, schema, out, index, sIndex, hdr>> /\ Running
      /\ LET s == Ensemble.types[k]
         IN  IF s \in Sections
             THEN value' = [value EXCEPT ![s] = Loaded(s)] /\ qSet' = [qSet EXCEPT ![s] = TRUE]
             ELSE UNCHANGED <<value, qSet>>
  BY DEF LoadSection, Running
<1>2. /\ Ensemble = Own(<<f, e>>) /\ Len(Ensemble.types) \in Nat /\ k \in 1 .. Len(Ensemble.types)
      /\ value \in [Sections -> ValueShape] /\ qSet \in [Sections -> BOOLEAN]
      /\ maxCells \in 0 .. 255
      /\ \A s \in Melded : s \in Sections /\ value[s].n < Low * Low
      /\ \A s \in Cellwise \cup {"fixed"} : s \in Sections /\ value[s].n <= maxCells
  BY <1>1, Here, SectionsAre DEF IInv, Control, Memory, Scanned, Melded, Cellwise
<1>3. PICK s : s = Ensemble.types[k]
  OBVIOUS
<1>4. PICK p : p = <<f, e>>
  OBVIOUS
<1>5. ASSUME s \in Sections
      PROVE  /\ Loaded(s) \in ValueShape /\ Holds(Loaded(s), p, s, k)
             /\ s \in Melded => Loaded(s).n < Low * Low
             /\ s \in Cellwise \cup {"fixed"} => Loaded(s).n <= maxCells
  BY <1>1, <1>3, <1>4, <1>5, SectionRead
<1>6. PICK new : new = Loaded(s)
  OBVIOUS
<1>7. IF s \in Sections
      THEN value' = [value EXCEPT ![s] = new] /\ qSet' = [qSet EXCEPT ![s] = TRUE]
      ELSE value' = value /\ qSet' = qSet
  BY <1>1, <1>3, <1>6
<1>8. /\ value' \in [Sections -> ValueShape] /\ qSet' \in [Sections -> BOOLEAN]
      /\ \A x \in Sections : IF x = s THEN value'[x] = new /\ qSet'[x] = TRUE
                             ELSE value'[x] = value[x] /\ qSet'[x] = qSet[x]
  BY <1>2, <1>5, <1>6, <1>7
<1>9. Control'
  <2>1. File' = File /\ Ensemble' = Ensemble
    BY <1>1 DEF File, Ensemble
  <2>2. k + 1 <= Len(Ensemble.types) + 1 /\ k + 1 \in Nat \ {0}
    BY <1>2
  <2>3. QED
    BY <1>1, <2>1, <2>2 DEF IInv, Control, Running
<1>10. Memory'
  BY <1>1, <1>2, <1>5, <1>6, <1>8 DEF IInv, Memory
<1>11. Scanned'
  <2>1. \A x \in Cellwise \cup {"fixed"} : value'[x].n <= maxCells
    BY <1>2, <1>5, <1>6, <1>8
  <2>2. QED
    BY <1>1, <2>1, ScannedSame
<1>12. Progress' /\ Tiles'
  BY <1>1, PlaceSame
<1>13. Loading'
  <2>1. Read(p, k - 1)
    BY <1>1, <1>4 DEF IInv, Loading
  <2>2. PICK n \in Nat : n = k
    BY <1>2
  <2>3. \A b : b \in 1 .. n <=> b \in 1 .. n - 1 \/ b = n
    BY <1>2, <2>2
  <2>4. Own(p).types[n] = s
    BY <1>2, <1>3, <1>4, <2>2
  <2>5. ASSUME NEW x \in Sections, x # s
        PROVE  /\ Has(p, x, n) <=> Has(p, x, n - 1)
               /\ \A v : Holds(v, p, x, n) <=> Holds(v, p, x, n - 1)
    BY <2>3, <2>4, <2>5 DEF Has, Holds, LeaderRead
  <2>6. Has(p, s, n)
    BY <1>2, <2>2, <2>4 DEF Has
  <2>7. ASSUME NEW x \in Sections
        PROVE  (qSet'[x] <=> Has(p, x, n)) /\ (qSet'[x] => Holds(value'[x], p, x, n))
    <3>1. CASE x = s
      BY <1>5, <1>6, <1>8, <2>2, <2>6, <3>1
    <3>2. CASE x # s
      BY <1>8, <2>1, <2>2, <2>5, <3>2 DEF Read
    <3>3. QED
      BY <3>1, <3>2
  <2>8. Read(p, n)'
    BY <1>1, <2>7, SameInput DEF Read
  <2>9. PICK j : j = f
    OBVIOUS
  <2>10. PICK i : i = e
    OBVIOUS
  <2>11. PICK m : m = Len(Ensemble.types)'
    OBVIOUS
  <2>12. k' - 1 = n
    BY <1>1, <2>2
  <2>13. Read(<<j, i>>, n)'
    BY <1>4, <2>8, <2>9, <2>10 DEF Read
  <2>14. Read(<<f, e>>, k - 1)'
    BY <1>1, <2>9, <2>10, <2>11, <2>12, <2>13, ReadAfter
  <2>15. QED
    BY <1>1, <2>14 DEF Loading
<1>14. Dumping'
  BY <1>1 DEF Dumping
<1>15. Rows'
  BY <1>1, RowsSame DEF Row
<1>16. QED
  BY <1>9, <1>10, <1>11, <1>12, <1>13, <1>14, <1>15 DEF IInv

\* All sections are in memory, none is written.
LEMMA SectionsLoadedInv == IInv /\ SectionsLoaded => IInv'
<1> SUFFICES ASSUME IInv, SectionsLoaded PROVE IInv'
  OBVIOUS
<1> USE DEF rows, scan
<1>1. /\ pc = "sections" /\ pc' = "dump" /\ k > Len(Ensemble.types) /\ k' = 1
      /\ UNCHANGED <<input, f, e, maxCells, schema, value, qSet, out, index, sIndex, hdr>>
      /\ Running
  BY DEF SectionsLoaded, Running
<1>2. k = Len(Ensemble.types) + 1 /\ k - 1 = Len(Ensemble.types)
  <2>1. Len(Ensemble.types) \in Nat
    BY <1>1, Here
  <2>2. QED
    BY <1>1, <2>1 DEF IInv, Control
<1>3. Control'
  <2>1. File' = File /\ Ensemble' = Ensemble
    BY <1>1 DEF File, Ensemble
  <2>2. 1 <= Len(Order) + 1
    BY SectionsAre
  <2>3. QED
    BY <1>1, <2>1, <2>2 DEF IInv, Control, Running
<1>4. Memory'
  BY <1>1 DEF IInv, Memory
<1>5. Scanned'
  BY <1>1, ScannedSame DEF IInv, Scanned
<1>6. Progress' /\ Tiles'
  BY <1>1, PlaceSame
<1>7. Loading'
  <2>1. PICK j : j = f
    OBVIOUS
  <2>2. PICK i : i = e
    OBVIOUS
  <2>3. PICK m : m = Len(Ensemble.types)
    OBVIOUS
  <2>4. Len(Ensemble.types)' = m
    BY <1>1, <2>3 DEF Ensemble, File
  <2>5. Read(<<j, i>>, m)
    BY <1>1, <1>2, <2>1, <2>2, <2>3 DEF IInv, Loading
  <2>6. Read(<<j, i>>, m)'
    BY <1>1, <2>5, SameInput DEF Read
  <2>7. PICK n : n = k' - 1
    OBVIOUS
  <2>8. Read(<<f, e>>, Len(Ensemble.types))'
    BY <1>1, <2>1, <2>2, <2>4, <2>6, <2>7, ReadAfter
  <2>9. QED
    BY <1>1, <2>8 DEF Loading
<1>8. Dumping'
  <2>1. Row(index + 1) = NoRow
    BY <1>1 DEF IInv, Control, Memory, Row
  <2>2. \A s : ~Put(s, 0)
    BY DEF Put
  <2>3. \A s \in Sections : Row(index + 1)[s]' = Fill
    BY <1>1, <2>1 DEF Row, NoRow
  <2>4. k' - 1 = 0
    BY <1>1
  <2>5. Len(out') <= index'
    BY <1>1 DEF IInv, Memory
  <2>6. QED
    BY <1>1, <2>2, <2>3, <2>4, <2>5 DEF Dumping, Row, Put
<1>9. Rows'
  BY <1>1, RowsSame DEF Row
<1>10. QED
  BY <1>3, <1>4, <1>5, <1>6, <1>7, <1>8, <1>9 DEF IInv

\* A file that ends has had all its ensembles.
LEMMA EndOfEnsemblesInv == IInv /\ EndOfEnsembles => IInv'
<1> SUFFICES ASSUME IInv, EndOfEnsembles PROVE IInv'
  OBVIOUS
<1> USE DEF rows, scan
<1>1. /\ pc = "header" /\ pc' = "close" /\ e > Len(File.ensembles)
      /\ UNCHANGED <<input, f, e, maxCells, schema, value, qSet, k, out, index, sIndex, hdr>>
      /\ Running
  BY DEF EndOfEnsembles, Running
<1>2. Control'
  <2>1. File' = File /\ e <= Len(File.ensembles) + 1 /\ File = input[f] /\ e \in Nat
        /\ f \in 1 .. Len(input) /\ input \in Inputs
    BY <1>1 DEF File, IInv, Control
  <2>2. e = Len(File.ensembles) + 1
    BY <1>1, <2>1, InputShape
  <2>3. QED
    BY <1>1, <2>1, <2>2 DEF IInv, Control, Running
<1>3. Memory'
  BY <1>1 DEF IInv, Memory
<1>4. Scanned'
  BY <1>1, ScannedSame DEF IInv, Scanned
<1>5. Progress' /\ Tiles'
  BY <1>1, PlaceSame
<1>6. Loading' /\ Dumping'
  BY <1>1 DEF Loading, Dumping
<1>7. Rows'
  BY <1>1, RowsSame DEF Row
<1>8. QED
  BY <1>2, <1>3, <1>4, <1>5, <1>6, <1>7 DEF IInv

\* A run that fails leaves its output as it is.
LEMMA FailedInv ==
    ASSUME IInv, pc' = "failed",
           UNCHANGED <<input, f, e, scan, value, qSet, k, rows, hdr>>
    PROVE  IInv'
<1> USE DEF rows, scan
<1>1. Control'
  BY DEF IInv, Control, Running
<1>2. Memory'
  BY DEF IInv, Memory
<1>3. Scanned'
  BY DEF IInv, Scanned
<1>4. Progress'
  BY SameInput DEF IInv, Progress, Running
<1>5. Loading' /\ Dumping'
  BY DEF Loading, Dumping
<1>6. Rows'
  BY RowsSame DEF Row
<1>7. Tiles'
  BY TilesSame DEF Tiles, Running
<1>8. QED
  BY <1>1, <1>2, <1>3, <1>4, <1>5, <1>6, <1>7 DEF IInv

\* A section put into the row at hand leaves the other rows and the other
\* sections of the row as they are.
LEMMA PutIs ==
    ASSUME IInv, NEW s \in Sections, PutSection(s), UNCHANGED index
    PROVE  /\ out' \in Seq([Sections -> ValueShape \cup {Fill}]) /\ Len(out') = index + 1
           /\ \A r \in 1 .. index : Row(r)' = Row(r)
           /\ \A x \in Sections :
                 Row(index + 1)'[x] = IF x = s THEN value[s] ELSE Row(index + 1)[x]
<1>1. /\ index \in Nat /\ out \in Seq([Sections -> ValueShape \cup {Fill}])
      /\ value \in [Sections -> ValueShape]
  BY DEF IInv, Control, Memory
<1>2. PICK m \in Nat : m = index
  BY <1>1
<1>3. \A r \in 1 .. m + 1 : Row(r) \in [Sections -> ValueShape \cup {Fill}]
  BY <1>1 DEF Row, NoRow
<1>4. PICK new : new = [Row(m + 1) EXCEPT ![s] = value[s]]
  OBVIOUS
<1>5. new \in [Sections -> ValueShape \cup {Fill}]
  BY <1>1, <1>2, <1>3, <1>4
<1>6. \A x \in Sections : new[x] = IF x = s THEN value[s] ELSE Row(m + 1)[x]
  BY <1>1, <1>2, <1>3, <1>4
<1>7. out' = [r \in 1 .. m + 1 |-> IF r = m + 1 THEN new ELSE Row(r)]
  BY <1>2, <1>4 DEF PutSection
<1>8. out' \in Seq([Sections -> ValueShape \cup {Fill}]) /\ Len(out') = m + 1
  BY <1>2, <1>3, <1>5, <1>7
<1>9. \A r \in 1 .. m : out'[r] = Row(r)
  BY <1>2, <1>7
<1>10. out'[m + 1] = new
  BY <1>2, <1>7
<1>11. \A r \in 1 .. m : Row(r)' = Row(r)
  BY <1>8, <1>9 DEF Row
<1>12. Row(index + 1)' = new
  BY <1>2, <1>8, <1>10 DEF Row
<1>13. QED
  BY <1>2, <1>6, <1>8, <1>11, <1>12

\* One more section is in the row at hand.
LEMMA DumpSectionInv == IInv /\ DumpSection => IInv'
<1> SUFFICES ASSUME IInv, DumpSection PROVE IInv'
  OBVIOUS
<1> USE DEF rows, scan
<1>1. /\ pc = "dump" /\ pc' = "dump" /\ k <= Len(Order) /\ k' = k + 1
      /\ UNCHANGED <<input, f, e, maxCells, schema, value, qSet, index, sIndex, hdr>> /\ Running
      /\ IF NothingToPut(Order[k]) THEN out' = out ELSE PutSection(Order[k])
  BY DEF DumpSection, Running
<1>2. PICK n \in Nat \ {0} : n = k
  BY DEF IInv, Control
<1>3. PICK s \in Sections : s = Order[n]
  BY <1>1, <1>2, SectionsAre
<1>4. IF NothingToPut(s) THEN out' = out ELSE PutSection(s)
  BY <1>1, <1>2, <1>3
<1>5. /\ out' \in Seq([Sections -> ValueShape \cup {Fill}]) /\ Len(out') <= index + 1
      /\ \A r \in 1 .. index : Row(r)' = Row(r)
      /\ ~NothingToPut(s) => Len(out') = index + 1
      /\ \A x \in Sections :
            Row(index + 1)'[x] = IF x = s /\ ~NothingToPut(s) THEN value[s] ELSE Row(index + 1)[x]
  <2>1. CASE NothingToPut(s)
    BY <1>1, <1>4, <2>1 DEF IInv, Memory, Row
  <2>2. CASE ~NothingToPut(s)
    BY <1>1, <1>4, <2>2, PutIs
  <2>3. QED
    BY <2>1, <2>2
<1>6. Control'
  <2>1. File' = File /\ Ensemble' = Ensemble
    BY <1>1 DEF File, Ensemble
  <2>2. k + 1 <= Len(Order) + 1 /\ k + 1 \in Nat \ {0}
    BY <1>1, <1>2, SectionsAre
  <2>3. QED
    BY <1>1, <2>1, <2>2 DEF IInv, Control, Running
<1>7. Memory'
  BY <1>1, <1>5 DEF IInv, Memory
<1>8. Scanned'
  BY <1>1, ScannedSame DEF IInv, Scanned
<1>9. Progress' /\ Tiles'
  BY <1>1, PlaceSame
<1>10. Loading'
  <2>1. PICK j : j = f
    OBVIOUS
  <2>2. PICK i : i = e
    OBVIOUS
  <2>3. PICK m : m = Len(Ensemble.types)
    OBVIOUS
  <2>4. Len(Ensemble.types)' = m
    BY <1>1, <2>3 DEF Ensemble, File
  <2>5. Read(<<j, i>>, m)
    BY <1>1, <2>1, <2>2, <2>3 DEF IInv, Loading
  <2>6. Read(<<j, i>>, m)'
    BY <1>1, <2>5, SameInput DEF Read
  <2>7. PICK l : l = k' - 1
    OBVIOUS
  <2>8. Read(<<f, e>>, Len(Ensemble.types))'
    BY <1>1, <2>1, <2>2, <2>4, <2>6, <2>7, ReadAfter
  <2>9. QED
    BY <1>1, <2>8 DEF Loading
<1>11. Dumping'
  <2>1. \A x : Put(x, n) <=> Put(x, n - 1) \/ x = s
    <3>1. \A b : b \in 1 .. n <=> b \in 1 .. n - 1 \/ b = n
      BY <1>2
    <3>2. QED
      BY <1>3, <3>1 DEF Put
  <2>2. \A x \in Sections : NothingToPut(x)' <=> NothingToPut(x)
    BY <1>1 DEF NothingToPut
  <2>3. Len(out') <= index \/ \E x \in Sections : qSet[x]
    <3>1. CASE NothingToPut(s)
      BY <1>1, <1>4, <3>1 DEF IInv, Dumping
    <3>2. CASE ~NothingToPut(s)
      BY <3>2 DEF NothingToPut
    <3>3. QED
      BY <3>1, <3>2
  <2>4. ASSUME NEW x \in Sections
        PROVE  Row(index + 1)'[x] = IF Put(x, n) /\ ~NothingToPut(x) THEN value[x] ELSE Fill
    <3>1. Row(index + 1)[x] = IF Put(x, n - 1) /\ ~NothingToPut(x) THEN value[x] ELSE Fill
      BY <1>1, <1>2 DEF IInv, Dumping
    <3>2. Row(index + 1)'[x] = IF x = s /\ ~NothingToPut(s) THEN value[s] ELSE Row(index + 1)[x]
      BY <1>5
    <3>3. QED
      BY <2>1, <3>1, <3>2
  <2>5. k' - 1 = n
    BY <1>1, <1>2
  <2>6. \A x \in Sections : Put(x, k - 1)' <=> Put(x, n)
    BY <2>5 DEF Put
  <2>7. QED
    BY <1>1, <2>2, <2>3, <2>4, <2>6 DEF Dumping
<1>12. Rows'
  BY <1>1, <1>5, RowsSame
<1>13. QED
  BY <1>6, <1>7, <1>8, <1>9, <1>10, <1>11, <1>12 DEF IInv

\* The row of an ensemble read and written to the end shows what it may.
LEMMA RowDumped ==
    ASSUME IInv, pc = "dump", k > Len(Order), NEW p, p = <<f, e>>
    PROVE  /\ \A s \in Sections : Shows(Row(index + 1)[s], p, s)
           /\ p \in Deserving <=> \E s \in Sections : qSet[s]
<1>1. /\ Ensemble = Own(p) /\ input \in Inputs /\ p = <<p[1], p[2]>>
      /\ p[1] \in 1 .. Len(input) /\ p[2] \in 1 .. Len(input[p[1]].ensembles)
      /\ Width(p) = Len(Ensemble.types) /\ DOMAIN Own(p).types = 1 .. Width(p)
  BY Here DEF Width
<1>2. Read(p, Width(p))
  BY <1>1 DEF IInv, Loading
<1>3. k - 1 = Len(Order)
  BY SectionsAre DEF IInv, Control
<1>4. ASSUME NEW s \in Sections
      PROVE  Shows(Row(index + 1)[s], p, s)
  <2>1. Row(index + 1)[s] = IF ~NothingToPut(s) THEN value[s] ELSE Fill
    BY <1>3, SectionsAre DEF IInv, Dumping
  <2>2. /\ qSet[s] <=> Has(p, s, Width(p))
        /\ qSet[s] => Holds(value[s], p, s, Width(p))
    BY <1>2 DEF Read
  <2>3. value[s] \in ValueShape
    BY DEF IInv, Memory
  <2>4. CASE qSet[s] /\ s \in Cellwise /\ value[s].n = 0
    <3>1. Row(index + 1)[s] = Fill
      BY <2>1, <2>4 DEF NothingToPut
    <3>2. LeaderRead(p, s, Width(p)) => Own(p).cells = 0
      BY <2>2, <2>4 DEF Holds
    <3>3. QED
      BY <2>2, <2>4, <3>1, <3>2 DEF Shows
  <2>5. CASE qSet[s] /\ ~(s \in Cellwise /\ value[s].n = 0)
    <3>1. Row(index + 1)[s] = value[s]
      BY <2>1, <2>5 DEF NothingToPut
    <3>2. QED
      BY <2>2, <2>3, <2>5, <3>1 DEF Shows
  <2>6. CASE ~qSet[s]
    BY <2>1, <2>2, <2>6 DEF Shows, NothingToPut
  <2>7. QED
    BY <2>4, <2>5, <2>6
<1>5. Deserves(Own(p)) <=> \E s \in Sections : qSet[s]
  <2>1. \A s : s \in ToSet(Own(p).types) <=> Has(p, s, Width(p))
    BY <1>1 DEF Has, ToSet
  <2>2. QED
    BY <1>2, <2>1 DEF Deserves, Read
<1>6. QED
  BY <1>1, <1>4, <1>5, DeservingAre

\* The row at hand counts if its ensemble deserves one.
LEMMA EnsembleDumpedInv == IInv /\ EnsembleDumped => IInv'
<1> SUFFICES ASSUME IInv, EnsembleDumped PROVE IInv'
  OBVIOUS
<1> USE DEF rows, scan
<1>1. /\ pc = "dump" /\ pc' = "header" /\ k > Len(Order) /\ e' = e + 1 /\ Running
      /\ index' = IF \E s \in Sections : qSet[s] THEN index + 1 ELSE index
      /\ UNCHANGED <<input, f, maxCells, schema, value, qSet, k, out, sIndex, hdr>>
  BY DEF EnsembleDumped, Running
<1>2. /\ input \in Inputs /\ f \in 1 .. Len(input) /\ e \in 1 .. Len(input[f].ensembles)
      /\ File = input[f] /\ index \in Nat /\ Len(input) \in Nat /\ Len(input[f].ensembles) \in Nat
  BY <1>1, Here, InputShape DEF IInv, Control, File
<1>3. PICK j \in Nat : j = f
  BY <1>2
<1>4. PICK i \in Nat : i = e
  BY <1>2
<1>5. /\ \A s \in Sections : Shows(Row(index + 1)[s], <<j, i>>, s)
      /\ <<j, i>> \in Deserving <=> \E s \in Sections : qSet[s]
  BY <1>1, <1>3, <1>4, RowDumped
<1>6. index = Cardinality(Earlier(<<j, i>>))
  BY <1>1, <1>3, <1>4 DEF IInv, Progress
<1>7. index' = Cardinality(Earlier(<<j, i + 1>>))
  BY <1>1, <1>2, <1>5, <1>6, EarlierNext
<1>8. Control'
  <2>1. File' = File
    BY <1>1 DEF File
  <2>2. QED
    BY <1>1, <1>2, <2>1 DEF IInv, Control, Running
<1>9. Memory'
  <2>1. Len(out) <= index'
    BY <1>1, <1>2 DEF IInv, Memory, Dumping
  <2>2. QED
    BY <1>1, <1>2, <2>1 DEF IInv, Memory
<1>10. Scanned'
  BY <1>1, ScannedSame DEF IInv, Scanned
<1>11. f' = j /\ e' = i + 1
  BY <1>1, <1>3, <1>4
<1>12. /\ Cardinality(Earlier(<<f, 1>>))' = Cardinality(Earlier(<<j, 1>>))
       /\ Cardinality(Earlier(<<f, e>>))' = Cardinality(Earlier(<<j, i + 1>>))
  BY <1>1, <1>11, PlaceAfter
<1>13. Progress'
  <2>1. index' <= Cardinality(Deserving)
    BY <1>2, <1>7, EarlierFinite
  <2>2. QED
    BY <1>1, <1>7, <1>12, <2>1, SameInput DEF Progress
<1>14. Loading' /\ Dumping'
  BY <1>1 DEF Loading, Dumping
<1>15. Rows'
  <2>1. \A r : Row(r)' = Row(r)
    BY <1>1 DEF Row
  <2>2. CASE <<j, i>> \notin Deserving
    BY <1>1, <1>5, <2>1, <2>2, RowsSame
  <2>3. CASE <<j, i>> \in Deserving
    <3>1. PICK m \in Nat : m = index
      BY <1>2
    <3>2. \A r \in 1 .. m + 1 : \E p \in Deserving :
             Cardinality(Earlier(p)) = r - 1 /\ \A s \in Sections : Shows(Row(r)[s], p, s)
      <4>1. \A r \in 1 .. m : \E p \in Deserving :
               Cardinality(Earlier(p)) = r - 1 /\ \A s \in Sections : Shows(Row(r)[s], p, s)
        BY <3>1 DEF IInv, Rows
      <4>2. Cardinality(Earlier(<<j, i>>)) = (m + 1) - 1
        BY <1>6, <3>1
      <4>3. \A s \in Sections : Shows(Row(m + 1)[s], <<j, i>>, s)
        BY <1>5, <3>1
      <4>4. \A r \in 1 .. m + 1 : r \in 1 .. m \/ r = m + 1
        OBVIOUS
      <4>5. QED
        BY <2>3, <4>1, <4>2, <4>3, <4>4
    <3>3. index' = m + 1
      BY <1>1, <1>5, <2>3, <3>1
    <3>4. ASSUME NEW r \in 1 .. m + 1
          PROVE  \E p \in Deserving' :
             Cardinality(Earlier(p))' = r - 1 /\ \A s \in Sections : Shows(Row(r)[s], p, s)'
      <4>1. PICK p \in Deserving :
             Cardinality(Earlier(p)) = r - 1 /\ \A s \in Sections : Shows(Row(r)[s], p, s)
        BY <3>2
      <4>2. p \in Deserving' /\ Cardinality(Earlier(p))' = r - 1
        BY <1>1, <4>1, SameInput
      <4>3. ASSUME NEW s \in Sections PROVE Shows(Row(r)[s], p, s)'
        <5>1. PICK v : v = Row(r)[s]
          OBVIOUS
        <5>2. Shows(v, p, s)' <=> Shows(v, p, s)
          BY <1>1, SameInput
        <5>3. Row(r)[s]' = v
          BY <2>1, <5>1
        <5>4. QED
          BY <4>1, <5>1, <5>2, <5>3 DEF Shows
      <4>4. QED
        BY <4>2, <4>3
    <3>5. QED
      BY <3>3, <3>4 DEF Rows
  <2>4. QED
    BY <2>2, <2>3
<1>16. Tiles'
  BY <1>1, <1>3, <1>12, TilesSame DEF IInv, Tiles, Running
<1>17. QED
  BY <1>8, <1>9, <1>10, <1>13, <1>14, <1>15, <1>16 DEF IInv

\* The rows since the file was opened are rows of its ensembles.
LEMMA RowsOfTheFile ==
    ASSUME IInv, pc = "close", NEW r \in sIndex .. index - 1
    PROVE  r < Cardinality(Deserving) /\ Wanted[r + 1][1] = f
<1>1. /\ input \in Inputs /\ f \in 1 .. Len(input) /\ index \in Nat /\ sIndex \in 0 .. index
      /\ e = Len(input[f].ensembles) + 1 /\ Len(input) \in Nat /\ Running
  BY InputShape DEF IInv, Control, Running, File
<1>2. PICK j \in Nat : j = f
  BY <1>1
<1>3. PICK i : i = e
  OBVIOUS
<1>4. index = Cardinality(Earlier(<<j + 1, 1>>))
  <2>1. index = Cardinality(Earlier(<<j, i>>))
    BY <1>1, <1>2, <1>3 DEF IInv, Progress
  <2>2. Earlier(<<j, i>>) = Earlier(<<j + 1, 1>>)
    BY <1>1, <1>2, <1>3, EarlierFiles
  <2>3. QED
    BY <2>1, <2>2
<1>5. sIndex = Cardinality(Earlier(<<j, 1>>))
  BY <1>1, <1>2 DEF IInv, Tiles
<1>6. PICK n \in Nat : n = r
  BY <1>1
<1>7. PICK p \in Deserving : Cardinality(Earlier(p)) = n
  <2>1. n + 1 \in 1 .. index
    BY <1>1, <1>6
  <2>2. PICK p \in Deserving : Cardinality(Earlier(p)) = (n + 1) - 1
    BY <2>1 DEF IInv, Rows
  <2>3. QED
    BY <2>2
<1>8. Wanted[n + 1] = p /\ n + 1 \in 1 .. Cardinality(Deserving)
  <2>1. Cardinality(Earlier(p)) = (n + 1) - 1 /\ n + 1 \in Nat
    BY <1>7
  <2>2. QED
    BY <1>1, <2>1, WantedIs
<1>9. p[1] \in Nat
  BY <1>1, DeservingAre
<1>10. ~(p[1] < j)
  BY <1>1, <1>2, <1>5, <1>6, <1>7, EarlierOrder
<1>11. ~(p[1] >= j + 1)
  <2>1. j + 1 \in Nat
    BY <1>2
  <2>2. p[1] >= j + 1 => index <= n
    BY <1>1, <1>4, <1>7, <2>1, EarlierOrder
  <2>3. QED
    BY <1>1, <1>6, <2>2
<1>12. p[1] = j
  BY <1>2, <1>9, <1>10, <1>11
<1>13. n < Cardinality(Deserving)
  <2>1. Cardinality(Deserving) \in Nat
    BY <1>1, EarlierFinite
  <2>2. QED
    BY <1>8, <2>1
<1>14. QED
  BY <1>2, <1>6, <1>8, <1>12, <1>13

\* The header row of a file takes the rows since it was opened.
LEMMA CloseFileInv == IInv /\ CloseFile => IInv'
<1> SUFFICES ASSUME IInv, CloseFile PROVE IInv'
  OBVIOUS
<1> USE DEF rows, scan
<1>1. /\ pc = "close" /\ pc' = "file" /\ f' = f + 1 /\ Running
      /\ hdr' = IF index = sIndex THEN hdr
                ELSE Append(hdr, [file |-> f, start |-> sIndex, stop |-> index - 1])
      /\ UNCHANGED <<input, e, maxCells, schema, value, qSet, k, out, index, sIndex>>
  BY DEF CloseFile, Running
<1>2. /\ input \in Inputs /\ f \in 1 .. Len(input) /\ index \in Nat /\ sIndex \in 0 .. index
      /\ e = Len(input[f].ensembles) + 1 /\ Len(input) \in Nat /\ hdr \in Seq(HeaderShape)
  BY <1>1, InputShape DEF IInv, Control, File
<1>3. PICK j \in Nat : j = f
  BY <1>2
<1>4. PICK i : i = e
  OBVIOUS
<1>5. index = Cardinality(Earlier(<<j + 1, 1>>))
  <2>1. index = Cardinality(Earlier(<<j, i>>))
    BY <1>1, <1>3, <1>4 DEF IInv, Progress
  <2>2. Earlier(<<j, i>>) = Earlier(<<j + 1, 1>>)
    BY <1>2, <1>3, <1>4, EarlierFiles
  <2>3. QED
    BY <2>1, <2>2
<1>6. PICK new : new = [file |-> f, start |-> sIndex, stop |-> index - 1]
  OBVIOUS
<1>7. hdr' = IF index = sIndex THEN hdr ELSE Append(hdr, new)
  BY <1>1, <1>6
<1>8. index # sIndex => new \in HeaderShape
  BY <1>2, <1>6 DEF HeaderShape
<1>9. Control'
  <2>1. hdr' \in Seq(HeaderShape)
    BY <1>2, <1>7, <1>8
  <2>2. QED
    BY <1>1, <1>2, <2>1 DEF IInv, Control, Running
<1>10. Memory'
  BY <1>1 DEF IInv, Memory
<1>11. Scanned'
  BY <1>1, ScannedSame DEF IInv, Scanned
<1>12. Progress'
  <2>1. f' = j + 1
    BY <1>1, <1>3
  <2>2. Cardinality(Earlier(<<f, 1>>))' = Cardinality(Earlier(<<j + 1, 1>>))
    BY <1>1, <2>1, PlaceAfter
  <2>3. index <= Cardinality(Deserving)
    BY DEF IInv, Progress
  <2>4. QED
    BY <1>1, <1>5, <2>2, <2>3, SameInput DEF Progress, Running
<1>13. Loading' /\ Dumping'
  BY <1>1 DEF Loading, Dumping
<1>14. Rows'
  BY <1>1, RowsSame DEF Row
<1>15. Tiles'
  <2>1. CASE index = sIndex
    BY <1>1, <2>1, TilesSame DEF IInv, Tiles, Running
  <2>2. CASE index # sIndex
    <3>1. PICK m \in Nat : m = Len(hdr)
      BY <1>2
    <3>2. /\ DOMAIN hdr' = 1 .. m + 1 /\ Len(hdr') = m + 1 /\ hdr' # << >>
          /\ hdr'[m + 1] = new /\ \A a \in 1 .. m : hdr'[a] = hdr[a]
      BY <1>2, <1>7, <1>8, <2>2, <3>1
    <3>3. DOMAIN hdr = 1 .. m
      BY <1>2, <3>1
    <3>4. Cardinality(Deserving)' = Cardinality(Deserving) /\ Wanted' = Wanted
      BY <1>1, SameInput
    <3>5. ASSUME NEW a \in 1 .. m PROVE Tile(a)'
      <4>1. Tile(a)
        BY <3>3 DEF IInv, Tiles
      <4>2. hdr'[a] = hdr[a] /\ (a # 1 => hdr'[a - 1] = hdr[a - 1])
        BY <3>2
      <4>3. QED
        BY <3>4, <4>1, <4>2 DEF Tile
    <3>6. Tile(m + 1)'
      <4>1. new.start = IF m + 1 = 1 THEN 0 ELSE hdr'[m].stop + 1
        <5>1. sIndex = IF hdr = << >> THEN 0 ELSE hdr[Len(hdr)].stop + 1
          BY <1>1 DEF IInv, Tiles, NextStart
        <5>2. hdr = << >> <=> m = 0
          BY <1>2, <3>1
        <5>3. m # 0 => hdr'[m] = hdr[m]
          BY <3>1, <3>2
        <5>4. QED
          BY <1>6, <3>1, <5>1, <5>2, <5>3
      <4>2. new.stop >= new.start
        BY <1>2, <1>6, <2>2
      <4>3. \A r \in new.start .. new.stop :
               r < Cardinality(Deserving) /\ Wanted[r + 1][1] = new.file
        BY <1>1, <1>6, RowsOfTheFile
      <4>4. (m + 1) - 1 = m
        BY <3>1
      <4>5. QED
        BY <3>2, <3>4, <4>1, <4>2, <4>3, <4>4 DEF Tile
    <3>7. NextStart' = index
      BY <1>2, <1>6, <3>2 DEF NextStart
    <3>8. \A a \in DOMAIN hdr' : a \in 1 .. m \/ a = m + 1
      BY <3>1, <3>2
    <3>9. QED
      BY <1>1, <3>5, <3>6, <3>7, <3>8 DEF Tiles, Running
  <2>3. QED
    BY <2>1, <2>2
<1>16. QED
  BY <1>9, <1>10, <1>11, <1>12, <1>13, <1>14, <1>15 DEF IInv

\* Behind the last file every ensemble has had its turn.
LEMMA FinishInv == IInv /\ Finish => IInv'
<1> SUFFICES ASSUME IInv, Finish PROVE IInv'
  OBVIOUS
<1> USE DEF rows, scan
<1>1. /\ pc = "file" /\ pc' = "done" /\ f > Len(input)
      /\ UNCHANGED <<input, f, e, maxCells, schema, value, qSet, k, out, index, sIndex, hdr>>
  BY DEF Finish
<1>2. input \in Inputs /\ f = Len(input) + 1
  <2>1. input \in Inputs /\ Len(input) \in Nat
    BY InputShape DEF IInv, Control
  <2>2. QED
    BY <1>1, <2>1 DEF IInv, Control
<1>3. Control'
  BY <1>1, <1>2 DEF IInv, Control, Running
<1>4. Memory'
  BY <1>1 DEF IInv, Memory
<1>5. Scanned'
  BY <1>1, ScannedSame DEF IInv, Scanned
<1>6. Progress'
  <2>1. index = Cardinality(Earlier(<<f, 1>>))
    BY <1>1 DEF IInv, Progress
  <2>2. Earlier(<<f, 1>>) = Deserving
    BY <1>2, EarlierFiles
  <2>3. index <= Cardinality(Deserving)
    BY DEF IInv, Progress
  <2>4. QED
    BY <1>1, <2>1, <2>2, <2>3, SameInput DEF Progress, Running
<1>7. Loading' /\ Dumping'
  BY <1>1 DEF Loading, Dumping
<1>8. Rows'
  BY <1>1, RowsSame DEF Row
<1>9. Tiles'
  BY <1>1, TilesSame DEF IInv, Tiles, Running
<1>10. QED
  BY <1>3, <1>4, <1>5, <1>6, <1>7, <1>8, <1>9 DEF IInv

\* Nothing happens.
LEMMA StayInv == IInv /\ UNCHANGED vars => IInv'
<1> SUFFICES ASSUME IInv, UNCHANGED vars PROVE IInv'
  OBVIOUS
<1> USE DEF vars
<1>1. Control' /\ Memory' /\ Scanned'
  BY DEF IInv, Control, Memory, Scanned, Running, File, Ensemble
<1>2. Progress' /\ Loading'
  <2>1. Progress'
    BY DEF IInv, Progress, Running, Earlier, Deserving
  <2>2. Loading'
    BY DEF IInv, Loading, Read, Has, Holds, LeaderRead, Own, Ensemble, File
  <2>3. QED
    BY <2>1, <2>2
<1>3. Dumping'
  BY DEF IInv, Dumping, Row, NothingToPut
<1>4. Rows'
  BY RowsSame DEF Row
<1>5. Tiles'
  BY TilesSame, SameInput DEF IInv, Tiles, Running, Earlier
<1>6. QED
  BY <1>1, <1>2, <1>3, <1>4, <1>5 DEF IInv

\* Every step keeps the invariant.
LEMMA NextInv == IInv /\ [Next]_vars => IInv'
<1> SUFFICES ASSUME IInv, [Next]_vars PROVE IInv'
  OBVIOUS
<1>1. CASE ScanFile
  BY <1>1, ScanFileInv
<1>2. CASE SetUp
  BY <1>2, SetUpInv
<1>3. CASE OpenFile
  BY <1>3, OpenFileInv
<1>4. CASE BeginEnsemble
  BY <1>4, BeginEnsembleInv
<1>5. CASE LoadSection
  BY <1>5, LoadSectionInv
<1>6. CASE SectionsLoaded
  BY <1>6, SectionsLoadedInv
<1>7. CASE EndOfEnsembles
  BY <1>7, EndOfEnsemblesInv
<1>8. CASE Throws
  BY <1>8, FailedInv DEF Throws
<1>9. CASE DumpSection
  BY <1>9, DumpSectionInv
<1>10. CASE DumpFails
  BY <1>10, FailedInv DEF DumpFails
<1>11. CASE EnsembleDumped
  BY <1>11, EnsembleDumpedInv
<1>12. CASE CloseFile
  BY <1>12, CloseFileInv
<1>13. CASE Finish
  BY <1>13, FinishInv
<1>14. CASE UNCHANGED vars
  BY <1>14, StayInv
<1>15. QED
  BY <1>1, <1>2, <1>3, <1>4, <1>5, <1>6, <1>7, <1>8, <1>9, <1>10, <1>11, <1>12, <1>13, <1>14
     DEF Next, Stay

\* The invariant holds in every state of a run.
LEMMA Invariance == Spec => []IInv
BY InitInv, NextInv, PTL DEF Spec

-----------------------------------------------------------------------------
(* The chunks *)

\* The products of the last lengths.
ProductTo(s, p) ==
    p = [n \in 0 .. Len(s) |-> IF n = 0 THEN 1 ELSE p[n - 1] * s[Len(s) + 1 - n]]

\* Product is the last of them.
LEMMA ProductIs ==
    ASSUME NEW s \in Seq(Nat)
    PROVE  \E p \in [0 .. Len(s) -> Nat] :
              /\ p[0] = 1 /\ \A n \in 1 .. Len(s) : p[n] = p[n - 1] * s[Len(s) + 1 - n]
              /\ Product(s) = p[Len(s)]
<1>1. PICK N \in Nat : N = Len(s)
  OBVIOUS
<1>2. \A n \in 1 .. N : N + 1 - n \in 1 .. N /\ s[N + 1 - n] \in Nat
  BY <1>1
<1>3. \E p : ProductTo(s, p)
  <2>1. PICK step : step = [q \in (1 .. N) \X Nat |-> q[2] * s[N + 1 - q[1]]]
    OBVIOUS
  <2>2. step \in StepFunctions(N, Nat)
    <3>1. ASSUME NEW q \in (1 .. N) \X Nat PROVE q[2] * s[N + 1 - q[1]] \in Nat
      <4>1. q[1] \in 1 .. N /\ q[2] \in Nat
        OBVIOUS
      <4>2. PICK x \in Nat : x = s[N + 1 - q[1]]
        BY <1>2, <4>1
      <4>3. QED
        BY <4>1, <4>2
    <3>2. QED
      BY <2>1, <3>1 DEF StepFunctions
  <2>3. PICK g : Iterates(N, Nat, 1, step, g)
    <3>1. 1 \in Nat
      OBVIOUS
    <3>2. QED
      BY <2>2, <3>1, IterationExists
  <2>4. ASSUME NEW n \in 1 .. N PROVE g[n] = g[n - 1] * s[N + 1 - n]
    <3>1. n - 1 \in 0 .. N
      OBVIOUS
    <3>2. <<n, g[n - 1]>> \in (1 .. N) \X Nat
      BY <2>3, <3>1 DEF Iterates
    <3>3. QED
      BY <2>1, <2>3, <3>2 DEF Iterates
  <2>5. g = [n \in 0 .. N |-> IF n = 0 THEN 1 ELSE g[n - 1] * s[N + 1 - n]]
    <3>1. \A n \in 0 .. N : n # 0 => n \in 1 .. N
      OBVIOUS
    <3>2. \A n \in 0 .. N : g[n] = IF n = 0 THEN 1 ELSE g[n - 1] * s[N + 1 - n]
      BY <2>3, <2>4, <3>1 DEF Iterates
    <3>3. QED
      BY <2>3, <3>2 DEF Iterates
  <2>6. QED
    BY <1>1, <2>5 DEF ProductTo
<1>4. PICK p : ProductTo(s, p) /\ Product(s) = p[Len(s)]
  <2> DEFINE p == CHOOSE p : ProductTo(s, p)
  <2>1. ProductTo(s, p)
    BY <1>3
  <2>2. Product(s) = p[Len(s)]
    BY DEF Product, ProductTo
  <2>3. QED
    BY <2>1, <2>2
<1>5. /\ DOMAIN p = 0 .. N /\ p[0] = 1
      /\ \A n \in 1 .. N : p[n] = p[n - 1] * s[N + 1 - n]
  <2>1. p = [n \in 0 .. N |-> IF n = 0 THEN 1 ELSE p[n - 1] * s[N + 1 - n]]
    BY <1>1, <1>4 DEF ProductTo
  <2>2. QED
    BY <2>1
<1>6. p \in [0 .. N -> Nat]
  <2> DEFINE T == {n \in 0 .. N : p[n] \in Nat}
  <2>1. 0 \in T
    BY <1>5
  <2>2. ASSUME NEW n \in 1 .. N, n - 1 \in T PROVE n \in T
    <3>1. PICK a \in Nat : a = p[n - 1]
      BY <2>2
    <3>2. PICK b \in Nat : b = s[N + 1 - n]
      BY <1>2
    <3>3. p[n] = a * b
      BY <1>5, <3>1, <3>2
    <3>4. QED
      BY <3>3
  <2> HIDE DEF T
  <2>3. T = 0 .. N
    <3>1. T \in SUBSET (0 .. N)
      BY DEF T
    <3>2. QED
      BY <2>1, <2>2, <3>1, IterationHolds
  <2>4. \A n \in 0 .. N : p[n] \in Nat
    BY <2>3 DEF T
  <2>5. p = [n \in 0 .. N |-> p[n]]
    BY <1>4, <1>1 DEF ProductTo
  <2>6. QED
    BY <2>4, <2>5
<1>7. QED
  BY <1>1, <1>4, <1>5, <1>6

\* What the lengths defined, from the last on, leave.
LeftTo(lengths, size, q) ==
    q = [n \in 0 .. Len(lengths) |->
            IF n = 0 THEN size ELSE Left(q[n - 1], lengths[Len(lengths) + 1 - n])]

\* What is left is a number of cells.
LEMMA LeftIs ==
    ASSUME NEW a \in Nat, NEW b \in Nat
    PROVE  Left(a, b) \in Nat
BY DEF Left

\* Available is the last value of such a function.
LEMMA AvailableIs ==
    ASSUME NEW lengths \in Seq(Nat), NEW size \in Nat
    PROVE  \E q \in [0 .. Len(lengths) -> Nat] :
              /\ q[0] = size
              /\ \A n \in 1 .. Len(lengths) : q[n] = Left(q[n - 1], lengths[Len(lengths) + 1 - n])
              /\ Available(lengths, size) = q[Len(lengths)]
<1>1. PICK N \in Nat : N = Len(lengths)
  OBVIOUS
<1>2. \A n \in 1 .. N : N + 1 - n \in 1 .. N /\ lengths[N + 1 - n] \in Nat
  BY <1>1
<1>3. \E q : LeftTo(lengths, size, q)
  <2>1. PICK step : step = [a \in (1 .. N) \X Nat |-> Left(a[2], lengths[N + 1 - a[1]])]
    OBVIOUS
  <2>2. step \in StepFunctions(N, Nat)
    <3>1. ASSUME NEW a \in (1 .. N) \X Nat PROVE Left(a[2], lengths[N + 1 - a[1]]) \in Nat
      <4>1. a[1] \in 1 .. N /\ a[2] \in Nat
        OBVIOUS
      <4>2. PICK x \in Nat : x = lengths[N + 1 - a[1]]
        BY <1>2, <4>1
      <4>3. QED
        BY <4>1, <4>2, LeftIs
    <3>2. QED
      BY <2>1, <3>1 DEF StepFunctions
  <2>3. PICK g : Iterates(N, Nat, size, step, g)
    BY <2>2, IterationExists
  <2>4. ASSUME NEW n \in 1 .. N PROVE g[n] = Left(g[n - 1], lengths[N + 1 - n])
    <3>1. n - 1 \in 0 .. N
      OBVIOUS
    <3>2. <<n, g[n - 1]>> \in (1 .. N) \X Nat
      BY <2>3, <3>1 DEF Iterates
    <3>3. QED
      BY <2>1, <2>3, <3>2 DEF Iterates
  <2>5. g = [n \in 0 .. N |-> IF n = 0 THEN size ELSE Left(g[n - 1], lengths[N + 1 - n])]
    <3>1. \A n \in 0 .. N : n # 0 => n \in 1 .. N
      OBVIOUS
    <3>2. \A n \in 0 .. N : g[n] = IF n = 0 THEN size ELSE Left(g[n - 1], lengths[N + 1 - n])
      BY <2>3, <2>4, <3>1 DEF Iterates
    <3>3. QED
      BY <2>3, <3>2 DEF Iterates
  <2>6. QED
    BY <1>1, <2>5 DEF LeftTo
<1>4. PICK q : LeftTo(lengths, size, q) /\ Available(lengths, size) = q[Len(lengths)]
  <2> DEFINE q == CHOOSE q : LeftTo(lengths, size, q)
  <2>1. LeftTo(lengths, size, q)
    BY <1>3
  <2>2. Available(lengths, size) = q[Len(lengths)]
    BY DEF Available, LeftTo
  <2>3. QED
    BY <2>1, <2>2
<1>5. /\ DOMAIN q = 0 .. N /\ q[0] = size
      /\ \A n \in 1 .. N : q[n] = Left(q[n - 1], lengths[N + 1 - n])
  <2>1. q = [n \in 0 .. N |-> IF n = 0 THEN size ELSE Left(q[n - 1], lengths[N + 1 - n])]
    BY <1>1, <1>4 DEF LeftTo
  <2>2. QED
    BY <2>1
<1>6. q \in [0 .. N -> Nat]
  <2> DEFINE T == {n \in 0 .. N : q[n] \in Nat}
  <2>1. 0 \in T
    BY <1>5
  <2>2. ASSUME NEW n \in 1 .. N, n - 1 \in T PROVE n \in T
    <3>1. PICK a \in Nat : a = q[n - 1]
      BY <2>2
    <3>2. PICK b \in Nat : b = lengths[N + 1 - n]
      BY <1>2
    <3>3. q[n] = Left(a, b)
      BY <1>5, <3>1, <3>2
    <3>4. Left(a, b) \in Nat
      BY LeftIs
    <3>5. QED
      BY <3>3, <3>4
  <2> HIDE DEF T
  <2>3. T = 0 .. N
    <3>1. T \in SUBSET (0 .. N)
      BY DEF T
    <3>2. QED
      BY <2>1, <2>2, <3>1, IterationHolds
  <2>4. \A n \in 0 .. N : q[n] \in Nat
    BY <2>3 DEF T
  <2>5. q = [n \in 0 .. N |-> q[n]]
    BY <1>4, <1>1 DEF LeftTo
  <2>6. QED
    BY <2>4, <2>5
<1>7. QED
  BY <1>1, <1>4, <1>5, <1>6

\* To divide by a length is to divide by the cells of the last ones and it.
LEMMA DivisionOfProduct ==
    ASSUME NEW a \in Nat, NEW b \in Nat \ {0}, NEW c \in Nat \ {0}, NEW size \in Nat,
           a * c <= size, size < (a + 1) * c
    PROVE  /\ (a \div b) * (c * b) <= size /\ size < (a \div b + 1) * (c * b)
           /\ c * b # 0
OBVIOUS

\* What is left, times the cells of the lengths defined, is what there was,
\* but for a rest of less than those cells.
LEMMA AvailableFits ==
    ASSUME NEW lengths \in Seq(Nat), NEW size \in Nat
    PROVE  LET cells == Product(ChunkStart(lengths))
               left == Available(lengths, size)
           IN  /\ ChunkStart(lengths) \in [1 .. Len(lengths) -> Nat \ {0}]
               /\ cells \in Nat \ {0} /\ left \in Nat
               /\ left * cells <= size /\ size < (left + 1) * cells
<1>1. PICK N \in Nat : N = Len(lengths)
  OBVIOUS
<1>2. PICK s : s = ChunkStart(lengths)
  OBVIOUS
<1>3. /\ s \in [1 .. N -> Nat \ {0}] /\ s \in Seq(Nat) /\ Len(s) = N
      /\ \A d \in 1 .. N : s[d] = IF lengths[d] # 0 THEN lengths[d] ELSE 1
  <2>1. s = [d \in 1 .. N |-> IF lengths[d] # 0 THEN lengths[d] ELSE 1]
    BY <1>1, <1>2 DEF ChunkStart
  <2>2. \A d \in 1 .. N : lengths[d] \in Nat
    BY <1>1
  <2>3. s \in [1 .. N -> Nat \ {0}]
    BY <2>1, <2>2
  <2>4. s \in Seq(Nat) /\ Len(s) = N
    BY <2>3
  <2>5. QED
    BY <2>1, <2>3, <2>4
<1>4. PICK p \in [0 .. N -> Nat] :
          /\ p[0] = 1 /\ \A n \in 1 .. N : p[n] = p[n - 1] * s[N + 1 - n]
          /\ Product(s) = p[N]
  BY <1>3, ProductIs
<1>5. PICK q \in [0 .. N -> Nat] :
          /\ q[0] = size /\ \A n \in 1 .. N : q[n] = Left(q[n - 1], lengths[N + 1 - n])
          /\ Available(lengths, size) = q[N]
  BY <1>1, AvailableIs
<1> DEFINE T == {n \in 0 .. N : p[n] # 0 /\ q[n] * p[n] <= size /\ size < (q[n] + 1) * p[n]}
<1>6. 0 \in T
  BY <1>4, <1>5
<1>7. ASSUME NEW n \in 1 .. N, n - 1 \in T PROVE n \in T
  <2>1. PICK a \in Nat : a = q[n - 1]
    BY <1>5
  <2>2. PICK c \in Nat : c = p[n - 1]
    BY <1>4
  <2>3. c # 0 /\ a * c <= size /\ size < (a + 1) * c
    BY <1>7, <2>1, <2>2
  <2>4. PICK b \in Nat : b = lengths[N + 1 - n]
    BY <1>1
  <2>5. s[N + 1 - n] = IF b # 0 THEN b ELSE 1
    <3>1. PICK d \in 1 .. N : d = N + 1 - n
      OBVIOUS
    <3>2. s[d] = IF lengths[d] # 0 THEN lengths[d] ELSE 1
      BY <1>3
    <3>3. QED
      BY <2>4, <3>1, <3>2
  <2>6. q[n] = Left(a, b) /\ p[n] = c * (IF b # 0 THEN b ELSE 1)
    BY <1>4, <1>5, <2>1, <2>2, <2>4, <2>5
  <2>7. p[n] # 0 /\ q[n] * p[n] <= size /\ size < (q[n] + 1) * p[n]
    <3>1. CASE b = 0
      <4>1. q[n] = a /\ p[n] = c
        BY <2>6, <3>1 DEF Left
      <4>2. QED
        BY <2>3, <4>1
    <3>2. CASE b # 0
      <4>1. q[n] = a \div b /\ p[n] = c * b
        BY <2>6, <3>2 DEF Left
      <4>2. (a \div b) * (c * b) <= size /\ size < (a \div b + 1) * (c * b) /\ c * b # 0
        BY <2>3, <3>2, DivisionOfProduct
      <4>3. QED
        BY <4>1, <4>2
    <3>3. QED
      BY <3>1, <3>2
  <2>8. QED
    BY <2>7
<1> HIDE DEF T
<1>8. T = 0 .. N
  <2>1. T \in SUBSET (0 .. N)
    BY DEF T
  <2>2. QED
    BY <1>6, <1>7, <2>1, IterationHolds
<1>9. p[N] # 0 /\ q[N] * p[N] <= size /\ size < (q[N] + 1) * p[N]
  <2>1. N \in T
    BY <1>8
  <2>2. QED
    BY <2>1 DEF T
<1>10. p[N] \in Nat /\ q[N] \in Nat
  BY <1>4, <1>5
<1>11. QED
  BY <1>1, <1>2, <1>3, <1>4, <1>5, <1>9, <1>10

\* A factor in place of a 1 multiplies the product.
LEMMA ProductPut ==
    ASSUME NEW s \in Seq(Nat), NEW d \in 1 .. Len(s), s[d] = 1, NEW x \in Nat
    PROVE  Product([s EXCEPT ![d] = x]) = Product(s) * x /\ Product(s) \in Nat
<1>1. PICK N \in Nat : N = Len(s)
  OBVIOUS
<1>2. PICK t : t = [s EXCEPT ![d] = x]
  OBVIOUS
<1>3. /\ t \in Seq(Nat) /\ Len(t) = N
      /\ \A i \in 1 .. N : t[i] = IF i = d THEN x ELSE s[i]
  BY <1>1, <1>2
<1>4. PICK p \in [0 .. N -> Nat] :
          /\ p[0] = 1 /\ \A n \in 1 .. N : p[n] = p[n - 1] * s[N + 1 - n]
          /\ Product(s) = p[N]
  BY <1>1, ProductIs
<1>5. PICK q \in [0 .. N -> Nat] :
          /\ q[0] = 1 /\ \A n \in 1 .. N : q[n] = q[n - 1] * t[N + 1 - n]
          /\ Product(t) = q[N]
  BY <1>3, ProductIs
<1>6. PICK at \in 1 .. N : at = N + 1 - d
  <2>1. d \in 1 .. N
    BY <1>1
  <2>2. QED
    BY <2>1
<1> DEFINE T == {n \in 0 .. N : q[n] = IF n < at THEN p[n] ELSE p[n] * x}
<1>7. 0 \in T
  BY <1>4, <1>5, <1>6
<1>8. ASSUME NEW n \in 1 .. N, n - 1 \in T PROVE n \in T
  <2>1. PICK a \in Nat : a = p[n - 1]
    BY <1>4
  <2>2. q[n - 1] = IF n - 1 < at THEN a ELSE a * x
    BY <1>8, <2>1
  <2>3. PICK i \in 1 .. N : i = N + 1 - n
    OBVIOUS
  <2>4. PICK b \in Nat : b = s[i]
    BY <1>1, <2>3
  <2>5. p[n] = a * b /\ q[n] = q[n - 1] * t[i] /\ t[i] = IF i = d THEN x ELSE b
    BY <1>3, <1>4, <1>5, <2>1, <2>3, <2>4
  <2>6. i = d <=> n = at
    BY <1>1, <1>6, <2>3
  <2>7. CASE n < at
    <3>1. q[n] = a * b /\ n - 1 < at
      BY <2>2, <2>5, <2>6, <2>7
    <3>2. QED
      BY <2>5, <2>7, <3>1
  <2>8. CASE n = at
    <3>1. q[n] = a * x /\ b = 1 /\ n - 1 < at
      BY <2>2, <2>4, <2>5, <2>6, <2>8
    <3>2. p[n] = a
      BY <2>5, <3>1
    <3>3. QED
      BY <2>8, <3>1, <3>2
  <2>9. CASE n > at
    <3>1. q[n] = (a * x) * b
      <4>1. q[n - 1] = a * x /\ t[i] = b
        BY <1>6, <2>2, <2>5, <2>6, <2>9
      <4>2. QED
        BY <2>5, <4>1
    <3>2. (a * x) * b = (a * b) * x
      OBVIOUS
    <3>3. QED
      BY <2>5, <2>9, <3>1, <3>2
  <2>10. QED
    BY <1>6, <2>7, <2>8, <2>9
<1> HIDE DEF T
<1>9. T = 0 .. N
  <2>1. T \in SUBSET (0 .. N)
    BY DEF T
  <2>2. QED
    BY <1>7, <1>8, <2>1, IterationHolds
<1>10. q[N] = p[N] * x
  <2>1. N \in T
    BY <1>9
  <2>2. QED
    BY <1>6, <2>1 DEF T
<1>11. QED
  BY <1>2, <1>4, <1>5, <1>10

\* What the first n dimensions have been given: no chunk is empty, the
\* unlimited ones behind have one cell so far, and there is room for what may
\* still be given.
Given(N, lengths, size, n, acc) ==
    /\ acc \in [chunk: [1 .. N -> Nat \ {0}], avail: Nat]
    /\ \A d \in n + 1 .. N : lengths[d] = 0 => acc.chunk[d] = 1
    /\ Product(acc.chunk) * (IF acc.avail = 0 THEN 1 ELSE acc.avail) <= size

\* Chunk sizes are a sequence, and have a product.
LEMMA ChunkIs ==
    ASSUME NEW N \in Nat, NEW c \in [1 .. N -> Nat \ {0}]
    PROVE  c \in Seq(Nat) /\ Len(c) = N /\ Product(c) \in Nat
<1>1. \A n \in 1 .. N : c[n] \in Nat
  OBVIOUS
<1>2. c \in Seq(Nat) /\ Len(c) = N
  BY <1>1
<1>3. PICK p \in [0 .. Len(c) -> Nat] : Product(c) = p[Len(c)]
  BY <1>2, ProductIs
<1>4. QED
  BY <1>2, <1>3

AccType(N) == [chunk: [1 .. N -> Nat], avail: Nat]

\* One dimension more: what it is given is typed, and fits.
LEMMA AssignTyped ==
    ASSUME NEW N \in Nat, NEW acc \in AccType(N), NEW d \in 1 .. N,
           NEW lengths \in [1 .. N -> Nat], NEW limits \in [1 .. N -> Nat]
    PROVE  AssignUnlimited(acc, d, lengths, limits) \in AccType(N)
<1>1. PICK lim \in Nat : lim = limits[d]
  OBVIOUS
<1>2. PICK c \in [1 .. N -> Nat] : c = acc.chunk
  BY DEF AccType
<1>3. PICK a \in Nat : a = acc.avail
  BY DEF AccType
<1>4. lim > 0 => a \div lim \in Nat
  OBVIOUS
<1>5. [c EXCEPT ![d] = lim] \in [1 .. N -> Nat] /\ [c EXCEPT ![d] = a] \in [1 .. N -> Nat]
  OBVIOUS
<1>6. QED
  BY <1>1, <1>2, <1>3, <1>4, <1>5 DEF AssignUnlimited, AccType

\* As often as b goes into a, b times that is at most a.
LEMMA QuotientIs ==
    ASSUME NEW a \in Nat, NEW b \in Nat \ {0}
    PROVE  a \div b \in Nat /\ b * (a \div b) <= a
OBVIOUS

LEMMA AssignGives ==
    ASSUME NEW N \in Nat, NEW n \in 1 .. N, NEW size \in Nat,
           NEW lengths \in [1 .. N -> Nat], NEW limits \in [1 .. N -> Nat],
           NEW acc, Given(N, lengths, size, n - 1, acc)
    PROVE  Given(N, lengths, size, n, AssignUnlimited(acc, n, lengths, limits))
<1>1. PICK lim \in Nat : lim = limits[n]
  OBVIOUS
<1>2. PICK c \in [1 .. N -> Nat \ {0}] : c = acc.chunk
  BY DEF Given
<1>3. PICK a \in Nat : a = acc.avail
  BY DEF Given
<1>4. PICK b : b = AssignUnlimited(acc, n, lengths, limits)
  OBVIOUS
<1>5. /\ acc \in [chunk: [1 .. N -> Nat \ {0}], avail: Nat]
      /\ \A d \in n .. N : lengths[d] = 0 => c[d] = 1
      /\ Product(c) * (IF a = 0 THEN 1 ELSE a) <= size
  BY <1>2, <1>3 DEF Given
<1>6. c \in Seq(Nat) /\ Len(c) = N /\ Product(c) \in Nat
  BY ChunkIs
<1>7. PICK P \in Nat : P = Product(c)
  BY <1>6
<1>8. CASE a = 0 \/ lengths[n] # 0
  <2>1. b = acc
    BY <1>3, <1>4, <1>8 DEF AssignUnlimited
  <2>2. \A d \in n + 1 .. N : d \in n .. N
    OBVIOUS
  <2>3. QED
    BY <1>2, <1>3, <1>4, <1>5, <2>1, <2>2 DEF Given
<1>9. ASSUME a # 0, lengths[n] = 0, NEW x \in Nat \ {0}, NEW y \in Nat,
             b = [chunk |-> [acc.chunk EXCEPT ![n] = x], avail |-> y],
             x * (IF y = 0 THEN 1 ELSE y) <= a
      PROVE  Given(N, lengths, size, n, b)
  <2>1. PICK t : t = [c EXCEPT ![n] = x]
    OBVIOUS
  <2>2. t \in [1 .. N -> Nat \ {0}] /\ \A d \in n + 1 .. N : t[d] = c[d]
    BY <2>1
  <2>3. Product(t) = P * x
    <3>1. c[n] = 1 /\ n \in 1 .. Len(c)
      BY <1>5, <1>6, <1>9
    <3>2. QED
      BY <1>6, <1>7, <2>1, <3>1, ProductPut
  <2>4. PICK z \in Nat : z = IF y = 0 THEN 1 ELSE y
    OBVIOUS
  <2>5. (P * x) * z <= size
    <3>1. P * a <= size /\ x * z <= a
      BY <1>5, <1>7, <1>9, <2>4
    <3>2. PICK u \in Nat : u = x * z
      OBVIOUS
    <3>3. (P * x) * z = P * u
      BY <3>2
    <3>4. PICK v \in Nat : v = P * u
      OBVIOUS
    <3>5. PICK w \in Nat : w = P * a
      OBVIOUS
    <3>6. v <= w
      BY <3>1, <3>2, <3>4, <3>5
    <3>7. w <= size
      BY <3>1, <3>5
    <3>8. v <= size
      BY <3>6, <3>7
    <3>9. QED
      BY <3>3, <3>4, <3>8
  <2>6. b = [chunk |-> t, avail |-> y]
    BY <1>2, <1>9, <2>1
  <2>7. \A d \in n + 1 .. N : lengths[d] = 0 => t[d] = 1
    BY <1>5, <2>2
  <2>8. QED
    BY <2>2, <2>3, <2>4, <2>5, <2>6, <2>7 DEF Given
<1>10. CASE a # 0 /\ lengths[n] = 0 /\ lim > 0 /\ lim < a
  <2>1. b = [chunk |-> [acc.chunk EXCEPT ![n] = lim], avail |-> a \div lim]
    BY <1>1, <1>3, <1>4, <1>10 DEF AssignUnlimited
  <2>2. lim \in Nat \ {0} /\ lim * 1 <= a
    BY <1>10
  <2>3. PICK y \in Nat : y = a \div lim
    BY <2>2, QuotientIs
  <2>4. lim * y <= a
    BY <2>2, <2>3, QuotientIs
  <2>5. lim * (IF y = 0 THEN 1 ELSE y) <= a
    BY <2>2, <2>4
  <2>6. QED
    BY <1>4, <1>9, <1>10, <2>1, <2>2, <2>3, <2>5
<1>11. CASE a # 0 /\ lengths[n] = 0 /\ ~ (lim > 0 /\ lim < a)
  <2>1. b = [chunk |-> [acc.chunk EXCEPT ![n] = a], avail |-> 0]
    BY <1>1, <1>3, <1>4, <1>11 DEF AssignUnlimited
  <2>2. a \in Nat \ {0} /\ 0 \in Nat /\ a * (IF 0 = 0 THEN 1 ELSE 0) <= a
    BY <1>11
  <2>3. QED
    BY <1>4, <1>9, <1>11, <2>1, <2>2
<1>12. QED
  BY <1>4, <1>8, <1>10, <1>11

\* What the dimensions have been given, one after the other.
AccTo(lengths, limits, size, acc) ==
    acc = [n \in 0 .. Len(lengths) |->
              IF n = 0 THEN [chunk |-> ChunkStart(lengths), avail |-> Available(lengths, size)]
              ELSE AssignUnlimited(acc[n - 1], n, lengths, limits)]

\* If a cell of every length defined fits a chunk, so does what createVar makes
\* of them, whatever the unlimited dimensions are given.
LEMMA ChunksFit ==
    ASSUME NEW lengths \in Seq(Nat), NEW limits \in [1 .. Len(lengths) -> Nat],
           NEW size \in Nat, Product(ChunkStart(lengths)) <= size
    PROVE  /\ Chunks(lengths, limits, size) \in [1 .. Len(lengths) -> Nat \ {0}]
           /\ Product(Chunks(lengths, limits, size)) <= size
<1>1. PICK N \in Nat : N = Len(lengths)
  OBVIOUS
<1>2. lengths \in [1 .. N -> Nat] /\ limits \in [1 .. N -> Nat]
  BY <1>1
<1>3. PICK left \in Nat : left = Available(lengths, size)
  BY AvailableFits
<1>4. PICK s : s = ChunkStart(lengths)
  OBVIOUS
<1>5. PICK first : first = [chunk |-> s, avail |-> left]
  OBVIOUS
<1>6. s \in [1 .. N -> Nat \ {0}]
  BY <1>1, <1>4, AvailableFits
<1>7. Given(N, lengths, size, 0, first)
  <2>1. PICK cells \in Nat : cells = Product(s)
    BY <1>4, AvailableFits
  <2>2. left * cells <= size /\ cells <= size
    BY <1>3, <1>4, <2>1, AvailableFits
  <2>3. cells * (IF left = 0 THEN 1 ELSE left) <= size
    BY <2>2
  <2>4. \A d \in 1 .. N : lengths[d] = 0 => s[d] = 1
    BY <1>1, <1>4 DEF ChunkStart
  <2>5. first \in [chunk: [1 .. N -> Nat \ {0}], avail: Nat] /\ first.chunk = s /\ first.avail = left
    BY <1>5, <1>6
  <2>6. QED
    BY <2>1, <2>3, <2>4, <2>5 DEF Given
<1>8. \E acc : AccTo(lengths, limits, size, acc)
  <2>1. PICK step : step = [a \in (1 .. N) \X AccType(N) |-> AssignUnlimited(a[2], a[1], lengths, limits)]
    OBVIOUS
  <2>2. step \in StepFunctions(N, AccType(N))
    <3>1. ASSUME NEW a \in (1 .. N) \X AccType(N)
          PROVE  AssignUnlimited(a[2], a[1], lengths, limits) \in AccType(N)
      <4>1. a[1] \in 1 .. N /\ a[2] \in AccType(N)
        OBVIOUS
      <4>2. QED
        BY <1>2, <4>1, AssignTyped
    <3>2. QED
      BY <2>1, <3>1 DEF StepFunctions
  <2>3. first \in AccType(N)
    BY <1>5, <1>6 DEF AccType
  <2>4. PICK g : Iterates(N, AccType(N), first, step, g)
    BY <2>2, <2>3, IterationExists
  <2>5. ASSUME NEW n \in 1 .. N PROVE g[n] = AssignUnlimited(g[n - 1], n, lengths, limits)
    <3>1. n - 1 \in 0 .. N
      OBVIOUS
    <3>2. <<n, g[n - 1]>> \in (1 .. N) \X AccType(N)
      BY <2>4, <3>1 DEF Iterates
    <3>3. QED
      BY <2>1, <2>4, <3>2 DEF Iterates
  <2>6. g = [n \in 0 .. N |-> IF n = 0 THEN first ELSE AssignUnlimited(g[n - 1], n, lengths, limits)]
    <3>1. \A n \in 0 .. N : n # 0 => n \in 1 .. N
      OBVIOUS
    <3>2. \A n \in 0 .. N :
             g[n] = IF n = 0 THEN first ELSE AssignUnlimited(g[n - 1], n, lengths, limits)
      BY <2>4, <2>5, <3>1 DEF Iterates
    <3>3. QED
      BY <2>4, <3>2 DEF Iterates
  <2>7. QED
    BY <1>1, <1>3, <1>4, <1>5, <2>6 DEF AccTo
<1>9. PICK acc : /\ AccTo(lengths, limits, size, acc)
                 /\ Chunks(lengths, limits, size) = acc[Len(lengths)].chunk
  <2> DEFINE acc == CHOOSE acc : AccTo(lengths, limits, size, acc)
  <2>1. AccTo(lengths, limits, size, acc)
    BY <1>8
  <2>2. Chunks(lengths, limits, size) = acc[Len(lengths)].chunk
    BY DEF Chunks, AccTo
  <2>3. QED
    BY <2>1, <2>2
<1>10. /\ acc[0] = first
       /\ \A n \in 1 .. N : acc[n] = AssignUnlimited(acc[n - 1], n, lengths, limits)
  <2>1. acc = [n \in 0 .. N |-> IF n = 0 THEN first ELSE AssignUnlimited(acc[n - 1], n, lengths, limits)]
    BY <1>1, <1>3, <1>4, <1>5, <1>9 DEF AccTo
  <2>2. QED
    BY <2>1
<1> DEFINE T == {n \in 0 .. N : Given(N, lengths, size, n, acc[n])}
<1>11. 0 \in T
  BY <1>7, <1>10
<1>12. ASSUME NEW n \in 1 .. N, n - 1 \in T PROVE n \in T
  <2>1. PICK b : b = acc[n - 1]
    OBVIOUS
  <2>2. Given(N, lengths, size, n - 1, b)
    BY <1>12, <2>1
  <2>3. Given(N, lengths, size, n, AssignUnlimited(b, n, lengths, limits))
    BY <1>2, <2>2, AssignGives
  <2>4. QED
    BY <1>10, <2>1, <2>3
<1> HIDE DEF T
<1>13. T = 0 .. N
  <2>1. T \in SUBSET (0 .. N)
    BY DEF T
  <2>2. QED
    BY <1>11, <1>12, <2>1, IterationHolds
<1>14. PICK last : last = acc[N]
  OBVIOUS
<1>15. Given(N, lengths, size, N, last)
  <2>1. N \in T
    BY <1>13
  <2>2. QED
    BY <1>14, <2>1 DEF T
<1>16. PICK c \in [1 .. N -> Nat \ {0}] : c = last.chunk
  BY <1>15 DEF Given
<1>17. Product(c) <= size
  <2>1. PICK a \in Nat : a = last.avail
    BY <1>15 DEF Given
  <2>2. PICK p \in Nat : p = Product(c)
    BY ChunkIs
  <2>3. p * (IF a = 0 THEN 1 ELSE a) <= size
    BY <1>15, <1>16, <2>1, <2>2 DEF Given
  <2>4. PICK z \in Nat \ {0} : z = IF a = 0 THEN 1 ELSE a
    OBVIOUS
  <2>5. p <= p * z
    BY ONLY p \in Nat, z \in Nat \ {0}
  <2>6. p * z <= size /\ p * z \in Nat
    BY <2>3, <2>4
  <2>7. QED
    BY <2>2, <2>5, <2>6
<1>18. QED
  BY <1>1, <1>9, <1>14, <1>16, <1>17

\* The product of at most three lengths, as the dimensions of a variable have.
LEMMA ProductOfThree ==
    ASSUME NEW s \in Seq(Nat), Len(s) \in 1 .. 3
    PROVE  /\ Len(s) = 1 => Product(s) = s[1]
           /\ Len(s) = 2 => Product(s) = s[2] * s[1]
           /\ Len(s) = 3 => Product(s) = (s[3] * s[2]) * s[1]
<1>1. PICK p \in [0 .. Len(s) -> Nat] :
          /\ p[0] = 1 /\ \A n \in 1 .. Len(s) : p[n] = p[n - 1] * s[Len(s) + 1 - n]
          /\ Product(s) = p[Len(s)]
  BY ProductIs
<1>2. \A n \in 1 .. Len(s) : s[n] \in Nat
  OBVIOUS
<1>3. p[1] = s[Len(s)]
  <2>1. p[1] = p[0] * s[Len(s)]
    BY <1>1
  <2>2. QED
    BY <1>1, <1>2, <2>1
<1>4. Len(s) >= 2 => p[2] = p[1] * s[Len(s) - 1]
  BY <1>1
<1>5. Len(s) = 3 => p[3] = p[2] * s[1]
  BY <1>1
<1>6. CASE Len(s) = 1
  BY <1>1, <1>3, <1>6
<1>7. CASE Len(s) = 2
  BY <1>1, <1>3, <1>4, <1>7
<1>8. CASE Len(s) = 3
  BY <1>1, <1>3, <1>4, <1>5, <1>8
<1>9. QED
  BY <1>6, <1>7, <1>8

\* The dimensions of a shape, and the limits, as createVar finds them.
LEMMA DimensionsAre ==
    ASSUME maxCells \in 0 .. 255
    PROVE  /\ Dimensions["h"] = 0 /\ Dimensions["i"] = 0 /\ Dimensions["j"] = maxCells
           /\ Dimensions["k4"] = 4 /\ Dimensions["k8"] = 8
           /\ \A d \in {"h", "i", "j", "k4", "k8"} : Dimensions[d] \in Nat /\ Limit(d) \in Nat
<1>1. /\ Dimensions["h"] = 0 /\ Dimensions["i"] = 0 /\ Dimensions["j"] = maxCells
      /\ Dimensions["k4"] = 4 /\ Dimensions["k8"] = 8
  BY DEF Dimensions
<1>2. QED
  BY <1>1 DEF Limit

\* The chunks of a variable of one of the five shapes fit.
LEMMA ShapeFits ==
    ASSUME maxCells \in 0 .. 255,
           NEW dims \in Seq({"h", "i", "j", "k4", "k8"}), Len(dims) \in 1 .. 3,
           \/ Len(dims) = 1 /\ Dimensions[dims[1]] = 0
           \/ Len(dims) = 2 /\ Dimensions[dims[1]] = 0 /\ Dimensions[dims[2]] \in {4, 8}
           \/ Len(dims) = 3 /\ Dimensions[dims[1]] = 0 /\ Dimensions[dims[2]] = maxCells /\ Dimensions[dims[3]] = 4
    PROVE  /\ ChunksOf(dims) \in [DOMAIN dims -> Nat \ {0}]
           /\ Product(ChunksOf(dims)) <= ChunkSize
<1>1. PICK N \in 1 .. 3 : N = Len(dims)
  OBVIOUS
<1>2. DOMAIN dims = 1 .. N
  BY <1>1
<1>3. PICK lengths : lengths = [d \in 1 .. N |-> Dimensions[dims[d]]]
  OBVIOUS
<1>4. PICK limits : limits = [d \in 1 .. N |-> Limit(dims[d])]
  OBVIOUS
<1>5. \A d \in 1 .. N : Dimensions[dims[d]] \in Nat /\ Limit(dims[d]) \in Nat
  <2>1. \A d \in 1 .. N : dims[d] \in {"h", "i", "j", "k4", "k8"}
    BY <1>1
  <2>2. QED
    BY <2>1, DimensionsAre
<1>6. lengths \in Seq(Nat) /\ Len(lengths) = N /\ limits \in [1 .. N -> Nat]
  BY <1>3, <1>4, <1>5
<1>7. ChunksOf(dims) = Chunks(lengths, limits, ChunkSize)
  BY <1>2, <1>3, <1>4 DEF ChunksOf
<1>8. PICK s : s = ChunkStart(lengths)
  OBVIOUS
<1>9. s \in Seq(Nat) /\ Len(s) = N /\ \A d \in 1 .. N : s[d] = IF lengths[d] # 0 THEN lengths[d] ELSE 1
  <2>1. s \in [1 .. N -> Nat \ {0}]
    BY <1>6, <1>8, AvailableFits, SizesAssumption
  <2>2. \A d \in 1 .. N : s[d] = IF lengths[d] # 0 THEN lengths[d] ELSE 1
    BY <1>6, <1>8 DEF ChunkStart
  <2>3. QED
    BY <2>1, <2>2
<1>10. Product(s) <= 4 * 255
  <2>1. CASE N = 1
    <3>1. s[1] = 1
      BY <1>1, <1>3, <1>9, <2>1
    <3>2. QED
      BY <1>9, <2>1, <3>1, ProductOfThree
  <2>2. CASE N = 2
    <3>1. s[1] = 1 /\ s[2] \in {4, 8}
      BY <1>1, <1>3, <1>9, <2>2
    <3>2. QED
      BY <1>9, <2>2, <3>1, ProductOfThree
  <2>3. CASE N = 3
    <3>1. lengths[1] = 0 /\ lengths[2] = maxCells /\ lengths[3] = 4
      BY <1>1, <1>3, <2>3
    <3>2. s[1] = 1 /\ s[3] = 4 /\ s[2] = IF maxCells # 0 THEN maxCells ELSE 1
      BY <1>9, <2>3, <3>1
    <3>3. PICK x \in 1 .. 255 : x = s[2]
      BY <3>2
    <3>4. Product(s) = (s[3] * s[2]) * s[1]
      BY <1>9, <2>3, ProductOfThree
    <3>5. Product(s) = (4 * x) * 1
      BY <3>2, <3>3, <3>4
    <3>6. QED
      BY <3>5
  <2>4. QED
    BY <2>1, <2>2, <2>3
<1>11. Product(s) <= ChunkSize /\ ChunkSize \in Nat
  <2>1. PICK p \in [0 .. Len(s) -> Nat] : Product(s) = p[Len(s)]
    BY <1>9, ProductIs
  <2>2. Product(s) \in Nat
    BY <1>9, <2>1
  <2>3. QED
    BY <1>10, <2>2, SizesAssumption
<1>12. QED
  <2>1. PICK size \in Nat : size = ChunkSize
    BY <1>11
  <2>2. Product(ChunkStart(lengths)) <= size
    BY <1>8, <1>11, <2>1
  <2>3. limits \in [1 .. Len(lengths) -> Nat]
    BY <1>6
  <2>4. /\ Chunks(lengths, limits, size) \in [1 .. Len(lengths) -> Nat \ {0}]
        /\ Product(Chunks(lengths, limits, size)) <= size
    BY <1>6, <2>2, <2>3, ChunksFit
  <2>5. QED
    BY <1>2, <1>6, <1>7, <2>1, <2>4

-----------------------------------------------------------------------------
(* Theorems *)

\* What the invariant says of a row, in the terms of the properties.
LEMMA RowIs ==
    ASSUME IInv, NEW r \in 1 .. index
    PROVE  /\ Len(Wanted) = Cardinality(Deserving) /\ Wanted[r] \in Deserving
           /\ EnsembleAt(r) = Own(Wanted[r])
           /\ DOMAIN EnsembleAt(r).types = 1 .. Width(Wanted[r])
           /\ \A s \in Sections : Shows(Row(r)[s], Wanted[r], s)
           /\ \A s : s \in ToSet(EnsembleAt(r).types) <=> Has(Wanted[r], s, Width(Wanted[r]))
<1>1. input \in Inputs /\ r \in Nat
  BY DEF IInv, Control
<1>2. PICK p \in Deserving :
        Cardinality(Earlier(p)) = r - 1 /\ \A s \in Sections : Shows(Row(r)[s], p, s)
  BY DEF IInv, Rows
<1>3. Wanted[r] = p /\ Len(Wanted) = Cardinality(Deserving)
  BY <1>1, <1>2, WantedIs
<1>4. EnsembleAt(r) = Own(p)
  BY <1>3 DEF EnsembleAt, Own
<1>5. DOMAIN Own(p).types = 1 .. Width(p)
  <2>1. p[1] \in 1 .. Len(input) /\ p[2] \in 1 .. Len(input[p[1]].ensembles)
    BY <1>1, DeservingAre
  <2>2. Own(p) \in EnsembleShape
    BY <1>1, <2>1, InputShape DEF Own
  <2>3. QED
    BY <2>2 DEF EnsembleShape, Width
<1>6. \A s : s \in ToSet(Own(p).types) <=> Has(p, s, Width(p))
  BY <1>5 DEF Has, ToSet
<1>7. QED
  BY <1>2, <1>3, <1>4, <1>5, <1>6

\* The types of the run's state, for every command line: what is in memory and
\* in the output, also after a run that fails (PD0.H:26-135, pd02netCDF.C:62-100).
THEOREM TypesHold == Spec => []TypeOK
<1>1. IInv => TypeOK
  BY DEF IInv, Control, Memory, Scanned, TypeOK
<1>2. QED
  BY <1>1, Invariance, PTL

\* Whatever files are given, the rows are the ensembles with a section to show,
\* in order and without a gap, each with sections of its own only; and a run
\* that ends well has them all (PD0.C:111-122, 183-230).
THEOREM RowsAreEnsembles == Spec => []RowsAreTheirEnsembles
<1>1. ASSUME IInv PROVE RowsAreTheirEnsembles
  <2>1. index <= Len(Wanted) /\ (pc = "done" => index = Len(Wanted))
    <3>1. Cardinality(Deserving) \in Nat
      BY <1>1, EarlierFinite DEF IInv, Control
    <3>2. Len(Wanted) = Cardinality(Deserving)
      BY <3>1 DEF Wanted
    <3>3. QED
      BY <1>1, <3>2 DEF IInv, Progress
  <2>2. ASSUME NEW r \in 1 .. index, NEW s \in Sections
        PROVE  IF s \in ToSet(EnsembleAt(r).types)
               THEN IF Row(r)[s] = Fill THEN s \in Cellwise ELSE Row(r)[s].of = Wanted[r]
               ELSE Row(r)[s] = Fill
    <3>1. Shows(Row(r)[s], Wanted[r], s)
      BY <1>1, <2>2, RowIs
    <3>2. s \in ToSet(EnsembleAt(r).types) <=> Has(Wanted[r], s, Width(Wanted[r]))
      BY <1>1, <2>2, RowIs
    <3>3. QED
      BY <3>1, <3>2, FillAssumption DEF Shows, Holds
  <2>3. QED
    BY <2>1, <2>2 DEF RowsAreTheirEnsembles
<1>2. QED
  BY <1>1, Invariance, PTL

\* Whatever came before it, a section with cells behind the fixed leader of its
\* ensemble is written with the cells of that leader (PD0.C:599-610).
THEOREM CellsOfTheLeader == Spec => []CellsAreTheLeaders
<1>1. ASSUME IInv PROVE CellsAreTheLeaders
  <2> SUFFICES ASSUME NEW r \in 1 .. index, NEW s \in Cellwise, LeaderBefore(EnsembleAt(r), s)
               PROVE  IF EnsembleAt(r).cells = 0 THEN Row(r)[s] = Fill
                      ELSE Row(r)[s].n = EnsembleAt(r).cells
    BY DEF CellsAreTheLeaders
  <2>1. s \in Sections
    BY SectionsAre DEF Cellwise
  <2>2. PICK p : p = Wanted[r]
    OBVIOUS
  <2>3. /\ EnsembleAt(r) = Own(p) /\ DOMAIN Own(p).types = 1 .. Width(p)
        /\ Shows(Row(r)[s], p, s) /\ (s \in ToSet(Own(p).types) <=> Has(p, s, Width(p)))
    BY <1>1, <2>1, <2>2, RowIs
  <2>4. PICK a : a = Position(Own(p), "fixed")
    OBVIOUS
  <2>5. PICK b : b = Position(Own(p), s)
    OBVIOUS
  <2>6. {"fixed", s} \subseteq ToSet(Own(p).types) /\ a < b
    BY <2>3, <2>4, <2>5 DEF LeaderBefore
  <2>7. a \in 1 .. Width(p) /\ Own(p).types[a] = "fixed"
    BY <2>3, <2>4, <2>6 DEF Position, ToSet
  <2>8. b \in 1 .. Width(p) /\ Own(p).types[b] = s
    BY <2>3, <2>5, <2>6 DEF Position, ToSet
  <2>9. LeaderRead(p, s, Width(p))
    <3>1. a \in 1 .. b - 1
      BY <2>6, <2>7, <2>8
    <3>2. QED
      BY <2>7, <2>8, <3>1 DEF LeaderRead
  <2>10. QED
    BY <2>3, <2>6, <2>9 DEF Shows, Holds
<1>2. QED
  BY <1>1, Invariance, PTL

\* The scan and the decoder agree for all files: no section in memory is wider
\* than the dimension of the output (PD0.C:753-807, pd02netCDF.C:63-79).
THEOREM ScanFits == Spec => []CellsFit
<1>1. ASSUME IInv PROVE CellsFit
  <2> SUFFICES ASSUME pc = "dump", NEW s \in Cellwise PROVE ~(value[s].n > schema.dims["j"])
    BY DEF CellsFit, TooWide
  <2>1. value[s].n <= maxCells /\ schema.dims["j"] = maxCells /\ maxCells \in 0 .. 255
    BY <1>1 DEF IInv, Scanned
  <2>2. value[s].n \in Nat
    <3>1. s \in Sections
      BY SectionsAre DEF Cellwise
    <3>2. value[s] \in ValueShape
      BY <1>1, <3>1 DEF IInv, Memory
    <3>3. QED
      BY <3>2 DEF ValueShape
  <2>3. QED
    BY <2>1, <2>2
<1>2. QED
  BY <1>1, Invariance, PTL

\* A field of 24 bits is the ensemble's own, whatever was in the union before
\* and whatever the width of the low part (PD0.C:335-379).
THEOREM MeldedAreOwn == Spec => []MeldedFieldsAreOwn
<1>1. ASSUME IInv PROVE MeldedFieldsAreOwn
  <2> SUFFICES ASSUME NEW r \in 1 .. index, NEW s \in Melded, Row(r)[s] # Fill
               PROVE  Row(r)[s].n = Own(Row(r)[s].of).msb * Low + Own(Row(r)[s].of).low
    BY DEF MeldedFieldsAreOwn, Own
  <2>1. s \in Sections
    BY SectionsAre DEF Melded
  <2>2. Shows(Row(r)[s], Wanted[r], s)
    BY <1>1, <2>1, RowIs
  <2>3. Holds(Row(r)[s], Wanted[r], s, Width(Wanted[r]))
    BY <2>2 DEF Shows
  <2>4. QED
    BY <2>3 DEF Holds
<1>2. QED
  BY <1>1, Invariance, PTL

\* The header rows tile the rows of the files finished, each with the rows of
\* its file (pd02netCDF.C:84-100).
THEOREM HeadersTile == Spec => []HeaderRowsTile
<1>1. ASSUME IInv PROVE HeaderRowsTile
  <2>1. Len(Wanted) = Cardinality(Deserving)
    <3>1. Cardinality(Deserving) \in Nat
      BY <1>1, EarlierFinite DEF IInv, Control
    <3>2. QED
      BY <3>1 DEF Wanted
  <2>2. QED
    BY <1>1, <2>1 DEF IInv, Tiles, Tile, NextStart, HeaderRowsTile
<1>2. QED
  BY <1>1, Invariance, PTL

\* Whatever number of cells the scan found, the chunk of a variable is not
\* empty, and at most ChunkSize cells (MyNetCDF.C:215-280).
THEOREM ChunksFitTheSize == Spec => []ChunksAreBounded
<1>1. Init => ChunksAreBounded
  BY DEF Init, ChunksAreBounded
<1>2. IInv /\ ChunksAreBounded /\ [Next]_vars => ChunksAreBounded'
  <2> SUFFICES ASSUME IInv, ChunksAreBounded, [Next]_vars PROVE ChunksAreBounded'
    OBVIOUS
  <2>1. CASE UNCHANGED chunks
    BY <2>1 DEF ChunksAreBounded
  <2>2. CASE SetUp
    <3>1. chunks' = [v \in DOMAIN Variables |-> ChunksOf(Variables[v])]
      BY <2>2 DEF SetUp
    <3>2. ASSUME NEW v \in DOMAIN Variables
          PROVE  /\ ChunksOf(Variables[v]) \in [DOMAIN Variables[v] -> Nat \ {0}]
                 /\ Product(ChunksOf(Variables[v])) <= ChunkSize
      <4>1. maxCells \in 0 .. 255
        BY DEF IInv, Scanned
      <4>2. \/ Variables[v] = <<"h">> \/ Variables[v] = <<"i">>
            \/ Variables[v] = <<"i", "k8">> \/ Variables[v] = <<"i", "k4">>
            \/ Variables[v] = <<"i", "j", "k4">>
        BY DEF Variables
      <4>3. PICK dims : dims = Variables[v]
        OBVIOUS
      <4>4. /\ dims \in Seq({"h", "i", "j", "k4", "k8"}) /\ Len(dims) \in 1 .. 3
            /\ \/ Len(dims) = 1 /\ Dimensions[dims[1]] = 0
               \/ Len(dims) = 2 /\ Dimensions[dims[1]] = 0 /\ Dimensions[dims[2]] \in {4, 8}
               \/ /\ Len(dims) = 3 /\ Dimensions[dims[1]] = 0
                  /\ Dimensions[dims[2]] = maxCells /\ Dimensions[dims[3]] = 4
        <5>1. CASE dims = <<"h">> \/ dims = <<"i">>
          <6>1. Len(dims) = 1 /\ dims[1] \in {"h", "i"}
            BY <5>1
          <6>2. CASE dims = <<"h">>
            <7>1. dims \in Seq({"h", "i", "j", "k4", "k8"})
              BY <6>2
            <7>2. QED
              BY <4>1, <6>1, <7>1, DimensionsAre
          <6>3. CASE dims = <<"i">>
            <7>1. dims \in Seq({"h", "i", "j", "k4", "k8"})
              BY <6>3
            <7>2. QED
              BY <4>1, <6>1, <7>1, DimensionsAre
          <6>4. QED
            BY <5>1, <6>2, <6>3
        <5>2. CASE dims = <<"i", "k8">> \/ dims = <<"i", "k4">>
          <6>1. Len(dims) = 2 /\ dims[1] = "i" /\ dims[2] \in {"k8", "k4"}
            BY <5>2
          <6>2. dims \in Seq({"h", "i", "j", "k4", "k8"})
            <7>1. <<"i", "k8">> \in Seq({"h", "i", "j", "k4", "k8"})
              OBVIOUS
            <7>2. <<"i", "k4">> \in Seq({"h", "i", "j", "k4", "k8"})
              OBVIOUS
            <7>3. QED
              BY <5>2, <7>1, <7>2
          <6>3. QED
            BY <4>1, <6>1, <6>2, DimensionsAre
        <5>3. CASE dims = <<"i", "j", "k4">>
          <6>1. Len(dims) = 3 /\ dims[1] = "i" /\ dims[2] = "j" /\ dims[3] = "k4"
            BY <5>3
          <6>2. dims \in Seq({"h", "i", "j", "k4", "k8"})
            BY <5>3
          <6>3. QED
            BY <4>1, <6>1, <6>2, DimensionsAre
        <5>4. QED
          BY <4>2, <4>3, <5>1, <5>2, <5>3
      <4>5. QED
        BY <4>1, <4>3, <4>4, ShapeFits
    <3>3. ASSUME NEW v \in DOMAIN chunks'
          PROVE  /\ \A d \in DOMAIN chunks'[v] : chunks'[v][d] >= 1
                 /\ Product(chunks'[v]) <= ChunkSize
      <4>1. v \in DOMAIN Variables /\ chunks'[v] = ChunksOf(Variables[v])
        BY <3>1
      <4>2. PICK c : c = chunks'[v]
        OBVIOUS
      <4>3. PICK D : c \in [D -> Nat \ {0}]
        BY <3>2, <4>1, <4>2
      <4>4. \A d \in DOMAIN c : c[d] >= 1
        BY <4>3
      <4>5. QED
        BY <3>2, <4>1, <4>2, <4>4
    <3>4. QED
      BY <3>3 DEF ChunksAreBounded
  <2>3. QED
    BY <2>1, <2>2 DEF Next, vars, scan, ScanFile, OpenFile, BeginEnsemble, LoadSection,
       SectionsLoaded, EndOfEnsembles, Throws, DumpSection, DumpFails, EnsembleDumped,
       CloseFile, Finish, Stay
<1>3. QED
  BY <1>1, <1>2, Invariance, PTL DEF Spec
=============================================================================
