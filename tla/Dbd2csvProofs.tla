---------------------------- MODULE Dbd2csvProofs ----------------------------
(* Proofs about Dbd2csv: its type invariant, the order of the files, that a  *)
(* file as a glider writes it is read, and that the rows written are those   *)
(* of the files.  They hold for any files, any command lines and any cache   *)
(* whose lists are those their CRCs tell (ListsAssumption).                  *)
EXTENDS Dbd2csv, SharedFacts, FiniteSetTheorems, TLAPS

-----------------------------------------------------------------------------
(* The header *)

HeaderTo(s, g) ==
    g = [k \in 0 .. Len(s) |-> IF k = 0 THEN NoLines ELSE HeaderLine(g[k - 1], s[k])]

\* The recursive function of Header has a solution on its whole domain.
LEMMA HeaderExists ==
    ASSUME NEW s, Len(s) \in Nat
    PROVE  \E g : HeaderTo(s, g)
<1> DEFINE Upto(n) ==
              \E g : g = [j \in 0 .. n |-> IF j = 0 THEN NoLines ELSE HeaderLine(g[j - 1], s[j])]
           S == {n \in Nat : Upto(n)}
<1>1. 0 \in S
  <2> DEFINE g == [j \in 0 .. 0 |-> NoLines]
  <2>1. g = [j \in 0 .. 0 |-> IF j = 0 THEN NoLines ELSE HeaderLine(g[j - 1], s[j])]
    OBVIOUS
  <2>2. Upto(0)
    <3> HIDE DEF g
    <3>1. QED
      BY <2>1
  <2>3. QED
    BY <2>2
<1>2. ASSUME NEW n \in S PROVE n + 1 \in S
  <2>1. PICK g : g = [j \in 0 .. n |-> IF j = 0 THEN NoLines ELSE HeaderLine(g[j - 1], s[j])]
    OBVIOUS
  <2>2. n \in Nat
    OBVIOUS
  <2> DEFINE h == [j \in 0 .. n + 1 |-> IF j <= n THEN g[j] ELSE HeaderLine(g[j - 1], s[j])]
             t == [j \in 0 .. n + 1 |-> IF j = 0 THEN NoLines ELSE HeaderLine(h[j - 1], s[j])]
  <2>3. ASSUME NEW j \in 0 .. n + 1 PROVE h[j] = t[j]
    <3>1. j # 0 => h[j - 1] = g[j - 1]
      BY <2>2
    <3>2. CASE j <= n
      <4>1. h[j] = g[j] /\ j \in 0 .. n
        BY <2>2, <3>2
      <4>2. g[j] = IF j = 0 THEN NoLines ELSE HeaderLine(g[j - 1], s[j])
        BY <2>1, <4>1
      <4>3. QED
        BY <3>1, <4>1, <4>2
    <3>3. CASE j > n
      BY <2>2, <3>1, <3>3
    <3>4. QED
      BY <2>2, <3>2, <3>3
  <2>4. h = t
    BY <2>3
  <2>5. \E e : e = [j \in 0 .. n + 1 |-> IF j = 0 THEN NoLines ELSE HeaderLine(e[j - 1], s[j])]
    <3> HIDE DEF h
    <3>1. h = [j \in 0 .. n + 1 |-> IF j = 0 THEN NoLines ELSE HeaderLine(h[j - 1], s[j])]
      BY <2>4
    <3>2. QED
      BY <3>1
  <2>6. Upto(n + 1)
    BY ONLY <2>5
  <2>7. n + 1 \in Nat
    BY <2>2
  <2>8. QED
    BY ONLY <2>6, <2>7
<1> HIDE DEF S
<1>3. S = Nat
  <2>1. S \in SUBSET Nat
    BY DEF S
  <2>2. QED
    BY <1>1, <1>2, <2>1, InductionOverNat
<1>4. Len(s) \in S
  BY <1>3
<1>5. QED
  BY <1>4 DEF S, HeaderTo

LEMMA HeaderEquation ==
    ASSUME NEW s, Len(s) \in Nat
    PROVE  \E g : HeaderTo(s, g) /\ Header(s) = g[Len(s)]
<1> DEFINE g == CHOOSE g : HeaderTo(s, g)
<1>1. HeaderTo(s, g)
  BY HeaderExists
<1>2. Header(s) = g[Len(s)]
  BY DEF Header, HeaderTo
<1>3. QED
  BY <1>1, <1>2

\* What the lines read so far give: a record is the value of a line of its key.
IsHeader(s, h) ==
    /\ h = [records |-> h.records, cnt |-> h.cnt, nLines |-> h.nLines, over |-> h.over]
    /\ h.cnt \in Nat /\ h.nLines \in Nat /\ h.over \in BOOLEAN
    /\ \A key \in DOMAIN h.records :
          \E l \in 1 .. Len(s) : s[l].key = key /\ s[l].value = h.records[key]

LEMMA LineOne ==
    ASSUME NEW s, Len(s) \in Nat, NEW k \in 1 .. Len(s), NEW h, IsHeader(s, h)
    PROVE  IsHeader(s, HeaderLine(h, s[k]))
<1> DEFINE line == s[k]
<1>1. CASE h.over \/ h.cnt >= h.nLines
  BY <1>1 DEF HeaderLine
<1>2. CASE ~(h.over \/ h.cnt >= h.nLines) /\ line.key = "body"
  <2>1. HeaderLine(h, line) = [records |-> << >>, cnt |-> h.cnt + 1, nLines |-> h.nLines,
                               over |-> TRUE]
    BY <1>2 DEF HeaderLine, IsHeader
  <2>2. QED
    BY <2>1 DEF IsHeader
<1>3. CASE ~(h.over \/ h.cnt >= h.nLines) /\ line.key # "body"
  <2> DEFINE new == Inserted(h.records, line.key, line.value)
             tags == IF line.key = "num_ascii_tags" THEN TagLines(line.value) ELSE h.nLines
  <2>1. HeaderLine(h, line) = [records |-> new, cnt |-> h.cnt + 1, nLines |-> tags,
                               over |-> h.over]
    BY <1>3 DEF HeaderLine, IsHeader
  <2>2. tags \in Nat
    <3>1. MaxTagLines \in Nat
      BY DEF MaxTagLines
    <3>2. QED
      BY <3>1 DEF TagLines, IsHeader
  <2>3. ASSUME NEW key \in DOMAIN new
        PROVE  \E l \in 1 .. Len(s) : s[l].key = key /\ s[l].value = new[key]
    BY DEF Inserted, IsHeader
  <2> HIDE DEF new, tags
  <2>4. QED
    BY <2>1, <2>2, <2>3 DEF IsHeader
<1>4. QED
  BY <1>1, <1>2, <1>3

LEMMA HeaderIs ==
    ASSUME NEW s, Len(s) \in Nat
    PROVE  IsHeader(s, Header(s))
<1>1. PICK g : HeaderTo(s, g) /\ Header(s) = g[Len(s)]
  BY HeaderEquation
<1> DEFINE S == {n \in Nat : n <= Len(s) => IsHeader(s, g[n])}
<1>2. 0 \in S
  <2>1. g[0] = NoLines
    BY <1>1 DEF HeaderTo
  <2>2. IsHeader(s, NoLines)
    BY DEF IsHeader, NoLines
  <2>3. QED
    BY <2>1, <2>2
<1>3. ASSUME NEW n \in S PROVE n + 1 \in S
  <2>1. SUFFICES ASSUME n + 1 <= Len(s) PROVE IsHeader(s, g[n + 1])
    OBVIOUS
  <2>2. n \in Nat /\ n + 1 \in 1 .. Len(s) /\ IsHeader(s, g[n])
    BY <2>1
  <2>3. g[n + 1] = HeaderLine(g[n], s[n + 1])
    BY <1>1, <2>2 DEF HeaderTo
  <2>4. QED
    BY <2>2, <2>3, LineOne
<1> HIDE DEF S
<1>4. S = Nat
  <2>1. S \in SUBSET Nat
    BY DEF S
  <2>2. QED
    BY <1>2, <1>3, <2>1, InductionOverNat
<1>5. Len(s) \in S
  BY <1>4
<1>6. QED
  BY <1>1, <1>5 DEF S

\* A header of n lines that says so.
Announces(s, n) ==
    /\ n \in Nat \ {0} /\ n <= Len(s)
    /\ n = 14 \/ n <= MaxTagLines
    /\ \A l \in 1 .. n : s[l].key # "body"
    /\ \A l \in 1 .. n : s[l].key = "num_ascii_tags" => s[l].value = n
    /\ n = 14 \/ \E l \in 1 .. n : l <= 14 /\ s[l].key = "num_ascii_tags"

\* After its line k.
After(s, n, k, h) ==
    /\ h.cnt = k /\ ~h.over
    /\ \A l \in 1 .. k : s[l].key \in DOMAIN h.records
    /\ h.nLines = 14 \/ h.nLines = n
    /\ (\E l \in 1 .. k : s[l].key = "num_ascii_tags") => h.nLines = n
    
LEMMA LineAfter ==
    ASSUME NEW s, Len(s) \in Nat, NEW n, Announces(s, n), NEW k \in Nat, k < n,
           NEW h, IsHeader(s, h), After(s, n, k, h)
    PROVE  After(s, n, k + 1, HeaderLine(h, s[k + 1]))
<1> DEFINE line == s[k + 1]
           new == Inserted(h.records, line.key, line.value)
           tags == IF line.key = "num_ascii_tags" THEN n ELSE h.nLines
<1>1. k + 1 \in 1 .. n /\ n \in Nat
  BY DEF Announces
<1>2. k < h.nLines
  <2>1. CASE h.nLines = n
    BY <2>1
  <2>2. CASE h.nLines = 14 /\ n # 14
    <3>1. PICK l \in 1 .. n : l <= 14 /\ s[l].key = "num_ascii_tags"
      BY <2>2 DEF Announces
    <3>2. ~(l <= k)
      BY <2>2, <3>1 DEF After
    <3>3. QED
      BY <1>1, <2>2, <3>1, <3>2
  <2>3. QED
    BY <2>1, <2>2 DEF After
<1>3. ~h.over /\ ~(h.cnt >= h.nLines) /\ line.key # "body"
  <2>1. h.cnt = k /\ ~h.over /\ h.nLines \in Nat
    BY DEF After, IsHeader
  <2>2. line.key # "body"
    BY <1>1 DEF Announces
  <2>3. QED
    BY <1>2, <2>1, <2>2
<1>4. HeaderLine(h, line) = [records |-> new, cnt |-> k + 1, nLines |-> tags, over |-> h.over]
  <2>1. line.key = "num_ascii_tags" => TagLines(line.value) = n
    <3>1. 14 <= MaxTagLines /\ MaxTagLines \in Nat
      BY DEF MaxTagLines
    <3>2. n \in 1 .. MaxTagLines
      BY <1>1, <3>1 DEF Announces
    <3>3. QED
      BY <1>1, <3>2 DEF Announces, TagLines
  <2>2. QED
    BY <1>3, <2>1 DEF HeaderLine, IsHeader, After
<1>5. \A l \in 1 .. k + 1 : s[l].key \in DOMAIN new
  <2>1. ASSUME NEW l \in 1 .. k + 1 PROVE s[l].key \in DOMAIN new
    <3>1. l \in 1 .. k \/ l = k + 1
      OBVIOUS
    <3>2. QED
      BY <3>1 DEF Inserted, After
  <2>2. QED
    BY <2>1
<1>6. tags = 14 \/ tags = n
  BY DEF After
<1>7. (\E l \in 1 .. k + 1 : s[l].key = "num_ascii_tags") => tags = n
  <2>1. SUFFICES ASSUME NEW l \in 1 .. k + 1, s[l].key = "num_ascii_tags"
                 PROVE  tags = n
    OBVIOUS
  <2>2. l \in 1 .. k \/ l = k + 1
    OBVIOUS
  <2>3. QED
    BY <2>1, <2>2 DEF After
<1> HIDE DEF new, tags
<1>8. QED
  BY <1>3, <1>4, <1>5, <1>6, <1>7 DEF After

\* It ends after its n lines, with a record for each key.
LEMMA HeaderEnds ==
    ASSUME NEW s, Len(s) \in Nat, NEW n, Announces(s, n)
    PROVE  /\ Header(s).cnt = n
           /\ \A l \in 1 .. n : s[l].key \in DOMAIN Header(s).records
<1>1. PICK g : HeaderTo(s, g) /\ Header(s) = g[Len(s)]
  BY HeaderEquation
<1>2. n \in Nat /\ n <= Len(s)
  BY DEF Announces
<1> DEFINE S == {k \in Nat : k <= Len(s) => /\ IsHeader(s, g[k])
                                            /\ k <= n => After(s, n, k, g[k])
                                            /\ k > n => After(s, n, n, g[k])}
<1>3. 0 \in S
  <2>1. g[0] = NoLines
    BY <1>1 DEF HeaderTo
  <2>2. IsHeader(s, NoLines)
    BY DEF IsHeader, NoLines
  <2>3. After(s, n, 0, NoLines)
    BY DEF After, NoLines
  <2>4. QED
    BY <1>2, <2>1, <2>2, <2>3
<1>4. ASSUME NEW k \in S PROVE k + 1 \in S
  <2>1. SUFFICES ASSUME k + 1 <= Len(s)
                 PROVE  /\ IsHeader(s, g[k + 1])
                        /\ k + 1 <= n => After(s, n, k + 1, g[k + 1])
                        /\ k + 1 > n => After(s, n, n, g[k + 1])
    OBVIOUS
  <2>2. k \in Nat /\ k + 1 \in 1 .. Len(s) /\ IsHeader(s, g[k])
    BY <2>1
  <2>3. g[k + 1] = HeaderLine(g[k], s[k + 1])
    BY <1>1, <2>2 DEF HeaderTo
  <2>4. IsHeader(s, g[k + 1])
    BY <2>2, <2>3, LineOne
  <2>5. CASE k < n
    <3>1. After(s, n, k, g[k])
      <4>1. k <= n /\ k <= Len(s)
        BY <1>2, <2>2, <2>5
      <4>2. QED
        BY <1>4, <4>1
    <3>2. After(s, n, k + 1, g[k + 1])
      BY <2>2, <2>3, <2>5, <3>1, LineAfter
    <3>3. QED
      BY <1>2, <2>2, <2>4, <2>5, <3>2
  <2>6. CASE k >= n
    <3>1. After(s, n, n, g[k])
      BY <1>2, <2>1, <2>2, <2>6
    <3>2. g[k].cnt >= g[k].nLines
      <4>1. n # 14 => \E l \in 1 .. n : s[l].key = "num_ascii_tags"
        BY DEF Announces
      <4>2. QED
        BY <1>2, <3>1, <4>1 DEF After
    <3>3. g[k + 1] = g[k]
      BY <2>3, <3>2 DEF HeaderLine
    <3>4. QED
      BY <1>2, <2>2, <2>4, <2>6, <3>1, <3>3
  <2>7. QED
    BY <1>2, <2>2, <2>5, <2>6
<1> HIDE DEF S
<1>5. S = Nat
  <2>1. S \in SUBSET Nat
    BY DEF S
  <2>2. QED
    BY <1>3, <1>4, <2>1, InductionOverNat
<1>6. Len(s) \in S
  BY <1>5
<1>7. After(s, n, n, g[Len(s)])
  <2>1. Len(s) = n \/ Len(s) > n
    BY <1>2
  <2>2. QED
    BY <1>2, <1>6, <2>1 DEF S
<1>8. QED
  BY <1>1, <1>7 DEF After

-----------------------------------------------------------------------------
(* The sensor lines *)

SensorsTo(s, g) ==
    g = [k \in 0 .. Len(s) |-> IF k = 0 THEN << >> ELSE InUse(g[k - 1], s[k])]

\* The recursive function of SensorsIn has a solution on its whole domain.
LEMMA SensorsExist ==
    ASSUME NEW s, Len(s) \in Nat
    PROVE  \E g : SensorsTo(s, g)
<1> DEFINE Upto(n) ==
              \E g : g = [j \in 0 .. n |-> IF j = 0 THEN << >> ELSE InUse(g[j - 1], s[j])]
           S == {n \in Nat : Upto(n)}
<1>1. 0 \in S
  <2> DEFINE g == [j \in 0 .. 0 |-> << >>]
  <2>1. g = [j \in 0 .. 0 |-> IF j = 0 THEN << >> ELSE InUse(g[j - 1], s[j])]
    OBVIOUS
  <2>2. Upto(0)
    <3> HIDE DEF g
    <3>1. QED
      BY <2>1
  <2>3. QED
    BY <2>2
<1>2. ASSUME NEW n \in S PROVE n + 1 \in S
  <2>1. PICK g : g = [j \in 0 .. n |-> IF j = 0 THEN << >> ELSE InUse(g[j - 1], s[j])]
    OBVIOUS
  <2>2. n \in Nat
    OBVIOUS
  <2> DEFINE h == [j \in 0 .. n + 1 |-> IF j <= n THEN g[j] ELSE InUse(g[j - 1], s[j])]
             t == [j \in 0 .. n + 1 |-> IF j = 0 THEN << >> ELSE InUse(h[j - 1], s[j])]
  <2>3. ASSUME NEW j \in 0 .. n + 1 PROVE h[j] = t[j]
    <3>1. j # 0 => h[j - 1] = g[j - 1]
      BY <2>2
    <3>2. CASE j <= n
      <4>1. h[j] = g[j] /\ j \in 0 .. n
        BY <2>2, <3>2
      <4>2. g[j] = IF j = 0 THEN << >> ELSE InUse(g[j - 1], s[j])
        BY <2>1, <4>1
      <4>3. QED
        BY <3>1, <4>1, <4>2
    <3>3. CASE j > n
      BY <2>2, <3>1, <3>3
    <3>4. QED
      BY <2>2, <3>2, <3>3
  <2>4. h = t
    BY <2>3
  <2>5. \E e : e = [j \in 0 .. n + 1 |-> IF j = 0 THEN << >> ELSE InUse(e[j - 1], s[j])]
    <3> HIDE DEF h
    <3>1. h = [j \in 0 .. n + 1 |-> IF j = 0 THEN << >> ELSE InUse(h[j - 1], s[j])]
      BY <2>4
    <3>2. QED
      BY <3>1
  <2>6. Upto(n + 1)
    BY ONLY <2>5
  <2>7. n + 1 \in Nat
    BY <2>2
  <2>8. QED
    BY ONLY <2>6, <2>7
<1> HIDE DEF S
<1>3. S = Nat
  <2>1. S \in SUBSET Nat
    BY DEF S
  <2>2. QED
    BY <1>1, <1>2, <2>1, InductionOverNat
<1>4. Len(s) \in S
  BY <1>3
<1>5. QED
  BY <1>4 DEF S, SensorsTo

LEMMA NotEmpty ==
    ASSUME NEW T, NEW f \in Seq(T), f # << >>
    PROVE  DOMAIN f # {}
<1>1. Len(f) # 0
  BY EmptySeq
<1>2. 1 \in DOMAIN f
  BY <1>1
<1>3. QED
  BY <1>2

\* The list is a sequence of sensors announced, and it is not empty if a sensor
\* is in use.
EntriesOf(s) == {[name |-> s[k].value.name, size |-> s[k].value.size] : k \in 1 .. Len(s)}

LEMMA SensorsInUse ==
    ASSUME NEW s, Len(s) \in Nat
    PROVE  /\ SensorsIn(s) \in Seq(EntriesOf(s))
           /\ SensorsIn(s) # << >> => DOMAIN SensorsIn(s) # {}
           /\ (\E k \in 1 .. Len(s) : s[k].value.used) => SensorsIn(s) # << >>
<1> DEFINE g == CHOOSE g : SensorsTo(s, g)
<1>1. SensorsTo(s, g)
  BY SensorsExist
<1>2. SensorsIn(s) = g[Len(s)]
  BY DEF SensorsIn, SensorsTo
<1> HIDE DEF g
<1> DEFINE T == EntriesOf(s)
           S == {n \in Nat : n <= Len(s) => /\ g[n] \in Seq(T)
                                            /\ (\E k \in 1 .. n : s[k].value.used) => Len(g[n]) > 0}
<1>3. 0 \in S
  <2>1. g[0] = << >>
    BY <1>1 DEF SensorsTo
  <2>2. << >> \in Seq(T)
    OBVIOUS
  <2>3. ~\E k \in 1 .. 0 : s[k].value.used
    OBVIOUS
  <2> HIDE DEF T
  <2>4. QED
    BY <2>1, <2>2, <2>3
<1>4. ASSUME NEW n \in S PROVE n + 1 \in S
  <2>1. SUFFICES ASSUME n + 1 <= Len(s)
                 PROVE  /\ g[n + 1] \in Seq(T)
                        /\ (\E k \in 1 .. n + 1 : s[k].value.used) => Len(g[n + 1]) > 0
    OBVIOUS
  <2>2. n \in Nat /\ n + 1 \in 1 .. Len(s) /\ g[n] \in Seq(T)
    BY <2>1
  <2>3. g[n + 1] = InUse(g[n], s[n + 1])
    BY <1>1, <2>2 DEF SensorsTo
  <2>4. (\E k \in 1 .. n : s[k].value.used) => Len(g[n]) > 0
    BY <2>1, <2>2
  <2> DEFINE new == [name |-> s[n + 1].value.name, size |-> s[n + 1].value.size]
  <2>5. new \in T
    BY <2>2 DEF EntriesOf
  <2> HIDE DEF T, new
  <2>6. CASE s[n + 1].value.used
    <3>1. g[n + 1] = Append(g[n], new)
      BY <2>3, <2>6 DEF InUse, new
    <3>2. QED
      BY <2>2, <2>5, <3>1
  <2>7. CASE ~s[n + 1].value.used
    <3>1. g[n + 1] = g[n]
      BY <2>3, <2>7 DEF InUse
    <3>2. ASSUME NEW k \in 1 .. n + 1, s[k].value.used PROVE k \in 1 .. n
      <4>1. k # n + 1
        BY <2>7, <3>2
      <4>2. QED
        BY <2>2, <4>1
    <3>3. QED
      BY <2>2, <2>4, <3>1, <3>2
  <2>8. QED
    BY <2>6, <2>7
<1> HIDE DEF S
<1>5. S = Nat
  <2>1. S \in SUBSET Nat
    BY DEF S
  <2>2. QED
    BY <1>3, <1>4, <2>1, InductionOverNat
<1>6. Len(s) \in S
  BY <1>5
<1> HIDE DEF T
<1>7. /\ g[Len(s)] \in Seq(T)
      /\ (\E k \in 1 .. Len(s) : s[k].value.used) => Len(g[Len(s)]) > 0
  BY <1>6 DEF S
<1>8. g[Len(s)] # << >> => DOMAIN g[Len(s)] # {}
  <2>1. PICK f \in Seq(T) : f = g[Len(s)]
    BY <1>7
  <2>2. f # << >> => DOMAIN f # {}
    BY NotEmpty
  <2>3. QED
    BY <2>1, <2>2
<1>9. Len(g[Len(s)]) > 0 => g[Len(s)] # << >>
  OBVIOUS
<1>10. QED
  BY <1>2, <1>7, <1>8, <1>9 DEF T

-----------------------------------------------------------------------------
(* The files *)

LEMMA StreamIs ==
    ASSUME NEW x \in Stored
    PROVE  /\ Stream(x) \in Seq(ToSet(Stream(x))) /\ DOMAIN Stream(x) = 1 .. Len(Stream(x))
           /\ Len(Stream(x)) \in Nat /\ Content[x].size \in Nat
<1>1. IsContent(Content[x])
  BY StoredAssumption
<1>2. QED
  BY <1>1 DEF IsContent, Stream

\* The list of a file, if there is one, has a sensor.
LEMMA FreshIs ==
    ASSUME NEW x \in Stored, NEW list, list = Fresh(Stream(x), HeaderOf(x)), list # << >>
    PROVE  DOMAIN list # {}
<1> DEFINE h == HeaderOf(x)
           own == SensorsOf(Stream(x), h.cnt + 1, h)
<1>1. own # << >> => DOMAIN own # {}
  <2>1. PICK s : s = Announced(Stream(x), h.cnt + 1, h)
    OBVIOUS
  <2>2. SensorsIn(s) # << >> => DOMAIN SensorsIn(s) # {}
    BY SensorsInUse
  <2>3. QED
    BY <2>1, <2>2 DEF SensorsOf
<1>2. ASSUME Crc(h) \in DOMAIN Cache, Cache[Crc(h)] # << >>
      PROVE  DOMAIN Cache[Crc(h)] # {}
  <2>1. PICK c : c = Crc(h)
    OBVIOUS
  <2>2. PICK T : Cache[c] \in Seq(T) /\ Cache[c] # << >>
    BY <1>2, <2>1, CacheAssumption
  <2>3. PICK f \in Seq(T) : f = Cache[c] /\ f # << >>
    BY <2>2
  <2>4. DOMAIN f # {}
    BY <2>3, NotEmpty
  <2>5. QED
    BY <2>1, <2>3, <2>4
<1> HIDE DEF h
<1>3. list = IF own # << >> THEN own
             ELSE IF Crc(h) \in DOMAIN Cache THEN Cache[Crc(h)] ELSE << >>
  BY DEF Fresh, h
<1> HIDE DEF own
<1>4. QED
  BY <1>1, <1>2, <1>3

LEMMA TimeIs ==
    ASSUME NEW x \in Stored
    PROVE  FileOpenTime(HeaderOf(x)) \in 0 .. Latest
<1> DEFINE h == HeaderOf(x)
           s == Stream(x)
<1>1. IsHeader(s, h)
  BY StreamIs, HeaderIs DEF HeaderOf
<1>2. ASSUME "fileopen_time" \in DOMAIN h.records
      PROVE  h.records["fileopen_time"] \in Int /\ h.records["fileopen_time"] <= Latest
  <2>1. PICK l \in 1 .. Len(s) : s[l].key = "fileopen_time" /\ s[l].value = h.records["fileopen_time"]
    BY <1>1, <1>2 DEF IsHeader
  <2>2. s[l] \in ToSet(s)
    BY StreamIs DEF ToSet
  <2>3. \A line \in ToSet(s) : line.key = "fileopen_time" =>
            line.value \in Int /\ line.value <= Latest
    BY StoredAssumption DEF IsContent, Stream
  <2>4. QED
    BY <2>1, <2>2, <2>3
<1>3. PICK t : t = h.records["fileopen_time"]
  OBVIOUS
<1>4. FileOpenTime(h) = IF "fileopen_time" \in DOMAIN h.records /\ t >= 0 THEN t ELSE Latest
  BY <1>3 DEF FileOpenTime, Find
<1> HIDE DEF h
<1>5. QED
  BY <1>2, <1>3, <1>4, LatestAssumption DEF h

\* A record is the value all lines of its key have, if they agree.
LEMMA SaysFinds ==
    ASSUME NEW x \in Stored, NEW key, NEW v, Says(x, key, v),
           key \in DOMAIN HeaderOf(x).records
    PROVE  HeaderOf(x).records[key] = v
<1> DEFINE h == HeaderOf(x)
           s == Stream(x)
<1>1. IsHeader(s, h)
  BY StreamIs, HeaderIs DEF HeaderOf
<1>2. PICK l \in 1 .. Len(s) : s[l].key = key /\ s[l].value = h.records[key]
  BY <1>1 DEF IsHeader
<1>3. l \in Lines(x, key)
  BY <1>2, StreamIs DEF Lines
<1>4. QED
  BY <1>2, <1>3 DEF Says

\* The lines of the header come first, then the sensor lines, then the data.
LEMMA KindsInOrder ==
    ASSUME NEW x \in Stored, WellFormed(x)
    PROVE  LET n == Cardinality(HeaderLines(x))
               m == Cardinality(Lines(x, "s"))
           IN  /\ n \in Nat /\ m \in Nat /\ Len(Stream(x)) = n + m + 1
               /\ HeaderLines(x) = 1 .. n /\ Lines(x, "s") = n + 1 .. n + m
               /\ Lines(x, "body") = {n + m + 1}
<1> DEFINE H == HeaderLines(x)
           B == Lines(x, "s")
<1>1. PICK s : s = Stream(x)
  OBVIOUS
<1>2. PICK b \in Nat : b = Len(s) /\ DOMAIN s = 1 .. b
  BY <1>1, StreamIs
<1>3. /\ H = {k \in 1 .. b : s[k].key \notin {"s", "body"}}
      /\ B = {k \in 1 .. b : s[k].key = "s"}
      /\ Lines(x, "body") = {k \in 1 .. b : s[k].key = "body"}
  BY <1>1, <1>2 DEF HeaderLines, Lines
<1>4. \A k, l \in 1 .. b : k < l =>
          (s[k].key = "s" => s[l].key \in {"s", "body"}) /\ s[k].key # "body"
  BY <1>1, <1>2 DEF WellFormed, InOrderOfKind
<1>5. Lines(x, "body") = {b} /\ b # 0
  <2>1. PICK k \in 1 .. b : s[k].key = "body"
    BY <1>3 DEF WellFormed, Says
  <2>2. ASSUME NEW l \in 1 .. b, s[l].key = "body" PROVE l = b
    <3>1. ~(l < b)
      BY <1>2, <1>4, <2>2
    <3>2. QED
      BY <1>2, <3>1
  <2>3. k = b
    BY <2>1, <2>2
  <2>4. QED
    BY <1>2, <1>3, <2>1, <2>2, <2>3
<1> HIDE DEF H, B
<1>6. PICK j \in Nat : j < b /\ H = 1 .. j
  <2>1. \A k \in H : k \in 1 .. b - 1
    BY <1>2, <1>3, <1>5
  <2>2. CASE H = {}
    <3>1. 0 < b /\ H = 1 .. 0
      BY <1>2, <1>5, <2>2
    <3>2. QED
      BY <3>1
  <2>3. CASE H # {}
    <3>1. H \in SUBSET Nat /\ b - 1 \in Nat /\ \A k \in H : k <= b - 1
      BY <1>2, <1>5, <2>1
    <3>2. PICK j \in H : \A k \in H : k <= j
      BY <2>3, <3>1, GreatestNatural
    <3>3. ASSUME NEW k \in 1 .. j PROVE k \in H
      <4>1. k = j \/ k < j
        BY <3>1
      <4>2. j \in 1 .. b /\ s[j].key \notin {"s", "body"}
        BY <1>3
      <4>3. k \in 1 .. b
        BY <1>2, <4>2
      <4>4. k < j => s[k].key \notin {"s", "body"}
        BY <1>4, <4>2, <4>3
      <4>5. QED
        BY <1>3, <4>1, <4>2, <4>3, <4>4
    <3>4. H = 1 .. j
      <4>1. \A k \in H : k \in 1 .. j
        BY <2>1, <3>1, <3>2
      <4>2. QED
        BY <3>3, <4>1
    <3>5. j \in Nat /\ j < b
      BY <2>1, <3>1
    <3>6. QED
      BY <3>4, <3>5
  <2>4. QED
    BY <2>2, <2>3
<1>7. B = j + 1 .. b - 1
  <2>1. ASSUME NEW k \in 1 .. b
        PROVE  k \in B <=> k \in j + 1 .. b - 1
    <3>1. s[k].key = "body" <=> k = b
      BY <1>3, <1>5
    <3>2. s[k].key \notin {"s", "body"} <=> k \in 1 .. j
      BY <1>3, <1>6
    <3>3. k \in B <=> s[k].key = "s"
      BY <1>3
    <3>4. QED
      BY <1>2, <1>6, <3>1, <3>2, <3>3
  <2>2. \A k \in B : k \in 1 .. b
    BY <1>3
  <2>3. \A k \in j + 1 .. b - 1 : k \in 1 .. b
    BY <1>2, <1>6
  <2>4. QED
    BY <2>1, <2>2, <2>3
<1>8. Cardinality(H) = j /\ Cardinality(B) = b - 1 - j /\ b - 1 - j \in Nat
  <2>1. Cardinality(1 .. j) = j
    BY FS_Interval
  <2>2. j + 1 \in Int /\ b - 1 \in Int
    BY <1>2
  <2>3. Cardinality(j + 1 .. b - 1) = IF j + 1 > b - 1 THEN 0 ELSE (b - 1) - (j + 1) + 1
    BY <2>2, FS_Interval
  <2>4. QED
    BY <1>2, <1>6, <1>7, <2>1, <2>3
<1>9. PICK m \in Nat : m = Cardinality(B) /\ b = j + m + 1
  <2>1. PICK m \in Nat : m = b - 1 - j
    BY <1>8
  <2>2. b = j + m + 1
    BY <1>2, <1>6, <2>1
  <2>3. QED
    BY <1>8, <2>1, <2>2
<1>10. B = j + 1 .. j + m
  BY <1>7, <1>9
<1>11. QED
  BY <1>1, <1>2, <1>5, <1>6, <1>8, <1>9, <1>10 DEF H, B

\* Its header is read whole, and so are its sensors, or they are read past.
LEMMA WellFormedReads ==
    ASSUME NEW x \in Stored, WellFormed(x)
    PROVE  LET h == HeaderOf(x)
           IN  /\ ~IsEmpty(h)
               /\ SensorsParse(Stream(x), h.cnt + 1, h)
               /\ KnowsBytes(Stream(x), DataAt(x))
               /\ Lines(x, "s") # {} => SensorsOf(Stream(x), h.cnt + 1, h) # << >>
<1> DEFINE h == HeaderOf(x)
<1>1. PICK s : s = Stream(x) /\ DOMAIN s = 1 .. Len(s) /\ Len(s) \in Nat
  BY StreamIs
<1>2. PICK n \in Nat : n = Cardinality(HeaderLines(x))
  BY KindsInOrder
<1>3. PICK m \in Nat : m = Cardinality(Lines(x, "s"))
  BY KindsInOrder
<1>4. /\ Len(s) = n + m + 1
      /\ HeaderLines(x) = 1 .. n /\ Lines(x, "s") = n + 1 .. n + m
      /\ Lines(x, "body") = {n + m + 1}
  BY <1>1, <1>2, <1>3, KindsInOrder
<1>5. \A key : key \notin {"s", "body"} => Lines(x, key) \subseteq 1 .. n
  BY <1>4 DEF HeaderLines, Lines
<1>6. \A key : \A l \in 1 .. Len(s) : l \in Lines(x, key) <=> s[l].key = key
  BY <1>1 DEF Lines
<1>7. Announces(s, n)
  <2>1. n # 0
    BY <1>5 DEF WellFormed
  <2>2. \A l \in 1 .. n : l \in 1 .. Len(s) /\ s[l].key # "body"
    BY <1>4, <1>6
  <2>3. CASE Lines(x, "num_ascii_tags") = {}
    <3>1. n = 14
      BY <1>2, <2>3 DEF WellFormed, TellsLines
    <3>2. \A l \in 1 .. n : s[l].key # "num_ascii_tags"
      BY <1>6, <2>2, <2>3
    <3>3. n <= Len(s)
      BY <1>4
    <3>4. QED
      BY <2>1, <2>2, <3>1, <3>2, <3>3 DEF Announces
  <2>4. CASE Lines(x, "num_ascii_tags") # {}
    <3>1. n <= MaxTagLines /\ Says(x, "num_ascii_tags", n)
      BY <1>2, <2>4 DEF WellFormed, TellsLines
    <3>2. PICK k \in Lines(x, "num_ascii_tags") : k <= 14
      BY <2>4 DEF WellFormed, TellsLines
    <3>3. k \in 1 .. n /\ s[k].key = "num_ascii_tags"
      BY <1>5, <1>6, <2>2
    <3>4. \A l \in 1 .. n : s[l].key = "num_ascii_tags" => s[l].value = n
      BY <1>1, <1>6, <2>2, <3>1 DEF Says
    <3>5. QED
      BY <1>4, <2>1, <2>2, <3>1, <3>2, <3>3, <3>4 DEF Announces
  <2>5. QED
    BY <2>3, <2>4
<1>8. h.cnt = n /\ \A l \in 1 .. n : s[l].key \in DOMAIN h.records
  BY <1>1, <1>7, HeaderEnds DEF HeaderOf
<1>9. ASSUME NEW key, key \notin {"s", "body"}, Lines(x, key) # {}
      PROVE  key \in DOMAIN h.records
  <2>1. PICK l \in 1 .. n : l \in Lines(x, key)
    BY <1>5, <1>9
  <2>2. s[l].key = key
    BY <1>4, <1>6, <2>1
  <2>3. QED
    BY <1>8, <2>2
<1>10. ASSUME NEW key, key \notin {"s", "body"}, NEW v, Says(x, key, v)
       PROVE  key \in DOMAIN h.records /\ h.records[key] = v
  <2>1. key \in DOMAIN h.records
    BY <1>9, <1>10 DEF Says
  <2>2. QED
    BY <1>10, <2>1, SaysFinds
<1>11. ~IsEmpty(h)
  <2>1. "sensor_list_crc" \in DOMAIN h.records
    BY <1>9 DEF WellFormed
  <2>2. QED
    BY <2>1 DEF IsEmpty
<1>12. s[n + m + 1].key = "body" /\ s[n + m + 1].value.order \in {"little", "big"}
  <2>1. n + m + 1 \in Lines(x, "body") /\ n + m + 1 \in 1 .. Len(s)
    BY <1>4
  <2>2. s[n + m + 1].value \in {[order |-> "little"], [order |-> "big"]}
    BY <1>1, <2>1 DEF WellFormed, Says
  <2>3. QED
    BY <1>6, <2>1, <2>2
<1> HIDE DEF h
<1>13. CASE Lines(x, "s") = {}
  <2>1. m = 0
    <3>1. m # 0 => n + 1 \in n + 1 .. n + m
      OBVIOUS
    <3>2. QED
      BY <1>4, <1>13, <3>1
  <2>2. Factored(h)
    <3>1. Says(x, "sensor_list_factored", 1)
      BY <1>13 DEF WellFormed, TellsSensors
    <3>2. QED
      BY <1>10, <3>1 DEF Factored, FindInt
  <2>3. SensorsParse(Stream(x), h.cnt + 1, h)
    BY <2>2 DEF SensorsParse
  <2>4. DataAt(x) = n + m + 1
    BY <1>8, <2>1, <2>2 DEF DataAt, PastSensors, h
  <2>5. KnowsBytes(s, DataAt(x))
    BY <1>4, <1>12, <2>4 DEF KnowsBytes
  <2>6. QED
    BY <1>1, <1>11, <1>13, <2>3, <2>5 DEF h
<1>14. CASE Lines(x, "s") # {}
  <2>1. ~Factored(h) /\ NSensors(h) = m
    <3>1. Says(x, "sensor_list_factored", 0) /\ Says(x, "total_num_sensors", m)
      BY <1>3, <1>14 DEF WellFormed, TellsSensors
    <3>2. QED
      BY <1>10, <3>1 DEF Factored, NSensors, FindInt
  <2>2. \A k \in 1 .. m : n + k \in 1 .. Len(s) /\ n + k \in Lines(x, "s") /\ s[n + k].key = "s"
    <3>1. ASSUME NEW k \in 1 .. m
          PROVE  n + k \in 1 .. Len(s) /\ n + k \in Lines(x, "s")
      BY <1>4
    <3>2. QED
      BY <1>6, <3>1
  <2>3. SensorsParse(s, h.cnt + 1, h)
    <3>1. ASSUME NEW k \in 1 .. m
          PROVE  (n + 1) + k - 1 <= Len(s) /\ s[(n + 1) + k - 1].key = "s"
      <4>1. (n + 1) + k - 1 = n + k
        OBVIOUS
      <4>2. QED
        BY <2>2, <4>1
    <3>2. SensorsParse(s, n + 1, h)
      BY <2>1, <3>1 DEF SensorsParse
    <3>3. QED
      BY <1>8, <3>2
  <2>4. DataAt(x) = n + m + 1
    <3>1. PastSensors(s, n + 1, h) = n + m + 1
      BY <1>4, <2>1 DEF PastSensors
    <3>2. QED
      BY <1>1, <1>8, <3>1 DEF DataAt, h
  <2>5. KnowsBytes(s, DataAt(x))
    BY <1>4, <1>12, <2>4 DEF KnowsBytes
  <2>6. SensorsOf(s, h.cnt + 1, h) # << >>
    <3>1. PICK k \in Lines(x, "s") : s[k].value.used
      BY <1>1, <1>14 DEF WellFormed, TellsSensors
    <3>2. PICK lines : lines = SubSeq(s, n + 1, n + m)
      OBVIOUS
    <3>3. Announced(s, h.cnt + 1, h) = lines
      BY <1>8, <2>1, <3>2 DEF Announced
    <3>4. k - n \in 1 .. m /\ (k - n) + n = k
      BY <1>4
    <3>5. Len(lines) = m /\ lines[k - n] = s[k]
      <4>1. s \in Seq(ToSet(s))
        BY <1>1, StreamIs
      <4>2. n + 1 \in 1 .. Len(s) + 1 /\ n + m \in n .. Len(s)
        BY <1>4
      <4>3. /\ Len(lines) = n + m - (n + 1) + 1
            /\ \A j \in 1 .. n + m - (n + 1) + 1 : lines[j] = s[(n + 1) + j - 1]
        <5>1. \A j \in n + 1 .. n + m : s[j] \in ToSet(s)
          BY <4>1, <4>2
        <5>2. QED
          BY <3>2, <5>1, SubSeqProperties
      <4>4. n + m - (n + 1) + 1 = m /\ (n + 1) + (k - n) - 1 = k
        BY <3>4
      <4>5. QED
        BY ONLY <3>4, <4>3, <4>4
    <3>6. SensorsIn(lines) # << >>
      BY <3>1, <3>4, <3>5, SensorsInUse
    <3>7. QED
      BY <2>1, <3>3, <3>6 DEF SensorsOf
  <2>7. QED
    BY <1>1, <1>11, <2>3, <2>5, <2>6 DEF h
<1>15. QED
  BY <1>13, <1>14
-----------------------------------------------------------------------------
(* The inductive invariant *)

N == Len(cmd.input)
FileAt(k) == cmd.input[indices[k]]

Steps == {"first", "second", "list", "done", "exit", "aborted"}
ResultShape == [at : Nat, nBytes : Nat, records : Nat]

Control ==
    /\ cmd \in Commands
    /\ pc \in Steps
    /\ i \in 1 .. N + 1

\* The vectors of the accepted files go together.
Vectors ==
    /\ indices \in Seq(1 .. N) /\ Len(indices) <= N
    /\ times \in Seq(0 .. Latest) /\ sizes \in Seq(Nat)
    /\ Len(times) = Len(indices) /\ Len(sizes) = Len(indices)
    /\ \A k \in 1 .. Len(indices) : sizes[k] = Content[FileAt(k)].size

\* Before the sort they are those before the one at hand, in the order of the
\* command line, with their times.
Unsorted ==
    pc = "first" =>
        /\ Len(indices) < i
        /\ \A k \in 1 .. Len(indices) :
              indices[k] < i /\ times[k] = FileOpenTime(HeaderOf(FileAt(k)))
        /\ \A k, l \in 1 .. Len(indices) : k < l => indices[k] < indices[l]

\* What SetUp leaves: the order asked for.
Before(k, l) ==
    LET x == FileAt(k)
        y == FileAt(l)
    IN  /\ indices[k] # indices[l]
        /\ cmd.sort = "none" => indices[k] < indices[l]
        /\ cmd.sort = "lexicographic" => x <= y
        /\ cmd.sort = "header_time" => FileOpenTime(HeaderOf(x)) <= FileOpenTime(HeaderOf(y))
Sorted == pc = "second" => \A k, l \in 1 .. Len(indices) : k < l => Before(k, l)

\* No file asked for is missing among them.
Complete ==
    \A k \in 1 .. N :
        /\ pc = "second" \/ (pc = "first" /\ k < i)
        /\ Asked(HeaderOf(cmd.input[k])) /\ cmd.input[k] \notin refused
        => \E l \in 1 .. Len(indices) : indices[l] = k

\* Lists are not empty, and an accepted file that has one, or whose CRC the cache
\* has one for, has one in the map.
Known ==
    /\ DOMAIN lists \subseteq ToSet(CrcOrder)
    /\ \A c \in DOMAIN lists : DOMAIN lists[c].sensors # {}
    /\ \A k \in 1 .. Len(indices) :
          LET h == HeaderOf(FileAt(k))
          IN  SensorsParse(Stream(FileAt(k)), h.cnt + 1, h) /\ Fresh(Stream(FileAt(k)), h) # << >>
                  => Crc(h) \in DOMAIN lists

\* What was decoded, and that nothing is before the second pass.
Decoded ==
    /\ result \in Seq(ResultShape)
    /\ \A r \in 1 .. Len(result) :
          result[r].at \in 1 .. Len(indices) /\ result[r].nBytes = sizes[result[r].at]
    /\ pc \in {"first", "list"} => rows = << >> /\ result = << >>
    /\ \E T : rows \in Seq(T) /\ \A t \in T : DOMAIN t = DOMAIN all

\* A file as a glider writes it is refused only when it is read again, and
\* because the map has no list for it.
Excused ==
    /\ refused \subseteq ToSet(cmd.input)
    /\ \A x \in refused : WellFormed(x) =>
          /\ pc # "first"
          /\ \E k \in 1 .. Len(indices) : FileAt(k) = x
          /\ Crc(HeaderOf(x)) \notin DOMAIN lists

IInv ==
    Control /\ Vectors /\ Unsorted /\ Sorted /\ Complete /\ Known /\ Decoded /\ Excused

-----------------------------------------------------------------------------
(* The steps of the first pass *)

LEMMA InputIs ==
    ASSUME IInv
    PROVE  /\ IsCommand(cmd) /\ N \in Nat /\ DOMAIN cmd.input = 1 .. N
           /\ \A k \in 1 .. N : cmd.input[k] \in Stored /\ cmd.input[k] \in ToSet(cmd.input)
           /\ Len(indices) \in Nat
           /\ \A k \in 1 .. Len(indices) : indices[k] \in 1 .. N /\ FileAt(k) \in Stored
<1>1. IsCommand(cmd)
  BY CommandsAssumption DEF IInv, Control
<1>2. cmd.input \in Seq(Stored)
  BY <1>1 DEF IsCommand
<1>3. N \in Nat /\ DOMAIN cmd.input = 1 .. N
  BY <1>2 DEF N
<1>4. \A k \in 1 .. N : cmd.input[k] \in Stored /\ cmd.input[k] \in ToSet(cmd.input)
  BY <1>2, <1>3 DEF N, ToSet
<1>5. Len(indices) \in Nat /\ \A k \in 1 .. Len(indices) : indices[k] \in 1 .. N
  <2>1. PICK T : T = 1 .. N
    OBVIOUS
  <2>2. indices \in Seq(T)
    BY <2>1 DEF IInv, Vectors
  <2>3. Len(indices) \in Nat /\ \A k \in 1 .. Len(indices) : indices[k] \in T
    BY ONLY <2>2
  <2>4. QED
    BY <2>1, <2>3
<1>6. QED
  BY <1>1, <1>3, <1>4, <1>5 DEF FileAt

LEMMA InitInv == Init => IInv
<1> SUFFICES ASSUME Init PROVE IInv
  OBVIOUS
<1>1. IsCommand(cmd) /\ cmd.input \in Seq(Stored) /\ N \in Nat
  BY CommandsAssumption DEF Init, IsCommand, N
<1>2. Control
  BY <1>1 DEF Init, Control, Steps
<1>3. Vectors
  BY <1>1 DEF Init, Vectors
<1>4. Unsorted /\ Sorted
  BY <1>1 DEF Init, Unsorted, Sorted
<1>5. Complete
  BY <1>1 DEF Init, Complete
<1>6. Known
  BY DEF Init, Known
<1>7. Decoded
  <2>1. rows \in Seq({}) /\ \A t \in {} : DOMAIN t = DOMAIN all
    BY DEF Init
  <2>2. QED
    BY <2>1 DEF Init, Decoded
<1>8. Excused
  BY DEF Init, Excused
<1>9. QED
  BY <1>2, <1>3, <1>4, <1>5, <1>6, <1>7, <1>8 DEF IInv

\* A run ends, or nothing happens.
LEMMA EndInv ==
    ASSUME IInv, pc' = pc \/ pc' \in {"done", "exit", "aborted"},
           UNCHANGED <<cmd, i, lists, accepted, all, written, refused>>
    PROVE  IInv'
<1>1. UNCHANGED <<cmd, i, lists, indices, times, sizes, all, rows, result, refused>>
  BY DEF accepted, written
<1>2. Control'
  BY <1>1 DEF IInv, Control, N, Steps
<1>3. Vectors' /\ Known'
  BY <1>1 DEF IInv, Vectors, Known, N, FileAt
<1>4. Unsorted' /\ Sorted'
  BY <1>1 DEF IInv, Unsorted, Sorted, Before, FileAt
<1>5. Complete'
  BY <1>1 DEF IInv, Complete, Asked, N
<1>6. Decoded'
  BY <1>1 DEF IInv, Decoded
<1>7. Excused'
  BY <1>1 DEF IInv, Excused, FileAt
<1>8. QED
  BY <1>2, <1>3, <1>4, <1>5, <1>6, <1>7 DEF IInv

\* What accepting a file does to the map.
LEMMA InsertIs ==
    ASSUME IInv, NEW x \in Stored, ~InsertThrows(Stream(x), HeaderOf(x)),
           Insert(Stream(x), HeaderOf(x))
    PROVE  /\ DOMAIN lists \subseteq DOMAIN lists' /\ DOMAIN lists' \subseteq ToSet(CrcOrder)
           /\ \A c \in DOMAIN lists' : DOMAIN lists'[c].sensors # {}
           /\ Fresh(Stream(x), HeaderOf(x)) # << >> => Crc(HeaderOf(x)) \in DOMAIN lists'
<1>1. PICK c : c = Crc(HeaderOf(x))
  OBVIOUS
<1>2. PICK list : list = Fresh(Stream(x), HeaderOf(x))
  OBVIOUS
<1>3. DOMAIN lists \subseteq ToSet(CrcOrder) /\ \A d \in DOMAIN lists : DOMAIN lists[d].sensors # {}
  BY DEF IInv, Known
<1>4. CASE c \in DOMAIN lists \/ list = << >>
  BY <1>1, <1>2, <1>3, <1>4 DEF Insert
<1>5. CASE c \notin DOMAIN lists /\ list # << >>
  <2>1. lists' = Inserted(lists, c, Raw(list))
    BY <1>1, <1>2, <1>5 DEF Insert
  <2>2. DOMAIN lists' = DOMAIN lists \cup {c} /\ lists'[c] = Raw(list)
        /\ \A d \in DOMAIN lists : lists'[d] = lists[d]
    BY <1>5, <2>1 DEF Inserted
  <2>3. DOMAIN Raw(list).sensors # {}
    BY <1>2, <1>5, FreshIs DEF Raw
  <2>4. c \in ToSet(CrcOrder)
    BY <1>1, OrderAssumption
  <2>5. QED
    BY <1>1, <1>3, <2>2, <2>3, <2>4
<1>6. QED
  BY <1>4, <1>5

LEMMA AcceptInv == IInv /\ Accept => IInv'
<1> SUFFICES ASSUME IInv, Accept PROVE IInv'
  OBVIOUS
<1>1. /\ pc = "first" /\ i \in 1 .. N /\ i' = i + 1
      /\ indices' = Append(indices, i) /\ sizes' = Append(sizes, Content[Input].size)
      /\ times' = Append(times, FileOpenTime(HeaderOf(Input)))
      /\ UNCHANGED <<cmd, pc, all, rows, result, refused>>
  BY InputIs DEF Accept, written, IInv, Control, N
<1>2. PICK x \in Stored : x = Input
  BY <1>1, InputIs DEF Input
<1>3. PICK n \in Nat : n = Len(indices)
  BY InputIs
<1>4. /\ n < i /\ \A k \in 1 .. n : indices[k] < i /\ times[k] = FileOpenTime(HeaderOf(FileAt(k)))
      /\ \A k, l \in 1 .. n : k < l => indices[k] < indices[l]
  BY <1>1, <1>3 DEF IInv, Unsorted
<1>5. /\ indices \in Seq(1 .. N) /\ times \in Seq(0 .. Latest) /\ sizes \in Seq(Nat)
      /\ Len(times) = n /\ Len(sizes) = n
      /\ \A k \in 1 .. n : sizes[k] = Content[FileAt(k)].size
  BY <1>3 DEF IInv, Vectors
<1>6. N' = N /\ N \in Nat
  BY <1>1, InputIs DEF N
<1>7. /\ indices' \in Seq(1 .. N) /\ Len(indices') = n + 1
      /\ indices'[n + 1] = i /\ \A k \in 1 .. n : indices'[k] = indices[k]
  BY <1>1, <1>3, <1>5
<1>8. /\ sizes' \in Seq(Nat) /\ Len(sizes') = n + 1
      /\ sizes'[n + 1] = Content[x].size /\ \A k \in 1 .. n : sizes'[k] = sizes[k]
  <2>1. PICK z \in Nat : z = Content[x].size
    BY StreamIs
  <2>2. sizes' = Append(sizes, z) /\ sizes \in Seq(Nat) /\ Len(sizes) = n
    BY <1>1, <1>2, <1>5, <2>1
  <2>3. z \in Nat
    OBVIOUS
  <2>4. /\ sizes' \in Seq(Nat) /\ Len(sizes') = n + 1
        /\ sizes'[n + 1] = z /\ \A k \in 1 .. n : sizes'[k] = sizes[k]
    BY ONLY <2>2, <2>3
  <2>5. QED
    BY <2>1, <2>4
<1>9. /\ times' \in Seq(0 .. Latest) /\ Len(times') = n + 1
      /\ times'[n + 1] = FileOpenTime(HeaderOf(x)) /\ \A k \in 1 .. n : times'[k] = times[k]
  <2>1. PICK t \in 0 .. Latest : t = FileOpenTime(HeaderOf(x))
    BY TimeIs
  <2>2. times' = Append(times, t)
    BY <1>1, <1>2, <2>1
  <2>3. QED
    BY <1>5, <2>1, <2>2
<1>10. (FileAt(n + 1))' = x /\ \A k \in 1 .. n : (FileAt(k))' = FileAt(k)
  BY <1>1, <1>2, <1>7 DEF FileAt, Input
<1>11. \A k \in 1 .. n + 1 : k \in 1 .. n \/ k = n + 1
  OBVIOUS
<1>12. Control'
  BY <1>1, <1>6 DEF IInv, Control, Steps
<1>13. Vectors'
  <2>1. n + 1 <= N
    BY <1>1, <1>4, <1>6
  <2>2. \A k \in 1 .. n + 1 : sizes'[k] = Content[(FileAt(k))'].size
    BY <1>5, <1>8, <1>10, <1>11
  <2>3. QED
    BY <1>6, <1>7, <1>8, <1>9, <2>1, <2>2 DEF Vectors
<1>14. Unsorted'
  <2>1. n + 1 < i + 1
    BY <1>1, <1>4
  <2>2. ASSUME NEW k \in 1 .. n + 1
        PROVE  indices'[k] < i + 1 /\ times'[k] = FileOpenTime(HeaderOf((FileAt(k))'))
    <3>1. CASE k \in 1 .. n
      <4>1. indices[k] \in 1 .. N /\ indices[k] < i
        BY <1>3, <1>4, <3>1, InputIs
      <4>2. indices'[k] < i + 1
        BY <1>1, <1>7, <3>1, <4>1
      <4>3. QED
        BY <1>4, <1>9, <1>10, <3>1, <4>2
    <3>2. CASE k = n + 1
      BY <1>1, <1>7, <1>9, <1>10, <3>2
    <3>3. QED
      BY <1>11, <3>1, <3>2
  <2>3. ASSUME NEW k \in 1 .. n + 1, NEW l \in 1 .. n + 1, k < l
        PROVE  indices'[k] < indices'[l]
    <3>1. k \in 1 .. n
      BY <2>3
    <3>2. CASE l \in 1 .. n
      BY <1>4, <1>7, <2>3, <3>1, <3>2
    <3>3. CASE l = n + 1
      BY <1>4, <1>7, <3>1, <3>3
    <3>4. QED
      BY <1>11, <3>2, <3>3
  <2>4. QED
    BY <1>1, <1>7, <2>1, <2>2, <2>3 DEF Unsorted
<1>15. Sorted'
  BY <1>1 DEF Sorted
<1>16. Complete'
  <2>1. ASSUME NEW k \in 1 .. N, k < i + 1, Asked(HeaderOf(cmd.input[k])), cmd.input[k] \notin refused
        PROVE  \E l \in 1 .. n + 1 : indices'[l] = k
    <3>1. CASE k < i
      <4>1. \E l \in 1 .. Len(indices) : indices[l] = k
        BY <1>1, <2>1, <3>1 DEF IInv, Complete
      <4>2. PICK l \in 1 .. n : indices[l] = k
        BY <1>3, <4>1
      <4>3. l \in 1 .. n + 1 /\ indices'[l] = k
        BY <1>7, <4>2
      <4>4. QED
        BY <4>3
    <3>2. CASE k = i
      <4>1. n + 1 \in 1 .. n + 1 /\ indices'[n + 1] = k
        BY <1>7, <3>2
      <4>2. QED
        BY <4>1
    <3>3. k < i \/ k = i
      BY <1>1, <1>6, <2>1
    <3>4. QED
      BY <3>1, <3>2, <3>3
  <2>2. \A h : Asked(h)' <=> Asked(h)
    BY <1>1 DEF Asked
  <2>3. QED
    BY <1>1, <1>6, <1>7, <2>1, <2>2 DEF Complete
<1>17. /\ ~InsertThrows(Stream(x), HeaderOf(x)) /\ Insert(Stream(x), HeaderOf(x))
  BY <1>2 DEF Accept
<1>18. Known'
  <2>1. /\ DOMAIN lists \subseteq DOMAIN lists' /\ DOMAIN lists' \subseteq ToSet(CrcOrder)
        /\ \A c \in DOMAIN lists' : DOMAIN lists'[c].sensors # {}
        /\ Fresh(Stream(x), HeaderOf(x)) # << >> => Crc(HeaderOf(x)) \in DOMAIN lists'
    BY <1>17, InsertIs
  <2>2. ASSUME NEW k \in 1 .. n + 1, NEW y, y = (FileAt(k))',
               SensorsParse(Stream(y), HeaderOf(y).cnt + 1, HeaderOf(y)),
               Fresh(Stream(y), HeaderOf(y)) # << >>
        PROVE  Crc(HeaderOf(y)) \in DOMAIN lists'
    <3>1. CASE k \in 1 .. n
      <4>1. y = FileAt(k)
        BY <1>10, <2>2, <3>1
      <4>2. Crc(HeaderOf(y)) \in DOMAIN lists
        BY <1>3, <2>2, <3>1, <4>1 DEF IInv, Known
      <4>3. QED
        BY <2>1, <4>2
    <3>2. CASE k = n + 1
      BY <1>10, <2>1, <2>2, <3>2
    <3>3. QED
      BY <1>11, <3>1, <3>2
  <2>3. QED
    BY <1>7, <2>1, <2>2 DEF Known
<1>19. Decoded'
  <2>1. result = << >> /\ rows = << >>
    BY <1>1 DEF IInv, Decoded
  <2>2. result' = << >> /\ rows' = << >> /\ all' = all
    BY <1>1, <2>1
  <2>3. \E T : rows' \in Seq(T) /\ \A t \in T : DOMAIN t = DOMAIN all'
    BY <2>1, <2>2 DEF IInv, Decoded
  <2>4. result' \in Seq(ResultShape) /\ Len(result') = 0
    BY <2>2
  <2>5. QED
    BY <2>2, <2>3, <2>4 DEF Decoded
<1>20. Excused'
  <2>1. \A y \in refused : ~WellFormed(y)
    BY <1>1 DEF IInv, Excused
  <2>2. QED
    BY <1>1, <2>1 DEF IInv, Excused
<1>21. QED
  BY <1>12, <1>13, <1>14, <1>15, <1>16, <1>18, <1>19, <1>20 DEF IInv

\* What Reject and PassOver share: the next file's turn, or the end of the run;
\* a file refused is none as a glider writes it.
LEMMA SkipInv ==
    ASSUME IInv, pc = "first", i \in 1 .. N,
           \/ i' = i + 1 /\ pc' = pc
           \/ i' = i /\ pc' = "exit",
           UNCHANGED <<cmd, lists, indices, times, sizes, all, rows, result>>,
           \/ refused' = refused /\ ~Asked(HeaderOf(Input))
           \/ refused' = refused \cup {Input} /\ ~WellFormed(Input)
    PROVE  IInv'
<1>1. N' = N /\ N \in Nat /\ Input \in ToSet(cmd.input)
  BY InputIs DEF N, Input
<1>2. Control'
  BY <1>1 DEF IInv, Control, Steps
<1>3. Vectors' /\ Known'
  BY <1>1 DEF IInv, Vectors, Known, FileAt
<1>4. Unsorted'
  <2>1. Unsorted
    BY DEF IInv
  <2>2. ASSUME pc' = "first" PROVE i' = i + 1
    BY <2>2
  <2>3. \A k \in 1 .. Len(indices) : indices[k] \in 1 .. N /\ indices[k] < i
    BY <2>1, InputIs DEF Unsorted
  <2>4. \A k \in 1 .. Len(indices) : indices[k] < i + 1
    BY <1>1, <2>3
  <2>5. Len(indices) < i + 1
    BY <2>1, <1>1 DEF Unsorted
  <2>6. QED
    BY <2>1, <2>2, <2>4, <2>5 DEF Unsorted, FileAt
<1>5. Sorted'
  BY DEF Sorted
<1>6. Complete'
  <2>1. ASSUME NEW k \in 1 .. N, k < i + 1, Asked(HeaderOf(cmd.input[k])),
               cmd.input[k] \notin refused'
        PROVE  \E l \in 1 .. Len(indices) : indices[l] = k
    <3>1. k # i
      BY <2>1 DEF Input
    <3>2. k < i
      BY <1>1, <2>1, <3>1
    <3>3. cmd.input[k] \notin refused
      BY <2>1
    <3>4. QED
      BY <2>1, <3>2, <3>3 DEF IInv, Complete
  <2>2. \A h : Asked(h)' <=> Asked(h)
    BY DEF Asked
  <2>3. pc' = "first" => i' = i + 1
    OBVIOUS
  <2>4. pc' # "second"
    OBVIOUS
  <2>5. QED
    BY <1>1, <2>1, <2>2, <2>3, <2>4 DEF Complete
<1>7. Decoded'
  BY DEF IInv, Decoded
<1>8. Excused'
  <2>1. \A y \in refused : ~WellFormed(y)
    BY DEF IInv, Excused
  <2>2. refused' \subseteq ToSet(cmd.input)
    BY <1>1 DEF IInv, Excused
  <2>3. \A y \in refused' : ~WellFormed(y)
    BY <2>1
  <2>4. QED
    BY <2>2, <2>3 DEF Excused
<1>9. QED
  BY <1>2, <1>3, <1>4, <1>5, <1>6, <1>7, <1>8 DEF IInv

LEMMA RejectInv == IInv /\ Reject => IInv'
<1> SUFFICES ASSUME IInv, Reject PROVE IInv'
  OBVIOUS
<1>1. /\ pc = "first" /\ i \in 1 .. N
      /\ UNCHANGED <<cmd, lists, indices, times, sizes, all, rows, result>>
      /\ refused' = refused \cup {Input}
      /\ \/ i' = i + 1 /\ pc' = pc
         \/ i' = i /\ pc' = "exit"
  BY InputIs DEF Reject, GiveUp, accepted, written, IInv, Control, N
<1>2. Input \in Stored
  BY <1>1, InputIs DEF Input
<1>3. ~WellFormed(Input)
  BY <1>2, WellFormedReads DEF Reject, InsertThrows
<1>4. QED
  BY <1>1, <1>3, SkipInv

LEMMA PassOverInv == IInv /\ PassOver => IInv'
<1> SUFFICES ASSUME IInv, PassOver PROVE IInv'
  OBVIOUS
<1>1. /\ pc = "first" /\ i \in 1 .. N /\ ~Asked(HeaderOf(Input))
      /\ UNCHANGED <<cmd, lists, indices, times, sizes, all, rows, result>>
      /\ i' = i + 1 /\ pc' = pc
  BY InputIs DEF PassOver, accepted, written, IInv, Control, N
<1>2. Input \in Stored
  BY <1>1, InputIs DEF Input
<1>3. CASE IsEmpty(HeaderOf(Input))
  <2>1. ~WellFormed(Input) /\ refused' = refused \cup {Input}
    BY <1>2, <1>3, WellFormedReads DEF PassOver
  <2>2. QED
    BY <1>1, <2>1, SkipInv
<1>4. CASE ~IsEmpty(HeaderOf(Input))
  <2>1. refused' = refused
    BY <1>4 DEF PassOver
  <2>2. QED
    BY <1>1, <2>1, SkipInv
<1>5. QED
  BY <1>3, <1>4

-----------------------------------------------------------------------------
(* The sort *)

\* It loses no file.
LEMMA OrdersReachAll ==
    ASSUME NEW n \in Nat, NEW p \in Orders(n), NEW l \in 1 .. n
    PROVE  \E k \in 1 .. n : p[k] = l
<1>1. p \in Injection(1 .. n, 1 .. n)
  BY DEF Orders, Injection, IsInjective
<1>2. IsFiniteSet(1 .. n)
  BY FS_Interval
<1>3. p \in Surjection(1 .. n, 1 .. n)
  BY <1>1, <1>2, FS_Injection
<1>4. QED
  BY <1>3 DEF Surjection

\* The common columns leave what lists there are, and their lengths; so does the
\* filter.
LEMMA SameColumns ==
    ASSUME NEW m
    PROVE  LET r == Reindexed(m, CrcOrder)
           IN  /\ DOMAIN r = DOMAIN m
               /\ \A c \in DOMAIN m : DOMAIN r[c].sensors = DOMAIN m[c].sensors
BY DEF Reindexed

LEMMA SameLists ==
    ASSUME NEW m, NEW names
    PROVE  LET r == Reindexed(Keep(m, names), CrcOrder)
           IN  /\ DOMAIN r = DOMAIN m
               /\ \A c \in DOMAIN m : DOMAIN r[c].sensors = DOMAIN m[c].sensors
<1>1. PICK q : q = Keep(m, names)
  OBVIOUS
<1>2. DOMAIN q = DOMAIN m /\ \A c \in DOMAIN m : DOMAIN q[c].sensors = DOMAIN m[c].sensors
  BY <1>1 DEF Keep
<1>3. QED
  BY <1>1, <1>2, SameColumns

LEMMA SetUpInv == IInv /\ SetUp => IInv'
<1> SUFFICES ASSUME IInv, SetUp PROVE IInv'
  OBVIOUS
<1>1. /\ pc = "first" /\ i \in 1 .. N + 1 /\ ~(i <= N)
      /\ UNCHANGED <<cmd, times, rows, result, refused>>
  BY InputIs DEF SetUp, written, IInv, Control, N
<1>2. PICK n \in Nat : n = Len(indices)
  BY InputIs
<1>3. PICK p \in Orders(n) : /\ InSortOrder(p)
                             /\ indices' = Permuted(indices, p) /\ sizes' = Permuted(sizes, p)
  BY <1>2 DEF SetUp, Sort
<1>4. /\ p \in [1 .. n -> 1 .. n] /\ DOMAIN p = 1 .. n
      /\ \A k, l \in 1 .. n : k # l => p[k] # p[l]
  BY DEF Orders
<1>5. /\ indices \in Seq(1 .. N) /\ n <= N /\ times \in Seq(0 .. Latest) /\ sizes \in Seq(Nat)
      /\ Len(times) = n /\ Len(sizes) = n
      /\ \A k \in 1 .. n : sizes[k] = Content[FileAt(k)].size
  BY <1>2 DEF IInv, Vectors
<1>6. N' = N /\ N \in Nat
  BY <1>1, InputIs DEF N
<1>7. /\ indices' = [k \in 1 .. n |-> indices[p[k]]]
      /\ sizes' = [k \in 1 .. n |-> sizes[p[k]]]
  BY <1>3, <1>4 DEF Permuted
<1>8. /\ indices' \in Seq(1 .. N) /\ Len(indices') = n
      /\ \A k \in 1 .. n : indices'[k] = indices[p[k]]
  <2>1. PICK T : T = 1 .. N
    OBVIOUS
  <2>2. \A k \in 1 .. n : indices[p[k]] \in T
    BY <1>2, <1>4, <2>1, InputIs
  <2>3. indices' \in [1 .. n -> T]
    BY <1>7, <2>2
  <2>4. indices' \in Seq(T) /\ Len(indices') = n
    BY ONLY <2>3, n \in Nat
  <2>5. QED
    BY <1>7, <2>1, <2>4
<1>9. /\ sizes' \in Seq(Nat) /\ Len(sizes') = n
      /\ \A k \in 1 .. n : sizes'[k] = sizes[p[k]]
  <2>1. \A k \in 1 .. n : sizes[p[k]] \in Nat
    <3>1. sizes \in Seq(Nat) /\ Len(sizes) = n
      BY <1>5
    <3>2. \A j \in 1 .. n : sizes[j] \in Nat
      BY ONLY <3>1
    <3>3. QED
      BY <1>4, <3>2
  <2>2. sizes' \in [1 .. n -> Nat]
    BY <1>7, <2>1
  <2>3. sizes' \in Seq(Nat) /\ Len(sizes') = n
    BY ONLY <2>2, n \in Nat
  <2>4. QED
    BY <1>7, <2>3
<1>10. \A k \in 1 .. n : p[k] \in 1 .. n /\ (FileAt(k))' = FileAt(p[k])
  BY <1>1, <1>4, <1>8 DEF FileAt
<1>11. pc' \in {"second", "exit"} /\ i' \in 1 .. N + 1
  BY <1>1, <1>6 DEF SetUp
<1>12. Control'
  BY <1>1, <1>6, <1>11 DEF IInv, Control, Steps
<1>13. Vectors'
  <2>1. \A k \in 1 .. n : sizes'[k] = Content[(FileAt(k))'].size
    BY <1>5, <1>9, <1>10
  <2>2. QED
    BY <1>1, <1>5, <1>6, <1>8, <1>9, <2>1 DEF Vectors
<1>14. Unsorted'
  BY <1>11 DEF Unsorted
<1>15. Sorted'
  <2>1. /\ \A k \in 1 .. n : times[k] = FileOpenTime(HeaderOf(FileAt(k)))
        /\ \A k, l \in 1 .. n : k < l => indices[k] < indices[l]
    BY <1>1, <1>2 DEF IInv, Unsorted
  <2>2. ASSUME NEW k \in 1 .. n, NEW l \in 1 .. n, k # l
        PROVE  indices[k] # indices[l]
    <3>1. indices[k] \in 1 .. N /\ indices[l] \in 1 .. N
      BY <1>2, InputIs
    <3>2. k < l \/ l < k
      BY <2>2
    <3>3. QED
      BY <1>6, <2>1, <3>1, <3>2
  <2>3. ASSUME NEW k \in 1 .. n, NEW l \in 1 .. n, k < l
        PROVE  Before(k, l)'
    <3>1. PICK a \in 1 .. n : a = p[k]
      BY <1>10
    <3>2. PICK b \in 1 .. n : b = p[l]
      BY <1>10
    <3>3. a # b
      BY <1>4, <2>3, <3>1, <3>2
    <3>4. /\ indices'[k] = indices[a] /\ indices'[l] = indices[b]
          /\ (FileAt(k))' = FileAt(a) /\ (FileAt(l))' = FileAt(b)
      BY <1>8, <1>10, <3>1, <3>2
    <3>5. /\ cmd.sort = "none" => p[k] < p[l]
          /\ cmd.sort = "header_time" => times[p[k]] <= times[p[l]]
          /\ cmd.sort = "lexicographic" =>
                   cmd.input[indices[p[k]]] <= cmd.input[indices[p[l]]]
      BY <1>3, <1>4, <2>3 DEF InSortOrder
    <3>6. cmd.sort = "none" => indices[a] < indices[b]
      BY <2>1, <3>1, <3>2, <3>5
    <3>7. cmd.sort = "lexicographic" => FileAt(a) <= FileAt(b)
      BY <3>1, <3>2, <3>5 DEF FileAt
    <3>8. cmd.sort = "header_time" =>
              FileOpenTime(HeaderOf(FileAt(a))) <= FileOpenTime(HeaderOf(FileAt(b)))
      BY <2>1, <3>1, <3>2, <3>5
    <3>9. indices[a] # indices[b]
      BY <2>2, <3>3
    <3>10. QED
      BY <1>1, <3>4, <3>6, <3>7, <3>8, <3>9 DEF Before
  <2>4. QED
    BY <1>8, <2>3 DEF Sorted
<1>16. Complete'
  <2>1. ASSUME NEW k \in 1 .. N, Asked(HeaderOf(cmd.input[k])), cmd.input[k] \notin refused
        PROVE  \E l \in 1 .. n : indices'[l] = k
    <3>1. k < i
      BY <1>1, <1>6
    <3>2. PICK l \in 1 .. n : indices[l] = k
      BY <1>1, <1>2, <2>1, <3>1 DEF IInv, Complete
    <3>3. PICK j \in 1 .. n : p[j] = l
      BY OrdersReachAll
    <3>4. QED
      BY <1>8, <3>2, <3>3
  <2>2. \A h : Asked(h)' <=> Asked(h)
    BY <1>1 DEF Asked
  <2>3. QED
    BY <1>1, <1>6, <1>8, <1>11, <2>1, <2>2 DEF Complete
<1>17. Known'
  <2>1. /\ DOMAIN lists' = DOMAIN lists
        /\ \A c \in DOMAIN lists : DOMAIN lists'[c].sensors = DOMAIN lists[c].sensors
    <3>1. PICK m : m = Keep(lists, cmd.keep)
      OBVIOUS
    <3>2. CASE SizesAgree(m, CrcOrder)
      <4>1. lists' = Reindexed(Keep(lists, cmd.keep), CrcOrder)
        BY <3>1, <3>2 DEF SetUp
      <4>2. QED
        BY <4>1, SameLists
    <3>3. CASE ~SizesAgree(m, CrcOrder)
      BY <3>1, <3>3 DEF SetUp
    <3>4. QED
      BY <3>2, <3>3
  <2>2. ASSUME NEW k \in 1 .. n, NEW y, y = (FileAt(k))',
               SensorsParse(Stream(y), HeaderOf(y).cnt + 1, HeaderOf(y)),
               Fresh(Stream(y), HeaderOf(y)) # << >>
        PROVE  Crc(HeaderOf(y)) \in DOMAIN lists'
    <3>1. PICK a \in 1 .. n : a = p[k]
      BY <1>10
    <3>2. y = FileAt(a)
      BY <1>10, <2>2, <3>1
    <3>3. Crc(HeaderOf(y)) \in DOMAIN lists
      BY <1>2, <2>2, <3>2 DEF IInv, Known
    <3>4. QED
      BY <2>1, <3>3
  <2>3. DOMAIN lists \subseteq ToSet(CrcOrder) /\ \A d \in DOMAIN lists : DOMAIN lists[d].sensors # {}
    BY DEF IInv, Known
  <2>4. QED
    BY <1>8, <2>1, <2>2, <2>3 DEF Known
<1>18. Decoded'
  <2>1. result' = << >> /\ rows' = << >>
    BY <1>1 DEF IInv, Decoded
  <2>2. rows' \in Seq({}) /\ \A t \in {} : DOMAIN t = DOMAIN all'
    BY <2>1
  <2>3. \E T : rows' \in Seq(T) /\ \A t \in T : DOMAIN t = DOMAIN all'
    BY <2>2
  <2>4. result' \in Seq(ResultShape) /\ Len(result') = 0
    BY <2>1
  <2>5. \A r \in 1 .. Len(result') : FALSE
    BY <2>4
  <2>6. QED
    BY <2>1, <2>3, <2>4, <2>5 DEF Decoded
<1>19. Excused'
  <2>1. \A y \in refused : ~WellFormed(y)
    BY <1>1 DEF IInv, Excused
  <2>2. QED
    BY <1>1, <2>1 DEF IInv, Excused
<1>20. QED
  BY <1>12, <1>13, <1>14, <1>15, <1>16, <1>17, <1>18, <1>19 DEF IInv

LEMMA StartListInv == IInv /\ StartList => IInv'
<1> SUFFICES ASSUME IInv, StartList PROVE IInv'
  OBVIOUS
<1>1. /\ pc = "first" /\ pc' = "list" /\ i' = 1
      /\ UNCHANGED <<cmd, lists, indices, times, sizes, all, rows, result, refused>>
  BY DEF StartList, accepted, written
<1>2. N' = N /\ N \in Nat
  BY <1>1, InputIs DEF N
<1>3. Control'
  BY <1>1, <1>2 DEF IInv, Control, Steps
<1>4. Vectors' /\ Known'
  BY <1>1, <1>2 DEF IInv, Vectors, Known, FileAt
<1>5. Unsorted' /\ Sorted' /\ Complete'
  BY <1>1 DEF Unsorted, Sorted, Complete
<1>6. Decoded'
  BY <1>1 DEF IInv, Decoded
<1>7. Excused'
  <2>1. \A y \in refused : ~WellFormed(y)
    BY <1>1 DEF IInv, Excused
  <2>2. QED
    BY <1>1, <2>1 DEF IInv, Excused
<1>8. QED
  BY <1>3, <1>4, <1>5, <1>6, <1>7 DEF IInv

-----------------------------------------------------------------------------
(* The steps of the second pass *)

LEMMA AtIs ==
    ASSUME IInv, pc \in {"second", "list"}, i <= Len(indices)
    PROVE  /\ i \in 1 .. Len(indices) /\ i + 1 \in 1 .. N + 1 /\ At = FileAt(i)
           /\ At \in Stored /\ At \in ToSet(cmd.input)
<1>1. i \in 1 .. N + 1 /\ Len(indices) <= N /\ N \in Nat /\ Len(indices) \in Nat
  BY InputIs DEF IInv, Control, Vectors
<1>2. i \in 1 .. Len(indices) /\ i + 1 \in 1 .. N + 1
  BY <1>1
<1>3. At = FileAt(i)
  BY DEF At, FileAt
<1>4. indices[i] \in 1 .. N
  BY <1>2, InputIs
<1>5. QED
  BY <1>2, <1>3, <1>4, InputIs DEF FileAt

\* Unless it is read, a file is passed over, or the run ends; one refused that is
\* as a glider writes it has no list in the map.
LEMMA NotReadInv ==
    ASSUME IInv, pc \in {"second", "list"}, i <= Len(indices),
           \/ i' = i + 1 /\ pc' = pc
           \/ i' = i /\ pc' = "exit",
           UNCHANGED <<cmd, lists, indices, times, sizes, all, rows, result>>,
           \/ refused' = refused
           \/ /\ refused' = refused \cup {At}
              /\ WellFormed(At) => Crc(HeaderOf(At)) \notin DOMAIN lists
    PROVE  IInv'
<1>1. N' = N /\ pc # "first" /\ pc' # "first"
  BY DEF N
<1>2. Control'
  BY <1>1, AtIs DEF IInv, Control, Steps
<1>3. Vectors' /\ Known'
  BY <1>1 DEF IInv, Vectors, Known, FileAt
<1>4. Unsorted'
  BY <1>1 DEF Unsorted
<1>5. Sorted'
  <2>1. pc' = "second" => pc = "second"
    OBVIOUS
  <2>2. QED
    BY <2>1 DEF IInv, Sorted, Before, FileAt
<1>6. Complete'
  <2>1. \A h : Asked(h)' <=> Asked(h)
    BY DEF Asked
  <2>2. pc' = "second" => pc = "second"
    OBVIOUS
  <2>3. \A k : cmd.input[k] \notin refused' => cmd.input[k] \notin refused
    OBVIOUS
  <2>4. QED
    BY <1>1, <2>1, <2>2, <2>3 DEF IInv, Complete
<1>7. Decoded'
  <2>1. pc' \in {"first", "list"} => pc \in {"first", "list"}
    OBVIOUS
  <2>2. QED
    BY <2>1 DEF IInv, Decoded
<1>8. Excused'
  <2>1. refused' \subseteq ToSet(cmd.input)
    BY AtIs DEF IInv, Excused
  <2>2. ASSUME NEW x \in refused', WellFormed(x)
        PROVE  /\ \E k \in 1 .. Len(indices) : FileAt(k) = x
               /\ Crc(HeaderOf(x)) \notin DOMAIN lists
    <3>1. CASE x \in refused
      BY <2>2, <3>1 DEF IInv, Excused
    <3>2. CASE x = At
      BY <2>2, <3>2, AtIs DEF IInv, Excused
    <3>3. QED
      BY <3>1, <3>2
  <2>3. \A k : (FileAt(k))' = FileAt(k)
    BY DEF FileAt
  <2>4. \A x \in refused' : WellFormed(x)' => WellFormed(x)
    BY DEF WellFormed
  <2>5. QED
    BY <1>1, <2>1, <2>2, <2>3 DEF Excused
<1>9. QED
  BY <1>2, <1>3, <1>4, <1>5, <1>6, <1>7, <1>8 DEF IInv

LEMMA UnreadableInv == IInv /\ Unreadable => IInv'
<1> SUFFICES ASSUME IInv, Unreadable PROVE IInv'
  OBVIOUS
<1>1. /\ pc = "second" /\ i <= Len(indices)
      /\ UNCHANGED <<cmd, lists, indices, times, sizes, all, rows, result>>
      /\ refused' = refused \cup {At}
      /\ \/ i' = i + 1 /\ pc' = pc
         \/ i' = i /\ pc' = "exit"
  BY DEF Unreadable, InSecond, GiveUp, accepted, written
<1>2. At \in Stored
  BY <1>1, AtIs
<1>3. WellFormed(At) => Crc(HeaderOf(At)) \notin DOMAIN lists
  BY <1>2, WellFormedReads DEF Unreadable, Decodable
<1>4. QED
  BY <1>1, <1>3, NotReadInv

LEMMA ListFileInv == IInv /\ ListFile => IInv'
<1> SUFFICES ASSUME IInv, ListFile PROVE IInv'
  OBVIOUS
<1>1. /\ pc = "list" /\ i <= Len(indices)
      /\ UNCHANGED <<cmd, lists, indices, times, sizes, all, rows, result>>
      /\ i' = i + 1 /\ pc' = pc
  BY DEF ListFile, accepted, written
<1>2. CASE Crc(HeaderOf(At)) \in DOMAIN lists
  <2>1. refused' = refused
    BY <1>2 DEF ListFile, InMap
  <2>2. QED
    BY <1>1, <2>1, NotReadInv
<1>3. CASE Crc(HeaderOf(At)) \notin DOMAIN lists
  <2>1. refused' = refused \cup {At}
    BY <1>3 DEF ListFile, InMap
  <2>2. QED
    BY <1>1, <1>3, <2>1, NotReadInv
<1>4. QED
  BY <1>2, <1>3

LEMMA ListEmptyInv == IInv /\ ListEmpty => IInv'
<1> SUFFICES ASSUME IInv, ListEmpty PROVE IInv'
  OBVIOUS
<1>1. /\ pc = "list" /\ i <= Len(indices)
      /\ UNCHANGED <<cmd, lists, indices, times, sizes, all, rows, result>>
      /\ i' = i /\ pc' = "exit" /\ refused' = refused \cup {At}
      /\ Crc(HeaderOf(At)) \notin DOMAIN lists
  BY DEF ListEmpty, InMap, accepted, written
<1>2. QED
  BY <1>1, NotReadInv

LEMMA ConvertInv == IInv /\ Convert => IInv'
<1> SUFFICES ASSUME IInv, Convert PROVE IInv'
  OBVIOUS
<1>1. /\ pc = "second" /\ pc' = pc /\ i <= Len(indices) /\ i' = i + 1
      /\ UNCHANGED <<cmd, lists, indices, times, sizes, all, refused>>
  BY DEF Convert, InSecond, accepted
<1>2. /\ i \in 1 .. Len(indices) /\ At \in Stored /\ i + 1 \in 1 .. N + 1
  BY <1>1, AtIs
<1>3. N' = N
  BY <1>1 DEF N
<1>4. PICK n \in 0 .. (IF all = << >> THEN 0 ELSE Content[At].records) :
          /\ rows' = rows \o [k \in 1 .. (IF n > KStart THEN n - KStart ELSE 0) |->
                                 Record(At, KStart + k)]
          /\ result' = Append(result, [at |-> i, nBytes |-> sizes[i], records |-> n])
  BY DEF Convert
<1>5. n \in Nat
  <2>1. IsContent(Content[At])
    BY <1>2, StoredAssumption
  <2>2. Content[At].records \in Nat
    BY <2>1 DEF IsContent
  <2>3. QED
    BY <2>2
<1>6. KStart \in {0, 1}
  BY DEF KStart
<1>7. Control'
  BY <1>1, <1>2, <1>3 DEF IInv, Control, Steps
<1>8. Vectors' /\ Known'
  BY <1>1, <1>3 DEF IInv, Vectors, Known, FileAt
<1>9. Unsorted' /\ Sorted'
  BY <1>1 DEF IInv, Unsorted, Sorted, Before, FileAt
<1>10. Complete'
  <2>1. \A h : Asked(h)' <=> Asked(h)
    BY <1>1 DEF Asked
  <2>2. QED
    BY <1>1, <1>3, <2>1 DEF IInv, Complete
<1>11. Excused'
  BY <1>1 DEF IInv, Excused, FileAt
<1>12. Decoded'
  <2>1. PICK m \in Nat : m = IF n > KStart THEN n - KStart ELSE 0
    <3>1. PICK d : d = KStart /\ d \in {0, 1}
      BY <1>6
    <3>2. (IF n > d THEN n - d ELSE 0) \in Nat
      BY <1>5, <3>1
    <3>3. QED
      BY <3>1, <3>2
  <2>2. PICK T : rows \in Seq(T) /\ \A t \in T : DOMAIN t = DOMAIN all
    BY DEF IInv, Decoded
  <2> DEFINE new == [k \in 1 .. m |-> Record(At, KStart + k)]
             U == T \cup {Record(At, KStart + k) : k \in 1 .. m}
  <2>3. rows' = rows \o new
    BY <1>4, <2>1
  <2>4. new \in Seq(U) /\ rows \in Seq(U)
    <3>1. new \in [1 .. m -> U]
      OBVIOUS
    <3>2. T \subseteq U
      OBVIOUS
    <3> HIDE DEF U, new
    <3>3. new \in Seq(U)
      BY <3>1
    <3>4. rows \in Seq(U)
      BY <2>2, <3>2
    <3>5. QED
      BY <3>3, <3>4
  <2>5. \A t \in U : DOMAIN t = DOMAIN all
    <3>1. \A k : DOMAIN Record(At, KStart + k) = DOMAIN all
      BY DEF Record
    <3>2. QED
      BY <2>2, <3>1
  <2> HIDE DEF new, U
  <2>6. rows' \in Seq(U)
    BY <2>3, <2>4
  <2>7. \E V : rows' \in Seq(V) /\ \A t \in V : DOMAIN t = DOMAIN all'
    BY <1>1, <2>5, <2>6
  <2>8. /\ result \in Seq(ResultShape) /\ \A r \in 1 .. Len(result) :
               result[r].at \in 1 .. Len(indices) /\ result[r].nBytes = sizes[result[r].at]
    BY DEF IInv, Decoded
  <2>9. PICK z : z = [at |-> i, nBytes |-> sizes[i], records |-> n]
    OBVIOUS
  <2>10. z \in ResultShape /\ z.at = i /\ z.nBytes = sizes[i]
    <3>1. sizes[i] \in Nat /\ i \in Nat
      BY <1>2 DEF IInv, Vectors
    <3>2. QED
      BY <1>5, <2>9, <3>1 DEF ResultShape
  <2>11. PICK j \in Nat : j = Len(result)
    BY <2>8
  <2>12. /\ result' \in Seq(ResultShape) /\ Len(result') = j + 1
         /\ result'[j + 1] = z /\ \A r \in 1 .. j : result'[r] = result[r]
    BY <1>4, <2>8, <2>9, <2>10, <2>11
  <2>13. \A r \in 1 .. j + 1 : r \in 1 .. j \/ r = j + 1
    OBVIOUS
  <2>14. \A r \in 1 .. j + 1 :
            result'[r].at \in 1 .. Len(indices) /\ result'[r].nBytes = sizes[result'[r].at]
    BY <1>2, <2>8, <2>10, <2>11, <2>12, <2>13
  <2>15. pc' \notin {"first", "list"}
    BY <1>1
  <2>16. QED
    BY <1>1, <2>7, <2>12, <2>14, <2>15 DEF Decoded
<1>13. QED
  BY <1>7, <1>8, <1>9, <1>10, <1>11, <1>12 DEF IInv

LEMMA PrintAllInv == IInv /\ PrintAll => IInv'
<1> SUFFICES ASSUME IInv, PrintAll PROVE IInv'
  OBVIOUS
<1>1. /\ pc = "list" /\ pc' \in {"done", "exit"}
      /\ UNCHANGED <<cmd, i, indices, times, sizes, rows, result, refused>>
  BY DEF PrintAll, accepted, written
<1>2. N' = N
  BY <1>1 DEF N
<1>3. /\ DOMAIN lists' = DOMAIN lists
      /\ \A c \in DOMAIN lists : DOMAIN lists'[c].sensors = DOMAIN lists[c].sensors
  <2>1. CASE SizesAgree(lists, CrcOrder)
    BY <2>1, SameColumns DEF PrintAll
  <2>2. CASE ~SizesAgree(lists, CrcOrder)
    BY <2>2 DEF PrintAll
  <2>3. QED
    BY <2>1, <2>2
<1>4. Control'
  BY <1>1, <1>2 DEF IInv, Control, Steps
<1>5. Vectors' /\ Known'
  BY <1>1, <1>2, <1>3 DEF IInv, Vectors, Known, FileAt
<1>6. Unsorted' /\ Sorted' /\ Complete'
  BY <1>1 DEF Unsorted, Sorted, Complete
<1>7. Decoded'
  <2>1. result' = << >> /\ rows' = << >>
    BY <1>1 DEF IInv, Decoded
  <2>2. rows' \in Seq({}) /\ \A t \in {} : DOMAIN t = DOMAIN all'
    BY <2>1
  <2>3. \E T : rows' \in Seq(T) /\ \A t \in T : DOMAIN t = DOMAIN all'
    BY <2>2
  <2>4. result' \in Seq(ResultShape) /\ Len(result') = 0
    BY <2>1
  <2>5. \A r \in 1 .. Len(result') : FALSE
    BY <2>4
  <2>6. QED
    BY <2>1, <2>3, <2>4, <2>5 DEF Decoded
<1>8. Excused'
  BY <1>1, <1>3 DEF IInv, Excused, FileAt
<1>9. QED
  BY <1>4, <1>5, <1>6, <1>7, <1>8 DEF IInv

LEMMA StepInv == IInv /\ [Next]_vars => IInv'
<1> SUFFICES ASSUME IInv, [Next]_vars PROVE IInv'
  OBVIOUS
<1>1. CASE Accept
  BY <1>1, AcceptInv
<1>2. CASE Reject
  BY <1>2, RejectInv
<1>3. CASE PassOver
  BY <1>3, PassOverInv
<1>4. CASE SizeThrows
  BY <1>4, EndInv DEF SizeThrows
<1>5. CASE OpenFails
  BY <1>5, EndInv DEF OpenFails
<1>6. CASE NoFiles
  BY <1>6, EndInv DEF NoFiles
<1>7. CASE SetUp
  BY <1>7, SetUpInv
<1>8. CASE StartList
  BY <1>8, StartListInv
<1>9. CASE Unreadable
  BY <1>9, UnreadableInv
<1>10. CASE Convert
  BY <1>10, ConvertInv
<1>11. CASE LoadThrows
  BY <1>11, EndInv DEF LoadThrows
<1>12. CASE Finish
  BY <1>12, EndInv DEF Finish
<1>13. CASE ListFile
  BY <1>13, ListFileInv
<1>13a. CASE ListEmpty
  BY <1>13a, ListEmptyInv
<1>14. CASE PrintAll
  BY <1>14, PrintAllInv
<1>15. CASE Exited \/ UNCHANGED vars
  <2>1. pc' = pc /\ UNCHANGED <<cmd, i, lists, accepted, all, written, refused>>
    BY <1>15 DEF Exited, vars, accepted, written
  <2>2. QED
    BY <2>1, EndInv
<1>16. QED
  BY <1>1, <1>2, <1>3, <1>4, <1>5, <1>6, <1>7, <1>8, <1>9, <1>10, <1>11, <1>12, <1>13,
     <1>13a, <1>14, <1>15 DEF Next

THEOREM Invariance == Spec => []IInv
BY InitInv, StepInv, PTL DEF Spec

-----------------------------------------------------------------------------
(* The lists of the map *)

Entry == [name: STRING, size: Nat]

\* A list that parses is one of sensors.
LEMMA OwnTyped ==
    ASSUME NEW x \in Stored, SensorsParse(Stream(x), HeaderOf(x).cnt + 1, HeaderOf(x))
    PROVE  SensorsOf(Stream(x), HeaderOf(x).cnt + 1, HeaderOf(x)) \in Seq(Entry)
<1>1. PICK h : h = HeaderOf(x)
  OBVIOUS
<1>2. PICK T : T = ToSet(Stream(x))
  OBVIOUS
<1>3. PICK s \in Seq(T) : s = Stream(x)
  BY <1>2, StreamIs
<1>4. IsHeader(s, h)
  BY <1>1, <1>3, StreamIs, HeaderIs DEF HeaderOf
<1>5. PICK p \in Nat : p = h.cnt + 1 /\ p >= 1
  BY <1>4 DEF IsHeader
<1>6. /\ \A k \in 1 .. Len(s) : s[k].key = "s" => s[k].value \in [name: STRING, size: Nat, used: BOOLEAN]
      /\ \A k \in 1 .. Len(s) : s[k].key = "total_num_sensors" => s[k].value \in Int
  <2>1. \A line \in ToSet(s) :
            /\ line.key = "s" => line.value \in [name: STRING, size: Nat, used: BOOLEAN]
            /\ line.key = "total_num_sensors" => line.value \in Int
    BY <1>3, StoredAssumption DEF IsContent, Stream
  <2>2. \A k \in 1 .. Len(s) : s[k] \in ToSet(s)
    BY DEF ToSet
  <2>3. QED
    BY <2>1, <2>2
<1>7. NSensors(h) \in Int
  <2>1. "total_num_sensors" \in DOMAIN h.records => h.records["total_num_sensors"] \in Int
    BY <1>4, <1>6 DEF IsHeader
  <2>2. QED
    BY <2>1 DEF NSensors, FindInt
<1>8. PICK n \in Int : n = NSensors(h)
  BY <1>7
<1>9. CASE Factored(h)
  <2>1. SensorsOf(s, p, h) = << >>
    BY <1>9 DEF SensorsOf
  <2>2. << >> \in Seq(Entry)
    OBVIOUS
  <2>3. QED
    BY <1>1, <1>3, <1>5, <2>1, <2>2
<1>10. CASE ~Factored(h)
  <2>1. \A k \in 1 .. n : p + k - 1 <= Len(s) /\ s[p + k - 1].key = "s"
    BY <1>1, <1>3, <1>5, <1>8, <1>10 DEF SensorsParse
  <2>2. PICK lines : lines = SubSeq(s, p, p + n - 1)
    OBVIOUS
  <2>3. SensorsOf(s, p, h) = SensorsIn(lines)
    BY <1>8, <1>10, <2>2 DEF SensorsOf, Announced
  <2>4. Len(lines) \in Nat /\ \A k \in 1 .. Len(lines) : k \in 1 .. n /\ lines[k] = s[p + k - 1]
    <3>1. CASE n < 1
      <4>1. lines = << >>
        BY <1>5, <2>2, <3>1
      <4>2. QED
        BY <4>1
    <3>2. CASE n >= 1
      <4>1. p + n - 1 <= Len(s)
        BY <2>1, <3>2
      <4>2. PICK q \in Int : q = p + n - 1
        OBVIOUS
      <4>3. lines = SubSeq(s, p, q)
        BY <2>2, <4>2
      <4>4. p >= 1 /\ q <= Len(s) /\ p <= q /\ q - p + 1 = n
        BY <1>5, <3>2, <4>1, <4>2
      <4>5. \A k \in p .. q : s[k] \in T
        BY <4>4
      <4>6. Len(lines) = n /\ \A k \in 1 .. n : lines[k] = s[p + k - 1]
        BY <4>3, <4>4, <4>5, SubSeqProperties
      <4>7. QED
        BY <3>2, <4>6
    <3>3. QED
      BY <3>1, <3>2
  <2>5. \A k \in 1 .. Len(lines) : lines[k].value \in [name: STRING, size: Nat, used: BOOLEAN]
    <3>1. TAKE k \in 1 .. Len(lines)
    <3>2. k \in 1 .. n
      BY <2>4
    <3>3. PICK j \in Int : j = p + k - 1
      OBVIOUS
    <3>4. j \in 1 .. Len(s) /\ s[j].key = "s"
      BY <1>5, <2>1, <3>2, <3>3
    <3>5. lines[k] = s[j]
      BY <2>4, <3>3
    <3>6. QED
      BY <1>6, <3>4, <3>5
  <2>6. EntriesOf(lines) \subseteq Entry
    <3>1. \A k \in 1 .. Len(lines) : lines[k].value.name \in STRING /\ lines[k].value.size \in Nat
      BY <2>5
    <3>2. QED
      BY <3>1 DEF EntriesOf, Entry
  <2>7. SensorsIn(lines) \in Seq(EntriesOf(lines))
    BY <2>4, SensorsInUse
  <2>8. SensorsIn(lines) \in Seq(Entry)
    BY <2>6, <2>7
  <2>9. QED
    BY <1>1, <1>3, <1>5, <2>3, <2>8
<1>11. QED
  BY <1>9, <1>10

FreshOf(y) == Fresh(Stream(y), HeaderOf(y))

\* The file y brings a list for the CRC c.
Brings(y, c) ==
    /\ y \in Stored /\ Crc(HeaderOf(y)) = c
    /\ SensorsParse(Stream(y), HeaderOf(y).cnt + 1, HeaderOf(y))
    /\ FreshOf(y) # << >>

\* So is a list taken from the cache.
LEMMA FreshTyped ==
    ASSUME NEW y, NEW c, Brings(y, c)
    PROVE  FreshOf(y) \in Seq(Entry)
<1>1. PICK own : own = SensorsOf(Stream(y), HeaderOf(y).cnt + 1, HeaderOf(y)) /\ own \in Seq(Entry)
  BY OwnTyped DEF Brings
<1>2. FreshOf(y) = IF own # << >> THEN own
                   ELSE IF c \in DOMAIN Cache THEN Cache[c] ELSE << >>
  BY <1>1 DEF FreshOf, Fresh, Brings
<1>3. c \in DOMAIN Cache => Cache[c] \in Seq(Entry)
  BY CacheAssumption DEF Entry
<1>4. << >> \in Seq(Entry)
  OBVIOUS
<1>5. QED
  BY <1>1, <1>2, <1>3, <1>4

NamesOf(list) == {s.name : s \in ToSet(list)}

\* What setUpForData leaves: every sensor asked for by name, and no other, has a
\* column, the one of its name and size, and no two columns have one name.  Each
\* list has the names of the file that brought it.
LaidOut(m, cols, names) ==
    /\ cols \in Seq(SensorType)
    /\ \A j, k \in 1 .. Len(cols) : j # k => cols[j].name # cols[k].name
    /\ \A j \in 1 .. Len(cols) : names = {} \/ cols[j].name \in names
    /\ \A c \in DOMAIN m :
          /\ m[c] \in ListType
          /\ \A b \in DOMAIN m[c].sensors :
                /\ m[c].sensors[b].keep <=> names = {} \/ m[c].sensors[b].name \in names
                /\ m[c].sensors[b].keep => AtColumn(cols, m[c].sensors[b])
          /\ \E y : Brings(y, c) /\ NamesOf(m[c].sensors) = NamesOf(FreshOf(y))

\* The lists as they were read.
AsRead(m) == \A c \in DOMAIN m : \E y : Brings(y, c) /\ m[c] = Raw(FreshOf(y))

\* They are lists of the map, all of them kept.
LEMMA AsReadIs ==
    ASSUME NEW m, AsRead(m), DOMAIN m \subseteq ToSet(CrcOrder)
    PROVE  /\ AreLists(m, ToSet(CrcOrder))
           /\ \A c \in DOMAIN m :
                 /\ \A b \in DOMAIN m[c].sensors : m[c].sensors[b].keep
                 /\ \E y : Brings(y, c) /\ NamesOf(m[c].sensors) = NamesOf(FreshOf(y))
<1>1. ASSUME NEW c \in DOMAIN m
      PROVE  /\ m[c] \in ListType /\ \A b \in DOMAIN m[c].sensors : m[c].sensors[b].keep
             /\ \E y : Brings(y, c) /\ NamesOf(m[c].sensors) = NamesOf(FreshOf(y))
  <2>1. PICK y : Brings(y, c) /\ m[c] = Raw(FreshOf(y))
    BY DEF AsRead
  <2>2. PICK list : list = FreshOf(y)
    OBVIOUS
  <2>3. list \in Seq([name: STRING, size: Nat])
    BY <2>1, <2>2, FreshTyped DEF Entry
  <2>4. PICK l : l = Raw(list)
    OBVIOUS
  <2>5. /\ l \in ListType /\ DOMAIN l.sensors = DOMAIN list
        /\ \A k \in DOMAIN list : l.sensors[k].keep /\ l.sensors[k].name = list[k].name
    BY <2>3, <2>4, RawIs
  <2>6. NamesOf(l.sensors) = NamesOf(list)
    <3>1. ToSet(l.sensors) = {l.sensors[k] : k \in DOMAIN list} /\ ToSet(list) = {list[k] : k \in DOMAIN list}
      BY <2>5 DEF ToSet
    <3>2. QED
      BY <2>5, <3>1 DEF NamesOf
  <2>7. QED
    BY <2>1, <2>2, <2>4, <2>5, <2>6
<1>2. QED
  BY <1>1 DEF AreLists

\* The order of the map has every CRC.
LEMMA CrcsInOrder == IsOrder(CrcOrder, ToSet(CrcOrder))
BY OrderAssumption DEF IsOrder, ToSet

\* No two columns have one name.
LEMMA ColumnsApart ==
    ASSUME NEW m, AreLists(m, ToSet(CrcOrder)), NEW cols, cols = CommonList(m, CrcOrder)
    PROVE  \A j, k \in 1 .. Len(cols) : j # k => cols[j].name # cols[k].name
<1>1. PICK V \in Seq(SensorType) : V = Visited(m, CrcOrder)
  BY VisitedIs, CrcsInOrder
<1>2. ColumnsOf(V, Len(V), cols)
  BY <1>1, CommonIs DEF CommonList
<1>3. PICK x \in Nat : x = Len(cols)
  BY <1>2 DEF ColumnsOf
<1>4. PICK at \in [1 .. x -> 1 .. Len(V)] :
          /\ \A j \in 1 .. x : FirstAt(V, at[j], cols[j].name)
          /\ \A j, k \in 1 .. x : j < k => at[j] < at[k]
  BY <1>2, <1>3 DEF ColumnsOf
<1>5. ASSUME NEW j \in 1 .. x, NEW k \in 1 .. x, j < k
      PROVE  cols[j].name # cols[k].name
  <2>1. at[j] \in 1 .. at[k] - 1
    BY <1>4, <1>5
  <2>2. V[at[j]].keep /\ V[at[j]].name = cols[j].name
    BY <1>4 DEF FirstAt
  <2>3. V[at[j]].keep => V[at[j]].name # cols[k].name
    BY <1>4, <2>1 DEF FirstAt
  <2>4. QED
    BY <2>2, <2>3
<1>6. \A j, k \in 1 .. x : j # k => j < k \/ k < j
  OBVIOUS
<1>7. QED
  BY <1>3, <1>5, <1>6

\* -k and setUpForData, of lists as they were read, leave them laid out.
LEMMA SetUpLays ==
    ASSUME NEW m, AsRead(m), DOMAIN m \subseteq ToSet(CrcOrder), NEW names,
           NEW q, q = Keep(m, names), SizesAgree(q, CrcOrder),
           NEW r, r = Reindexed(q, CrcOrder), NEW cols, cols = CommonList(q, CrcOrder)
    PROVE  LaidOut(r, cols, names)
<1>1. PICK crcs : crcs = ToSet(CrcOrder)
  OBVIOUS
<1>2. IsOrder(CrcOrder, crcs)
  BY <1>1, CrcsInOrder
<1>3. /\ AreLists(m, crcs)
      /\ \A c \in DOMAIN m :
            /\ \A b \in DOMAIN m[c].sensors : m[c].sensors[b].keep
            /\ \E y : Brings(y, c) /\ NamesOf(m[c].sensors) = NamesOf(FreshOf(y))
  BY <1>1, AsReadIs
<1>4. /\ AreLists(q, crcs) /\ DOMAIN q = DOMAIN m
      /\ \A c \in DOMAIN m :
            /\ SameSensors(m[c], q[c])
            /\ \A k \in DOMAIN m[c].sensors :
                  q[c].sensors[k].keep <=> names = {} \/ m[c].sensors[k].name \in names
  <2>1. \A c \in DOMAIN m : \A k \in DOMAIN m[c].sensors : m[c].sensors[k].keep
    BY <1>3
  <2>2. QED
    BY <1>3, <2>1, KeepIs
<1>5. /\ AreLists(r, crcs) /\ DOMAIN r = DOMAIN q /\ cols \in Seq(SensorType)
      /\ \A c \in DOMAIN q :
            /\ SameSensors(q[c], r[c]) /\ r[c].nToStore = Len(cols)
            /\ \A k \in DOMAIN q[c].sensors :
                  /\ r[c].sensors[k].keep = q[c].sensors[k].keep
                  /\ r[c].sensors[k].keep => AtColumn(cols, r[c].sensors[k])
  BY <1>2, <1>4, ReindexedIs
<1>6. \A j, k \in 1 .. Len(cols) : j # k => cols[j].name # cols[k].name
  BY <1>1, <1>4, ColumnsApart
<1>7. ASSUME NEW j \in 1 .. Len(cols)
      PROVE  names = {} \/ cols[j].name \in names
  <2>1. ColumnsAreKept(q, cols)
    BY <1>2, <1>4, ColumnNames
  <2>2. PICK n : n = cols[j].name
    OBVIOUS
  <2>3. PICK c \in DOMAIN q : \E b \in DOMAIN q[c].sensors :
            q[c].sensors[b].keep /\ q[c].sensors[b].name = n
    BY <2>1, <2>2 DEF ColumnsAreKept
  <2>4. PICK b \in DOMAIN q[c].sensors : q[c].sensors[b].keep /\ q[c].sensors[b].name = n
    BY <2>3
  <2>5. c \in DOMAIN m /\ b \in DOMAIN m[c].sensors /\ m[c].sensors[b].name = n
    BY <1>4, <2>4 DEF SameSensors
  <2>6. QED
    BY <1>4, <2>2, <2>4, <2>5
<1>8. ASSUME NEW c \in DOMAIN r
      PROVE  /\ r[c] \in ListType
             /\ \A b \in DOMAIN r[c].sensors :
                   /\ r[c].sensors[b].keep <=> names = {} \/ r[c].sensors[b].name \in names
                   /\ r[c].sensors[b].keep => AtColumn(cols, r[c].sensors[b])
             /\ \E y : Brings(y, c) /\ NamesOf(r[c].sensors) = NamesOf(FreshOf(y))
  <2>1. c \in DOMAIN m /\ c \in DOMAIN q
    BY <1>4, <1>5
  <2>2. SameSensors(m[c], q[c]) /\ SameSensors(q[c], r[c]) /\ r[c] \in ListType
    BY <1>4, <1>5, <2>1 DEF AreLists
  <2>3. /\ DOMAIN r[c].sensors = DOMAIN m[c].sensors /\ DOMAIN q[c].sensors = DOMAIN m[c].sensors
        /\ \A b \in DOMAIN m[c].sensors : r[c].sensors[b].name = m[c].sensors[b].name
    BY <2>2 DEF SameSensors
  <2>4. NamesOf(r[c].sensors) = NamesOf(m[c].sensors)
    <3>1. PICK D : D = DOMAIN m[c].sensors
      OBVIOUS
    <3>2. NamesOf(r[c].sensors) = {r[c].sensors[b].name : b \in D}
      BY <2>3, <3>1 DEF NamesOf, ToSet
    <3>3. NamesOf(m[c].sensors) = {m[c].sensors[b].name : b \in D}
      BY <3>1 DEF NamesOf, ToSet
    <3>4. QED
      BY <2>3, <3>1, <3>2, <3>3
  <2>5. \E y : Brings(y, c) /\ NamesOf(r[c].sensors) = NamesOf(FreshOf(y))
    BY <1>3, <2>1, <2>4
  <2>6. ASSUME NEW b \in DOMAIN r[c].sensors
        PROVE  /\ r[c].sensors[b].keep <=> names = {} \/ r[c].sensors[b].name \in names
               /\ r[c].sensors[b].keep => AtColumn(cols, r[c].sensors[b])
    <3>1. b \in DOMAIN m[c].sensors /\ b \in DOMAIN q[c].sensors
      BY <2>3
    <3>2. q[c].sensors[b].keep <=> names = {} \/ m[c].sensors[b].name \in names
      BY <1>4, <2>1, <3>1
    <3>3. /\ r[c].sensors[b].keep = q[c].sensors[b].keep
          /\ r[c].sensors[b].keep => AtColumn(cols, r[c].sensors[b])
      BY <1>5, <2>1, <3>1
    <3>4. QED
      BY <2>3, <3>1, <3>2, <3>3
  <2>7. QED
    BY <2>2, <2>5, <2>6
<1>9. QED
  BY <1>5, <1>6, <1>7, <1>8 DEF LaidOut

-----------------------------------------------------------------------------
(* The fields *)

\* What is read of bytes in the other order are the bytes.
LEMMA FlippedTwice ==
    ASSUME NEW T, NEW bytes \in Seq(T)
    PROVE  ReadFlipped(Reverse(bytes)) = bytes
<1>1. PICK n \in Nat : n = Len(bytes) /\ DOMAIN bytes = 1 .. n
  OBVIOUS
<1>2. PICK r : r = Reverse(bytes)
  OBVIOUS
<1>3. r = [k \in 1 .. n |-> bytes[n - k + 1]]
  BY <1>1, <1>2 DEF Reverse
<1>4. r \in Seq(T) /\ Len(r) = n /\ \A k \in 1 .. n : r[k] = bytes[n - k + 1]
  <2>1. \A k \in 1 .. n : bytes[n - k + 1] \in T
    BY <1>1
  <2>2. QED
    BY <1>3, <2>1
<1>5. CASE n # 8
  <2>1. PICK t : t = NetToHost(r)
    OBVIOUS
  <2>2. t = [k \in 1 .. n |-> r[n - k + 1]]
    BY <1>4, <2>1 DEF NetToHost, Reverse
  <2>3. \A k \in 1 .. n : r[n - k + 1] = bytes[k]
    <3>1. TAKE k \in 1 .. n
    <3>2. PICK j \in 1 .. n : j = n - k + 1
      OBVIOUS
    <3>3. n - j + 1 = k
      BY <3>2
    <3>4. QED
      BY <1>4, <3>2, <3>3
  <2>4. t = [k \in 1 .. n |-> bytes[k]]
    BY <2>2, <2>3
  <2>5. bytes = [k \in 1 .. n |-> bytes[k]]
    BY <1>1
  <2>6. ReadFlipped(r) = t
    BY <1>4, <1>5, <2>1 DEF ReadFlipped
  <2>7. QED
    BY <1>2, <2>4, <2>5, <2>6
<1>6. CASE n = 8
  <2>1. PICK a : a = SubSeq(r, 5, 8)
    OBVIOUS
  <2>2. PICK b : b = SubSeq(r, 1, 4)
    OBVIOUS
  <2>3. a = <<bytes[4], bytes[3], bytes[2], bytes[1]>>
    <3>1. \A k \in 5 .. 8 : r[k] \in T
      <4>1. \A k \in 1 .. n : r[k] \in T
        BY <1>4
      <4>2. \A k \in 5 .. 8 : k \in 1 .. n
        BY <1>6
      <4>3. QED
        BY <4>1, <4>2
    <3>2. a \in Seq(T) /\ Len(a) = 4 /\ \A k \in 1 .. 4 : a[k] = r[5 + k - 1]
      BY <2>1, <3>1, SubSeqProperties
    <3>3. a[1] = r[5] /\ a[2] = r[6] /\ a[3] = r[7] /\ a[4] = r[8]
      BY <3>2
    <3>4. r[5] = bytes[4] /\ r[6] = bytes[3] /\ r[7] = bytes[2] /\ r[8] = bytes[1]
      BY <1>4, <1>6
    <3>5. QED
      BY <3>2, <3>3, <3>4
  <2>4. b = <<bytes[8], bytes[7], bytes[6], bytes[5]>>
    <3>1. \A k \in 1 .. 4 : r[k] \in T
      <4>1. \A k \in 1 .. n : r[k] \in T
        BY <1>4
      <4>2. \A k \in 1 .. 4 : k \in 1 .. n
        BY <1>6
      <4>3. QED
        BY <4>1, <4>2
    <3>2. b \in Seq(T) /\ Len(b) = 4 /\ \A k \in 1 .. 4 : b[k] = r[1 + k - 1]
      BY <2>2, <3>1, SubSeqProperties
    <3>3. b[1] = r[1] /\ b[2] = r[2] /\ b[3] = r[3] /\ b[4] = r[4]
      BY <3>2
    <3>4. r[1] = bytes[8] /\ r[2] = bytes[7] /\ r[3] = bytes[6] /\ r[4] = bytes[5]
      BY <1>4, <1>6
    <3>5. QED
      BY <3>2, <3>3, <3>4
  <2>5. NetToHost(a) = <<bytes[1], bytes[2], bytes[3], bytes[4]>>
    BY <2>3 DEF NetToHost, Reverse
  <2>6. NetToHost(b) = <<bytes[5], bytes[6], bytes[7], bytes[8]>>
    BY <2>4 DEF NetToHost, Reverse
  <2>7. ReadFlipped(r) = NetToHost(a) \o NetToHost(b)
    BY <1>4, <1>6, <2>1, <2>2 DEF ReadFlipped
  <2>8. NetToHost(a) \o NetToHost(b) = bytes
    BY <1>1, <1>6, <2>5, <2>6
  <2>9. QED
    BY <1>2, <2>7, <2>8
<1>7. QED
  BY <1>5, <1>6

\* Whatever the order of the bytes in the file, a field is the value.
LEMMA FieldBytes ==
    ASSUME NEW x, NEW k, NEW s, s.size \in Nat
    PROVE  ReadBytes(InFile(x, k, s), Flip(Stream(x), DataAt(x))) = LittleEndian(x, k, s)
<1>1. PICK bytes : bytes = LittleEndian(x, k, s)
  OBVIOUS
<1>2. PICK n \in Nat : n = s.size
  OBVIOUS
<1>3. bytes = [b \in 1 .. n |-> <<x, k, s.name, b>>]
  BY <1>1, <1>2 DEF LittleEndian
<1>4. PICK T : bytes \in Seq(T)
  <2> DEFINE T == {<<x, k, s.name, b>> : b \in 1 .. n}
  <2>1. bytes \in [1 .. n -> T]
    BY <1>3
  <2> HIDE DEF T
  <2>2. bytes \in Seq(T)
    BY <2>1
  <2>3. QED
    BY <2>2
<1>5. ReadFlipped(Reverse(bytes)) = bytes
  BY <1>4, FlippedTwice
<1>6. CASE Flip(Stream(x), DataAt(x))
  BY <1>1, <1>5, <1>6 DEF InFile, ReadBytes
<1>7. CASE ~Flip(Stream(x), DataAt(x))
  BY <1>1, <1>7 DEF InFile, ReadBytes
<1>8. QED
  BY <1>6, <1>7

\* A record as Data::load reads it is the row the file has for it.
LEMMA RecordIs ==
    ASSUME LaidOut(lists, all, cmd.keep), NEW x \in Stored, Decodable(x), NEW k
    PROVE  Record(x, k) = RowOf(x, k)
<1>1. PICK c \in DOMAIN lists : c = Crc(HeaderOf(x))
  BY DEF Decodable
<1>2. PICK sensors : sensors = lists[c].sensors
  OBVIOUS
<1>3. PICK n \in Nat : n = Len(all) /\ DOMAIN all = 1 .. n
  BY DEF LaidOut
<1>4. /\ \A l, j \in 1 .. n : l # j => all[l].name # all[j].name
      /\ \A j \in 1 .. n : cmd.keep = {} \/ all[j].name \in cmd.keep
  BY <1>3 DEF LaidOut
<1>5. ASSUME NEW s \in ToSet(sensors)
      PROVE  /\ s \in SensorType
             /\ s.keep <=> cmd.keep = {} \/ s.name \in cmd.keep
             /\ s.keep => AtColumn(all, s)
  <2>1. lists[c] \in ListType
    BY DEF LaidOut
  <2>2. PICK b \in DOMAIN sensors : s = sensors[b]
    BY DEF ToSet
  <2>3. s \in SensorType
    BY <1>2, <2>1, <2>2, ListIs
  <2>4. /\ s.keep <=> cmd.keep = {} \/ s.name \in cmd.keep
        /\ s.keep => AtColumn(all, s)
    BY <1>2, <2>2 DEF LaidOut
  <2>5. QED
    BY <2>3, <2>4
<1>6. Names(x) = NamesOf(sensors)
  <2>1. CASE Lines(x, "s") = {}
    BY <1>1, <1>2, <2>1 DEF Names, NamesOf
  <2>2. CASE Lines(x, "s") # {}
    <3>1. PICK y : Brings(y, c) /\ NamesOf(sensors) = NamesOf(FreshOf(y))
      BY <1>2 DEF LaidOut
    <3>2. KnowsBytes(Stream(x), DataAt(x))
      BY DEF Decodable
    <3>3. OwnNames(x) = NamesOf(FreshOf(y))
      BY <1>1, <2>2, <3>1, <3>2, ListsAssumption DEF Brings, FreshOf, NamesOf
    <3>4. QED
      BY <2>2, <3>1, <3>3 DEF Names
  <2>3. QED
    BY <2>1, <2>2
<1>7. PICK kept : kept = {s \in ToSet(sensors) : s.keep}
  OBVIOUS
<1>8. Record(x, k) = [j \in 1 .. n |->
          IF \E s \in kept : s.index = j - 1
          THEN ReadBytes(InFile(x, k, CHOOSE s \in kept : s.index = j - 1),
                         Flip(Stream(x), DataAt(x)))
          ELSE Blank]
  BY <1>1, <1>2, <1>3, <1>7 DEF Record
<1>9. ASSUME NEW j \in 1 .. n, \E s \in kept : s.index = j - 1
      PROVE  ReadBytes(InFile(x, k, CHOOSE s \in kept : s.index = j - 1),
                       Flip(Stream(x), DataAt(x))) = Field(x, k, all[j])
  <2>1. PICK s : s = CHOOSE t \in kept : t.index = j - 1
    OBVIOUS
  <2>2. s \in kept /\ s.index = j - 1
    BY <1>9, <2>1
  <2>3. s \in ToSet(sensors) /\ s.keep
    BY <1>7, <2>2
  <2>4. s \in SensorType /\ AtColumn(all, s)
    BY <1>5, <2>3
  <2>5. all[j].name = s.name /\ all[j].size = s.size /\ s.size \in Nat
    <3>1. s.index + 1 = j
      BY <2>2
    <3>2. QED
      BY <2>4, <3>1, SensorIs DEF AtColumn
  <2>6. all[j].name \in Names(x)
    BY <1>6, <2>3, <2>5 DEF NamesOf
  <2>7. LittleEndian(x, k, s) = LittleEndian(x, k, all[j])
    BY <2>5 DEF LittleEndian
  <2>8. QED
    BY <2>1, <2>5, <2>6, <2>7, FieldBytes DEF Field
<1>10. ASSUME NEW j \in 1 .. n, ~\E s \in kept : s.index = j - 1
       PROVE  Field(x, k, all[j]) = Blank
  <2>1. SUFFICES ASSUME all[j].name \in Names(x) PROVE FALSE
    BY DEF Field
  <2>2. PICK s \in ToSet(sensors) : s.name = all[j].name
    BY <1>6, <2>1 DEF NamesOf
  <2>3. s.keep
    BY <1>4, <1>5, <2>2
  <2>4. s \in SensorType /\ AtColumn(all, s)
    BY <1>5, <2>3
  <2>5. PICK l \in Int : l = s.index
    BY <2>4, SensorIs
  <2>6. l + 1 \in 1 .. n /\ all[l + 1].name = s.name
    BY <1>3, <2>4, <2>5 DEF AtColumn
  <2>7. l + 1 = j
    BY <1>4, <2>2, <2>6
  <2>8. s \in kept /\ s.index = j - 1
    BY <1>7, <2>3, <2>5, <2>7
  <2>9. QED
    BY <1>10, <2>8
<1>11. RowOf(x, k) = [j \in 1 .. n |-> Field(x, k, all[j])]
  BY <1>3 DEF RowOf
<1>12. QED
  BY <1>8, <1>9, <1>10, <1>11

-----------------------------------------------------------------------------
(* The rows *)

\* The rows are those of the files converted; before the second pass the lists
\* are as they were read, and during it as setUpForData left them.
JInv ==
    /\ pc = "first" => AsRead(lists)
    /\ pc = "second" => LaidOut(lists, all, cmd.keep)
    /\ CsvIsConcatenation

LEMMA InitRows == Init => JInv
<1> SUFFICES ASSUME Init PROVE JInv
  OBVIOUS
<1>1. AsRead(lists) /\ pc # "second"
  BY DEF Init, AsRead
<1>2. CsvIsConcatenation
  <2>1. rows = << >> /\ result = << >>
    BY DEF Init
  <2>2. QED
    BY <2>1, FlattenEmpty DEF CsvIsConcatenation
<1>3. QED
  BY <1>1, <1>2 DEF JInv

\* No row of no file.
LEMMA NoRows ==
    ASSUME rows' = << >>, result' = << >>
    PROVE  CsvIsConcatenation'
BY FlattenEmpty DEF CsvIsConcatenation

\* What the rows are of stays.
LEMMA SameRows ==
    ASSUME JInv, pc' = pc \/ pc' \notin {"first", "second"},
           UNCHANGED <<cmd, lists, indices, all, rows, result>>
    PROVE  JInv'
<1>1. \A x, k : RowOf(x, k)' = RowOf(x, k)
  BY DEF RowOf, Field, Names
<1>2. CsvIsConcatenation'
  BY <1>1 DEF JInv, CsvIsConcatenation
<1>3. QED
  BY <1>2 DEF JInv

LEMMA AcceptRows == IInv /\ JInv /\ Accept => JInv'
<1> SUFFICES ASSUME IInv, JInv, Accept PROVE JInv'
  OBVIOUS
<1>1. /\ pc = "first" /\ pc' = pc /\ i <= Len(cmd.input) /\ UNCHANGED <<cmd, rows, result>>
      /\ ~InsertThrows(Stream(Input), HeaderOf(Input)) /\ Insert(Stream(Input), HeaderOf(Input))
  BY DEF Accept, written
<1>2. Input \in Stored
  <2>1. i \in 1 .. N
    BY <1>1, InputIs DEF IInv, Control, N
  <2>2. QED
    BY <2>1, InputIs DEF Input
<1>3. PICK x \in Stored : x = Input
  BY <1>2
<1>4. PICK c : c = Crc(HeaderOf(x))
  OBVIOUS
<1>5. AsRead(lists)
  BY <1>1 DEF JInv
<1>6. AsRead(lists')
  <2>1. CASE c \in DOMAIN lists \/ FreshOf(x) = << >>
    <3>1. lists' = lists
      BY <1>1, <1>3, <1>4, <2>1 DEF Insert, FreshOf
    <3>2. QED
      BY <1>5, <3>1
  <2>2. CASE c \notin DOMAIN lists /\ FreshOf(x) # << >>
    <3>1. PICK l : l = Raw(FreshOf(x))
      OBVIOUS
    <3>2. lists' = Inserted(lists, c, l)
      BY <1>1, <1>3, <1>4, <2>2, <3>1 DEF Insert, FreshOf
    <3>3. PICK m : m = lists'
      OBVIOUS
    <3>4. DOMAIN m = DOMAIN lists \cup {c} /\ m[c] = l /\ \A d \in DOMAIN lists : m[d] = lists[d]
      BY <2>2, <3>2, <3>3 DEF Inserted
    <3>5. Brings(x, c)
      BY <1>1, <1>3, <1>4, <2>2 DEF Brings, InsertThrows
    <3>6. AsRead(m)
      BY <1>5, <3>1, <3>4, <3>5 DEF AsRead
    <3>7. QED
      BY <3>3, <3>6
  <2>3. QED
    BY <2>1, <2>2
<1>7. CsvIsConcatenation'
  <2>1. rows' = << >> /\ result' = << >>
    BY <1>1 DEF IInv, Decoded
  <2>2. QED
    BY <2>1, NoRows
<1>8. QED
  BY <1>1, <1>6, <1>7 DEF JInv

LEMMA SetUpRows == IInv /\ JInv /\ SetUp => JInv'
<1> SUFFICES ASSUME IInv, JInv, SetUp PROVE JInv'
  OBVIOUS
<1>1. pc = "first" /\ UNCHANGED <<cmd, rows, result>>
  BY DEF SetUp, written
<1>2. CsvIsConcatenation'
  <2>1. rows' = << >> /\ result' = << >>
    BY <1>1 DEF IInv, Decoded
  <2>2. QED
    BY <2>1, NoRows
<1>3. PICK q : q = Keep(lists, cmd.keep)
  OBVIOUS
<1>4. CASE SizesAgree(q, CrcOrder)
  <2>1. /\ lists' = Reindexed(q, CrcOrder) /\ all' = CommonList(q, CrcOrder)
        /\ pc' = "second" /\ cmd' = cmd
    BY <1>3, <1>4 DEF SetUp
  <2>2. PICK r : r = lists'
    OBVIOUS
  <2>3. PICK cols : cols = all'
    OBVIOUS
  <2>4. AsRead(lists) /\ DOMAIN lists \subseteq ToSet(CrcOrder)
    BY <1>1 DEF JInv, IInv, Known
  <2>5. PICK names : names = cmd.keep
    OBVIOUS
  <2>6. PICK m : m = lists
    OBVIOUS
  <2>7. LaidOut(r, cols, names)
    BY <1>3, <1>4, <2>1, <2>2, <2>3, <2>4, <2>5, <2>6, SetUpLays
  <2>8. QED
    BY <1>2, <2>1, <2>2, <2>3, <2>5, <2>7 DEF JInv
<1>5. CASE ~SizesAgree(q, CrcOrder)
  <2>1. pc' = "exit"
    BY <1>3, <1>5 DEF SetUp
  <2>2. QED
    BY <1>2, <2>1 DEF JInv
<1>6. QED
  BY <1>4, <1>5

\* What is left out of a file, and the rows that are wanted of it.
Dropped(r) == IF cmd.skip = "all" \/ (cmd.skip = "first" /\ r.at > 1) THEN 1 ELSE 0
WantedOf(r) ==
    [k \in 1 .. (IF r.records > Dropped(r) THEN r.records - Dropped(r) ELSE 0) |->
        RowOf(cmd.input[indices[r.at]], Dropped(r) + k)]

LEMMA ConvertRows == IInv /\ JInv /\ Convert => JInv'
<1> SUFFICES ASSUME IInv, JInv, Convert PROVE JInv'
  OBVIOUS
<1>1. /\ pc = "second" /\ pc' = pc /\ i <= Len(indices) /\ Decodable(At)
      /\ UNCHANGED <<cmd, lists, indices, all>>
  BY DEF Convert, InSecond, accepted
<1>2. PICK n : /\ n \in 0 .. (IF all = << >> THEN 0 ELSE Content[At].records)
               /\ rows' = rows \o [k \in 1 .. (IF n > KStart THEN n - KStart ELSE 0) |->
                                      Record(At, KStart + k)]
               /\ result' = Append(result, [at |-> i, nBytes |-> sizes[i], records |-> n])
  BY DEF Convert
<1>3. PICK x \in Stored : x = At
  BY <1>1, AtIs
<1>4. PICK e : e = [at |-> i, nBytes |-> sizes[i], records |-> n]
  OBVIOUS
<1>5. PICK d : d = KStart
  OBVIOUS
<1>6. Dropped(e) = d
  BY <1>4, <1>5 DEF Dropped, KStart
<1>7. PICK new : new = WantedOf(e)
  OBVIOUS
<1>8. new = [k \in 1 .. (IF n > d THEN n - d ELSE 0) |-> RowOf(x, d + k)]
  <2>1. e.at = i /\ e.records = n /\ cmd.input[indices[e.at]] = x
    BY <1>3, <1>4 DEF At
  <2>2. QED
    BY <1>6, <1>7, <2>1 DEF WantedOf
<1>9. rows' = rows \o new
  <2>1. LaidOut(lists, all, cmd.keep)
    BY <1>1 DEF JInv
  <2>2. \A k : Record(x, k) = RowOf(x, k)
    BY <1>1, <1>3, <2>1, RecordIs
  <2>3. rows' = rows \o [k \in 1 .. (IF n > d THEN n - d ELSE 0) |-> Record(x, d + k)]
    BY <1>2, <1>3, <1>5
  <2>4. PICK m : m = IF n > d THEN n - d ELSE 0
    OBVIOUS
  <2>5. [k \in 1 .. m |-> Record(x, d + k)] = [k \in 1 .. m |-> RowOf(x, d + k)]
    BY <2>2
  <2>6. QED
    BY <1>8, <2>3, <2>4, <2>5
<1>10. \A r : WantedOf(r)' = WantedOf(r)
  <2>1. \A y, k : RowOf(y, k)' = RowOf(y, k)
    BY <1>1 DEF RowOf, Field, Names
  <2>2. \A r : Dropped(r)' = Dropped(r)
    BY <1>1 DEF Dropped
  <2>3. QED
    BY <1>1, <2>1, <2>2 DEF WantedOf
<1>10a. PICK res : res = result'
  OBVIOUS
<1> DEFINE Rows == {RowOf(y, k) : y \in Stored, k \in Nat}
           ss == [k \in DOMAIN result |-> WantedOf(result[k])]
           tt == [k \in DOMAIN res |-> WantedOf(res[k])]
<1>11. PICK j \in Nat : j = Len(result) /\ DOMAIN result = 1 .. j
  BY DEF IInv, Decoded
<1>12. /\ Len(result') = j + 1 /\ DOMAIN result' = 1 .. j + 1 /\ result'[j + 1] = e
       /\ \A k \in 1 .. j : result'[k] = result[k]
  <2>1. result \in Seq(ResultShape)
    BY DEF IInv, Decoded
  <2>2. PICK T : result \in Seq(T) /\ e \in T
    <3>1. result \in Seq(ResultShape \cup {e})
      BY <2>1
    <3>2. QED
      BY <3>1
  <2>3. result' = Append(result, e)
    BY <1>2, <1>4
  <2>4. QED
    BY ONLY <1>11, <2>2, <2>3
<1>13. /\ DOMAIN ss = 1 .. j /\ DOMAIN tt = 1 .. j + 1 /\ tt[j + 1] = new
       /\ \A k \in 1 .. j : tt[k] = ss[k]
       /\ ss = [k \in 1 .. j |-> ss[k]] /\ tt = [k \in 1 .. j + 1 |-> tt[k]]
  BY <1>7, <1>10a, <1>11, <1>12
<1>14. ASSUME NEW r, r \in ResultShape, r.at \in 1 .. Len(indices)
       PROVE  WantedOf(r) \in Seq(Rows)
  <2>1. PICK b : b = Dropped(r)
    OBVIOUS
  <2>2. b \in Nat /\ r.records \in Nat
    BY <1>14, <2>1 DEF Dropped, ResultShape
  <2>3. PICK m \in Nat : m = IF r.records > b THEN r.records - b ELSE 0
    BY <2>2
  <2>4. PICK y \in Stored : y = cmd.input[indices[r.at]]
    BY <1>14, InputIs DEF FileAt
  <2>5. WantedOf(r) = [k \in 1 .. m |-> RowOf(y, b + k)]
    BY <2>1, <2>3, <2>4 DEF WantedOf
  <2>6. \A k \in 1 .. m : RowOf(y, b + k) \in Rows
    <3>1. TAKE k \in 1 .. m
    <3>2. b + k \in Nat
      BY <2>2, <2>3
    <3>3. QED
      BY <3>2
  <2> HIDE DEF Rows
  <2>7. WantedOf(r) \in [1 .. m -> Rows]
    BY <2>5, <2>6
  <2>8. QED
    BY <2>7
<1>15. \A k \in 1 .. j : ss[k] \in Seq(Rows)
  <2>1. TAKE k \in 1 .. j
  <2>2. result[k] \in ResultShape /\ result[k].at \in 1 .. Len(indices)
    BY <1>11 DEF IInv, Decoded
  <2>3. WantedOf(result[k]) \in Seq(Rows)
    BY <1>14, <2>2
  <2>4. QED
    BY <1>11, <2>3
<1>16. new \in Seq(Rows)
  <2>1. e \in ResultShape /\ e.at \in 1 .. Len(indices)
    <3>1. i \in 1 .. Len(indices)
      BY <1>1, AtIs
    <3>2. sizes[i] \in Nat
      BY <3>1 DEF IInv, Vectors
    <3>3. n \in Nat
      BY <1>2
    <3>4. i \in Nat
      BY <3>1
    <3>5. QED
      BY <1>4, <3>1, <3>2, <3>3, <3>4 DEF ResultShape
  <2>2. QED
    BY <1>7, <1>14, <2>1
<1>17. rows = FlattenSeq(ss)
  BY DEF JInv, CsvIsConcatenation, WantedOf, Dropped
<1>18. CsvIsConcatenation' <=> rows' = FlattenSeq(tt)
  <2>1. CsvIsConcatenation' <=> rows' = FlattenSeq([k \in DOMAIN res |-> WantedOf(res[k])'])
    BY <1>10a DEF CsvIsConcatenation, WantedOf, Dropped
  <2>2. QED
    BY <1>10, <2>1
<1> HIDE DEF Rows, ss, tt
<1>19. ss \in Seq(Seq(Rows)) /\ tt \in Seq(Seq(Rows)) /\ Len(ss) = j /\ Len(tt) = j + 1
  <2>1. \A k \in 1 .. j + 1 : k \in 1 .. j \/ k = j + 1
    OBVIOUS
  <2>2. \A k \in 1 .. j + 1 : tt[k] \in Seq(Rows)
    BY <1>13, <1>15, <1>16, <2>1
  <2>3. PICK T : T = Seq(Rows)
    OBVIOUS
  <2>4. ss \in [1 .. j -> T] /\ tt \in [1 .. j + 1 -> T]
    BY <1>13, <1>15, <2>2, <2>3
  <2>5. ss \in Seq(T) /\ tt \in Seq(T) /\ Len(ss) = j /\ Len(tt) = j + 1
    BY <2>4
  <2>6. QED
    BY <2>3, <2>5
<1>20. SameUpto(ss, tt, j)
  BY <1>13 DEF SameUpto
<1>21. FlattenSeq(tt) = FlattenSeq(ss) \o new
  <2>1. Len(tt) = Len(ss) + 1 /\ SameUpto(ss, tt, Len(ss))
    BY <1>19, <1>20
  <2>2. FlattenSeq(tt) = FlattenSeq(ss) \o tt[Len(tt)]
    BY <1>19, <2>1, FlattenExtend
  <2>3. QED
    BY <1>13, <1>19, <2>2
<1>22. QED
  BY <1>1, <1>9, <1>17, <1>18, <1>21 DEF JInv

LEMMA StepRows == IInv /\ JInv /\ [Next]_vars => JInv'
<1> SUFFICES ASSUME IInv, JInv, [Next]_vars PROVE JInv'
  OBVIOUS
<1>1. CASE Accept
  BY <1>1, AcceptRows
<1>2. CASE Reject \/ Unreadable
  <2>1. /\ UNCHANGED <<cmd, lists, indices, all, rows, result>>
        /\ pc' = pc \/ pc' = "exit"
    BY <1>2 DEF Reject, Unreadable, GiveUp, accepted, written
  <2>2. QED
    BY <2>1, SameRows
<1>3. CASE PassOver
  BY <1>3, SameRows DEF PassOver, accepted, written
<1>4. CASE SizeThrows \/ OpenFails \/ NoFiles \/ LoadThrows \/ Finish
  <2>1. /\ UNCHANGED <<cmd, lists, indices, all, rows, result>>
        /\ pc' \in {"aborted", "exit", "done"}
    BY <1>4 DEF SizeThrows, OpenFails, NoFiles, LoadThrows, Finish, accepted, written
  <2>2. QED
    BY <2>1, SameRows
<1>5. CASE SetUp
  BY <1>5, SetUpRows
<1>6. CASE StartList
  BY <1>6, SameRows DEF StartList, accepted, written
<1>7. CASE Convert
  BY <1>7, ConvertRows
<1>8. CASE ListFile \/ ListEmpty
  BY <1>8, SameRows DEF ListFile, ListEmpty, accepted, written
<1>9. CASE PrintAll
  <2>1. pc' \notin {"first", "second"} /\ rows' = << >> /\ result' = << >>
    BY <1>9 DEF PrintAll, written, IInv, Decoded
  <2>2. QED
    BY <2>1, NoRows DEF JInv
<1>10. CASE Exited \/ UNCHANGED vars
  BY <1>10, SameRows DEF Exited, vars
<1>11. QED
  BY <1>1, <1>2, <1>3, <1>4, <1>5, <1>6, <1>7, <1>8, <1>9, <1>10 DEF Next

-----------------------------------------------------------------------------
(* The theorems *)

\* An unfactored file as a glider writes it brings its own list.
LEMMA FreshOwn ==
    ASSUME NEW x \in Stored, WellFormed(x), Lines(x, "s") # {}
    PROVE  Fresh(Stream(x), HeaderOf(x)) # << >>
<1>1. PICK own : own = SensorsOf(Stream(x), HeaderOf(x).cnt + 1, HeaderOf(x))
  OBVIOUS
<1>2. own # << >>
  BY <1>1, WellFormedReads
<1>3. Fresh(Stream(x), HeaderOf(x)) = own
  BY <1>1, <1>2 DEF Fresh
<1>4. QED
  BY <1>2, <1>3

\* The command line is one there is; the counters and the vectors stay in their
\* ranges and of one length; every list in the map has a sensor, and every row
\* written a field for each common column (dbd2csv.C:128-156, 207-280,
\* dbdSensors.C:60-151).
THEOREM TypesHold == Spec => []TypeOK
<1>1. ASSUME IInv PROVE TypeOK
  <2>1. IsCommand(cmd) /\ DOMAIN cmd.input = 1 .. N /\ N = Len(cmd.input)
    BY <1>1, InputIs DEF N
  <2>2. /\ pc \in {"first", "second", "list", "done", "exit", "aborted"}
        /\ i \in 1 .. Len(cmd.input) + 1
    BY <1>1, <2>1 DEF IInv, Control, Steps
  <2>3. DOMAIN lists \subseteq ToSet(CrcOrder)
    BY <1>1 DEF IInv, Known
  <2>4. ASSUME NEW c \in DOMAIN lists PROVE lists[c].sensors # << >>
    <3>1. DOMAIN lists[c].sensors # {}
      BY <1>1 DEF IInv, Known
    <3>2. QED
      BY <3>1
  <2>5. /\ indices \in Seq(DOMAIN cmd.input)
        /\ times \in Seq(0 .. Latest) /\ sizes \in Seq(Nat)
        /\ Len(times) = Len(indices) /\ Len(sizes) = Len(indices)
    BY <1>1, <2>1 DEF IInv, Vectors
  <2>6. ASSUME NEW r \in DOMAIN rows PROVE Len(rows[r]) = Len(all)
    <3>1. PICK T : rows \in Seq(T) /\ \A t \in T : DOMAIN t = DOMAIN all
      BY <1>1 DEF IInv, Decoded
    <3>2. PICK t \in T : t = rows[r]
      BY <3>1
    <3>3. DOMAIN t = DOMAIN all
      BY <3>1
    <3>4. Len(t) = Len(all)
      BY ONLY <3>3
    <3>5. QED
      BY <3>2, <3>4
  <2>7. refused \subseteq ToSet(cmd.input)
    BY <1>1 DEF IInv, Excused
  <2>8. QED
    BY <2>1, <2>2, <2>3, <2>4, <2>5, <2>6, <2>7 DEF TypeOK
<1>2. QED
  BY <1>1, Invariance, PTL

\* After the sort no file that was asked for is missing, none comes twice, they
\* are in the order asked for although std::sort is not stable, and each is
\* decoded with its own size: the sort moves the three vectors together
\* (dbd2csv.C:163-191, 238).
THEOREM FilesInOrder == Spec => []FilesComeInOrder
<1>1. ASSUME IInv PROVE FilesComeInOrder
  <2>1. SUFFICES ASSUME pc = "second" PROVE FilesComeInOrder
    BY DEF FilesComeInOrder
  <2>2. PICK n \in Nat : n = Len(indices)
    BY <1>1, InputIs
  <2>3. DOMAIN indices = 1 .. n
    BY <1>1, <2>2 DEF IInv, Vectors
  <2>4. \A k, l \in 1 .. n : k < l =>
           LET x == cmd.input[indices[k]]
               y == cmd.input[indices[l]]
           IN  /\ indices[k] # indices[l]
               /\ cmd.sort = "none" => indices[k] < indices[l]
               /\ cmd.sort = "lexicographic" => x <= y
               /\ cmd.sort = "header_time" =>
                     FileOpenTime(HeaderOf(x)) <= FileOpenTime(HeaderOf(y))
    BY <1>1, <2>1, <2>2 DEF IInv, Sorted, Before, FileAt
  <2>5. ASSUME NEW k \in DOMAIN cmd.input,
               Asked(HeaderOf(cmd.input[k])), cmd.input[k] \notin refused
        PROVE  k \in ToSet(indices)
    <3>1. k \in 1 .. N
      BY <1>1, InputIs
    <3>2. PICK l \in 1 .. n : indices[l] = k
      BY <1>1, <2>1, <2>2, <2>5, <3>1 DEF IInv, Complete
    <3>3. QED
      BY <2>3, <3>2 DEF ToSet
  <2>6. ASSUME NEW r \in ToSet(result)
        PROVE  r.nBytes = Content[cmd.input[indices[r.at]]].size
    <3>1. result \in Seq(ResultShape)
      BY <1>1 DEF IInv, Decoded
    <3>2. PICK j \in 1 .. Len(result) : r = result[j]
      BY <3>1 DEF ToSet
    <3>3. r.at \in 1 .. n /\ r.nBytes = sizes[r.at]
      BY <1>1, <2>2, <3>2 DEF IInv, Decoded
    <3>4. \A k \in 1 .. n : sizes[k] = Content[FileAt(k)].size
      BY <1>1, <2>2 DEF IInv, Vectors
    <3>5. QED
      BY <3>3, <3>4 DEF FileAt
  <2>7. QED
    BY <2>3, <2>4, <2>5, <2>6 DEF FilesComeInOrder
<1>2. QED
  BY <1>1, Invariance, PTL

\* A file as a glider writes it is given up on only for a list that nothing has:
\* it is factored, the cache has none of its CRC, or an empty one, and no accepted
\* file as a glider writes it carries one (Header.C:39-75, SensorsMap.C:45-79).
THEOREM WellFormedAreRead == Spec => []WellFormedFilesAreRead
<1>1. ASSUME IInv PROVE WellFormedFilesAreRead
  <2>1. PICK n \in Nat : n = Len(indices)
    BY <1>1, InputIs
  <2>2. DOMAIN indices = 1 .. n
    BY <1>1, <2>1 DEF IInv, Vectors
  <2>3. ASSUME NEW k \in 1 .. n, WellFormed(FileAt(k)),
               Crc(HeaderOf(FileAt(k))) \notin DOMAIN lists
        PROVE  Fresh(Stream(FileAt(k)), HeaderOf(FileAt(k))) = << >>
    <3>1. FileAt(k) \in Stored
      BY <1>1, <2>1, InputIs
    <3>2. SensorsParse(Stream(FileAt(k)), HeaderOf(FileAt(k)).cnt + 1, HeaderOf(FileAt(k)))
      BY <2>3, <3>1, WellFormedReads
    <3>3. QED
      BY <1>1, <2>1, <2>3, <3>2 DEF IInv, Known
  <2>4. SUFFICES ASSUME NEW x \in refused, WellFormed(x)
                 PROVE  /\ Lines(x, "s") = {}
                        /\ Crc(HeaderOf(x)) \in DOMAIN Cache => Cache[Crc(HeaderOf(x))] = << >>
                        /\ \A k \in DOMAIN indices :
                              LET y == cmd.input[indices[k]]
                              IN  WellFormed(y) /\ Lines(y, "s") # {} =>
                                     Crc(HeaderOf(y)) # Crc(HeaderOf(x))
    BY DEF WellFormedFilesAreRead
  <2>5. PICK k \in 1 .. n : FileAt(k) = x
    BY <1>1, <2>1, <2>4 DEF IInv, Excused
  <2>6. Crc(HeaderOf(x)) \notin DOMAIN lists
    BY <1>1, <2>4 DEF IInv, Excused
  <2>7. Fresh(Stream(x), HeaderOf(x)) = << >>
    BY <2>3, <2>4, <2>5, <2>6
  <2>8. x \in Stored
    BY <1>1, <2>1, <2>5, InputIs
  <2>9. Lines(x, "s") = {}
    BY <2>4, <2>7, <2>8, FreshOwn
  <2>10. Crc(HeaderOf(x)) \in DOMAIN Cache => Cache[Crc(HeaderOf(x))] = << >>
    BY <2>7 DEF Fresh
  <2>11. ASSUME NEW l \in 1 .. n, WellFormed(FileAt(l)), Lines(FileAt(l), "s") # {},
                Crc(HeaderOf(FileAt(l))) = Crc(HeaderOf(x))
         PROVE  FALSE
    <3>1. Fresh(Stream(FileAt(l)), HeaderOf(FileAt(l))) = << >>
      BY <2>3, <2>6, <2>11
    <3>2. FileAt(l) \in Stored
      BY <1>1, <2>1, InputIs
    <3>3. QED
      BY <2>11, <3>1, <3>2, FreshOwn
  <2>12. QED
    BY <2>2, <2>9, <2>10, <2>11 DEF FileAt
<1>2. QED
  BY <1>1, Invariance, PTL

\* The CSV file is the rows of the files in their sorted order, none lost or
\* repeated but those -s and -A leave out, every field under the column of its
\* own sensor and with the value the file has for it, in whatever byte order it
\* is and whatever file its list came from (dbd2csv.C:224-280,
\* KnownBytes.C:90-160).
THEOREM CsvConcatenated == Spec => []CsvIsConcatenation
<1>1. Spec => []JInv
  BY InitRows, StepRows, Invariance, PTL DEF Spec
<1>2. JInv => CsvIsConcatenation
  BY DEF JInv
<1>3. QED
  BY <1>1, <1>2, PTL
=============================================================================
