-------------------------- MODULE SensorsMapProofs --------------------------
(* What SensorsMap promises, proved for every command line, every set of     *)
(* lists and every option: the common list is that of the sensors visited in *)
(* the order of the CRCs, the filters and setUpForData touch nothing else,   *)
(* and the lists of the first pass stay as setUpForData left them, whatever  *)
(* other processes publish during the second.                                *)
EXTENDS SensorsMap, SharedFacts

-----------------------------------------------------------------------------
(* The lists *)

\* CrcOrder lists every CRC once.
LEMMA CrcsAre ==
    /\ CrcOrder \in Seq(Crcs) /\ DOMAIN CrcOrder = 1 .. Len(CrcOrder) /\ Len(CrcOrder) \in Nat
    /\ \A c \in Crcs : \E n \in 1 .. Len(CrcOrder) : CrcOrder[n] = c
    /\ \A i, j \in 1 .. Len(CrcOrder) : CrcOrder[i] = CrcOrder[j] => i = j
    /\ IsOrder(CrcOrder, Crcs)
<1>1. CrcOrder \in Seq(Crcs) /\ DOMAIN CrcOrder = 1 .. Len(CrcOrder) /\ Len(CrcOrder) \in Nat
  BY OrderAssumption
<1>2. \A c \in Crcs : \E n \in 1 .. Len(CrcOrder) : CrcOrder[n] = c
  BY <1>1 DEF Crcs, ToSet
<1>3. QED
  BY <1>1, <1>2, OrderAssumption DEF IsOrder

AskedFor(name) == toKeep = {} \/ name \in toKeep

\* The filters change what is kept, by name, and nothing else the output uses.
LEMMA FilteredIs ==
    ASSUME NEW m, AreLists(m, Crcs),
           \A c \in DOMAIN m : \A k \in DOMAIN m[c].sensors : m[c].sensors[k].keep
    PROVE  /\ AreLists(Filtered(m), Crcs) /\ DOMAIN Filtered(m) = DOMAIN m
           /\ \A c \in DOMAIN m :
                 /\ SameSensors(m[c], Filtered(m)[c])
                 /\ \A k \in DOMAIN m[c].sensors :
                       Filtered(m)[c].sensors[k].keep <=> AskedFor(m[c].sensors[k].name)
<1>1. PICK mid : mid = Keep(m, toKeep)
  OBVIOUS
<1>2. /\ AreLists(mid, Crcs) /\ DOMAIN mid = DOMAIN m
      /\ \A c \in DOMAIN m :
            /\ SameSensors(m[c], mid[c])
            /\ \A k \in DOMAIN m[c].sensors :
                  mid[c].sensors[k].keep <=> AskedFor(m[c].sensors[k].name)
  BY <1>1, KeepIs DEF AskedFor
<1>3. PICK end : end = Select(mid, criteria)
  OBVIOUS
<1>4. /\ AreLists(end, Crcs) /\ DOMAIN end = DOMAIN mid
      /\ \A c \in DOMAIN mid :
            /\ SameSensors(mid[c], end[c])
            /\ \A k \in DOMAIN mid[c].sensors :
                  end[c].sensors[k].keep = mid[c].sensors[k].keep
  BY <1>2, <1>3, SelectIs
<1>5. ASSUME NEW c \in DOMAIN m
      PROVE  /\ SameSensors(m[c], end[c])
             /\ \A k \in DOMAIN m[c].sensors :
                   end[c].sensors[k].keep <=> AskedFor(m[c].sensors[k].name)
  BY <1>2, <1>4 DEF SameSensors
<1>6. Filtered(m) = end
  BY <1>1, <1>3 DEF Filtered
<1>7. QED
  BY <1>2, <1>4, <1>5, <1>6

-----------------------------------------------------------------------------
(* The columns *)

\* The sensor b of the list of c is visited at n.
At(m, V, n, c, b) == c \in DOMAIN m /\ b \in DOMAIN m[c].sensors /\ V[n] = m[c].sensors[b]

\* Every sensor is visited, in the order of Before.
Visits(m, V, at) ==
    /\ at \in [1 .. Len(V) -> Crcs \X Nat]
    /\ \A n \in 1 .. Len(V) : At(m, V, n, at[n][1], at[n][2])
    /\ \A n, l \in 1 .. Len(V) : n < l => Before(at[n][1], at[n][2], at[l][1], at[l][2])
    /\ \A c \in DOMAIN m : \A b \in DOMAIN m[c].sensors :
          \E n \in 1 .. Len(V) : at[n] = <<c, b>>

\* The sensors are visited list by list.
LEMMA VisitedInOrder ==
    ASSUME NEW m, AreLists(m, Crcs), NEW V, V = Visited(m, CrcOrder)
    PROVE  \E at : Visits(m, V, at)
<1>1. PICK x \in Nat : x = Len(V)
  BY VisitedIs, CrcsAre
<1>2. PICK y \in Nat : y = Len(CrcOrder)
  BY CrcsAre
<1>3. PICK p : Places(Pieces(m, CrcOrder), V, p)
  BY VisitedIs, CrcsAre
<1>4. /\ Len(Pieces(m, CrcOrder)) = y
      /\ \A n \in 1 .. y :
            Pieces(m, CrcOrder)[n] = IF CrcOrder[n] \in DOMAIN m THEN m[CrcOrder[n]].sensors ELSE << >>
  BY <1>2, VisitedIs, CrcsAre
<1>5. /\ p \in [1 .. x -> Nat \X Nat]
      /\ \A n \in 1 .. x :
            /\ p[n][1] \in 1 .. y /\ p[n][2] \in 1 .. Len(Pieces(m, CrcOrder)[p[n][1]])
            /\ V[n] = Pieces(m, CrcOrder)[p[n][1]][p[n][2]]
      /\ \A n, l \in 1 .. x : n < l => InOrder(p[n], p[l])
      /\ \A k \in 1 .. y : \A b \in 1 .. Len(Pieces(m, CrcOrder)[k]) : \E n \in 1 .. x : p[n] = <<k, b>>
  BY <1>1, <1>3, <1>4 DEF Places
<1> DEFINE at == [n \in 1 .. x |-> <<CrcOrder[p[n][1]], p[n][2]>>]
<1>6. ASSUME NEW n \in 1 .. x
      PROVE  /\ p[n][1] \in 1 .. y /\ p[n][2] \in Nat /\ CrcOrder[p[n][1]] \in Crcs
             /\ At(m, V, n, CrcOrder[p[n][1]], p[n][2])
  <2>1. PICK k \in 1 .. y : k = p[n][1]
    BY <1>5
  <2>2. PICK b : b = p[n][2]
    OBVIOUS
  <2>3. b \in 1 .. Len(Pieces(m, CrcOrder)[k]) /\ V[n] = Pieces(m, CrcOrder)[k][b] /\ b \in Nat
    BY <1>5, <2>1, <2>2
  <2>4. CrcOrder[k] \in DOMAIN m
    <3>1. CrcOrder[k] \notin DOMAIN m => Len(Pieces(m, CrcOrder)[k]) = 0
      BY <1>4
    <3>2. QED
      BY <2>3, <3>1
  <2>5. Pieces(m, CrcOrder)[k] = m[CrcOrder[k]].sensors /\ m[CrcOrder[k]] \in ListType
    BY <1>4, <2>4 DEF AreLists
  <2>6. b \in DOMAIN m[CrcOrder[k]].sensors
    BY <2>3, <2>5, ListIs
  <2>7. CrcOrder[k] \in Crcs
    BY <2>4 DEF AreLists
  <2>8. QED
    BY <2>1, <2>2, <2>3, <2>4, <2>5, <2>6, <2>7 DEF At
<1>7. at \in [1 .. x -> Crcs \X Nat]
  BY <1>6
<1>8. \A n \in 1 .. x : at[n][1] = CrcOrder[p[n][1]] /\ at[n][2] = p[n][2]
  OBVIOUS
<1>9. ASSUME NEW c \in DOMAIN m, NEW b \in DOMAIN m[c].sensors
      PROVE  \E n \in 1 .. x : at[n] = <<c, b>>
  <2>1. PICK k \in 1 .. y : CrcOrder[k] = c
    <3>1. c \in Crcs
      BY DEF AreLists
    <3>2. QED
      BY <1>2, <3>1, CrcsAre
  <2>2. Pieces(m, CrcOrder)[k] = m[c].sensors /\ m[c] \in ListType
    BY <1>4, <2>1 DEF AreLists
  <2>3. b \in 1 .. Len(Pieces(m, CrcOrder)[k])
    BY <2>2, ListIs
  <2>4. PICK n \in 1 .. x : p[n] = <<k, b>>
    BY <1>5, <2>3
  <2>5. at[n] = <<c, b>>
    BY <2>1, <2>4
  <2>6. QED
    BY <2>5
<1> HIDE DEF at
<1>10. ASSUME NEW n \in 1 .. x, NEW l \in 1 .. x, n < l
       PROVE  Before(at[n][1], at[n][2], at[l][1], at[l][2])
  <2>1. ASSUME NEW k \in 1 .. y
        PROVE  (CHOOSE j \in DOMAIN CrcOrder : CrcOrder[j] = CrcOrder[k]) = k
    <3>1. \A i, j \in DOMAIN CrcOrder : CrcOrder[i] = CrcOrder[j] => i = j
      BY CrcsAre
    <3>2. k \in DOMAIN CrcOrder
      BY <1>2, CrcsAre
    <3>3. QED
      BY <3>1, <3>2
  <2>2. PICK j \in 1 .. y : j = p[n][1]
    BY <1>6
  <2>3. PICK k \in 1 .. y : k = p[l][1]
    BY <1>6
  <2>4. j < k \/ (j = k /\ p[n][2] < p[l][2])
    BY <1>5, <1>10, <2>2, <2>3 DEF InOrder
  <2>5. at[n][1] = CrcOrder[j] /\ at[l][1] = CrcOrder[k] /\ at[n][2] = p[n][2] /\ at[l][2] = p[l][2]
    BY <1>8, <2>2, <2>3
  <2>6. QED
    BY <2>1, <2>4, <2>5 DEF Before
<1>11. \A n \in 1 .. x : At(m, V, n, at[n][1], at[n][2])
  BY <1>6, <1>8
<1>12. Visits(m, V, at)
  BY <1>1, <1>7, <1>9, <1>10, <1>11 DEF Visits
<1>13. QED
  BY <1>12

\* The first sensor of a name that is visited.
HasName(m, p, name) ==
    /\ p = <<p[1], p[2]>> /\ p[1] \in DOMAIN m
    /\ p[2] \in DOMAIN m[p[1]].sensors /\ m[p[1]].sensors[p[2]].name = name
FirstOf(m, p, name) ==
    /\ HasName(m, p, name)
    /\ \A q : HasName(m, q, name) /\ q # p => Before(p[1], p[2], q[1], q[2])
KeptByName(m) ==
    \A c \in DOMAIN m : \A b \in DOMAIN m[c].sensors :
        m[c].sensors[b].keep <=> AskedFor(m[c].sensors[b].name)

\* Where a name decides what is kept, the columns are in the order in which
\* their names are first met.
LEMMA ColumnOrder ==
    ASSUME NEW m, AreLists(m, Crcs), KeptByName(m), NEW cols, cols = CommonList(m, CrcOrder)
    PROVE  \A i, j \in 1 .. Len(cols) : i < j =>
              /\ cols[i].name # cols[j].name
              /\ \E p, q : /\ FirstOf(m, p, cols[i].name) /\ FirstOf(m, q, cols[j].name)
                           /\ Before(p[1], p[2], q[1], q[2])
<1>1. PICK V \in Seq(SensorType) : V = Visited(m, CrcOrder)
  BY VisitedIs, CrcsAre
<1>2. ColumnsOf(V, Len(V), cols)
  BY <1>1, CommonIs DEF CommonList
<1>3. PICK x \in Nat : x = Len(cols)
  BY <1>2 DEF ColumnsOf
<1>4. PICK y \in Nat : y = Len(V)
  OBVIOUS
<1>5. PICK at \in [1 .. x -> 1 .. y] :
          /\ \A i \in 1 .. x : FirstAt(V, at[i], cols[i].name)
          /\ \A i, j \in 1 .. x : i < j => at[i] < at[j]
  BY <1>2, <1>3, <1>4 DEF ColumnsOf
<1>6. PICK place : Visits(m, V, place)
  BY <1>1, VisitedInOrder
<1>6a. /\ place \in [1 .. y -> Crcs \X Nat]
       /\ \A n \in 1 .. y : At(m, V, n, place[n][1], place[n][2])
  BY <1>4, <1>6 DEF Visits
<1>6b. \A n, l \in 1 .. y :
          n < l => Before(place[n][1], place[n][2], place[l][1], place[l][2])
  BY <1>4, <1>6 DEF Visits
<1>6c. \A c \in DOMAIN m : \A b \in DOMAIN m[c].sensors :
          \E n \in 1 .. y : place[n] = <<c, b>>
  BY <1>4, <1>6 DEF Visits
<1>6d. \A n \in 1 .. y : place[n] = <<place[n][1], place[n][2]>>
  <2>1. TAKE n \in 1 .. y
  <2>2. place[n] \in Crcs \X Nat
    BY <1>6a
  <2>3. QED
    BY ONLY <2>2
<1>7. /\ \A n \in 1 .. y : At(m, V, n, place[n][1], place[n][2])
                           /\ place[n] = <<place[n][1], place[n][2]>>
      /\ \A n, l \in 1 .. y :
            n < l => Before(place[n][1], place[n][2], place[l][1], place[l][2])
      /\ \A c \in DOMAIN m : \A b \in DOMAIN m[c].sensors :
            \E n \in 1 .. y : place[n] = <<c, b>>
  BY <1>6a, <1>6b, <1>6c, <1>6d
<1>8. ASSUME NEW i \in 1 .. x
      PROVE  FirstOf(m, place[at[i]], cols[i].name)
  <2>1. PICK n \in 1 .. y : n = at[i]
    BY <1>5
  <2>2. PICK name : name = cols[i].name
    OBVIOUS
  <2>3. /\ V[n].keep /\ V[n].name = name
        /\ \A l \in 1 .. n - 1 : V[l].keep => V[l].name # name
    BY <1>5, <2>1, <2>2 DEF FirstAt
  <2>4. At(m, V, n, place[n][1], place[n][2]) /\ place[n] = <<place[n][1], place[n][2]>>
    BY <1>7
  <2>5. HasName(m, place[n], name)
    BY <2>3, <2>4 DEF At, HasName
  <2>6. AskedFor(name)
    BY <2>3, <2>4 DEF At, KeptByName
  <2>7. ASSUME NEW q, HasName(m, q, name), q # place[n]
        PROVE  Before(place[n][1], place[n][2], q[1], q[2])
    <3>1. q = <<q[1], q[2]>> /\ q[1] \in DOMAIN m /\ q[2] \in DOMAIN m[q[1]].sensors
      BY <2>7 DEF HasName
    <3>2. PICK l \in 1 .. y : place[l] = <<q[1], q[2]>>
      BY <1>7, <3>1
    <3>3. place[l] = q
      BY <3>1, <3>2
    <3>4. V[l].name = name /\ V[l].keep
      <4>1. At(m, V, l, q[1], q[2])
        BY <1>7, <3>3
      <4>2. V[l] = m[q[1]].sensors[q[2]]
        BY <4>1 DEF At
      <4>3. V[l].name = name
        BY <2>7, <4>2 DEF HasName
      <4>4. QED
        BY <2>6, <3>1, <4>2, <4>3 DEF KeptByName
    <3>5. ~(l \in 1 .. n - 1)
      BY <2>3, <3>4
    <3>6. n < l
      BY <2>7, <3>3, <3>5
    <3>7. QED
      BY <1>7, <3>3, <3>6
  <2>8. FirstOf(m, place[n], name)
    BY <2>5, <2>7 DEF FirstOf
  <2>9. QED
    BY <2>1, <2>2, <2>8
<1>9. ASSUME NEW i \in 1 .. x, NEW j \in 1 .. x, i < j
      PROVE  /\ cols[i].name # cols[j].name
             /\ \E p, q : /\ FirstOf(m, p, cols[i].name) /\ FirstOf(m, q, cols[j].name)
                          /\ Before(p[1], p[2], q[1], q[2])
  <2>1. at[i] \in 1 .. y /\ at[j] \in 1 .. y /\ at[i] < at[j]
    BY <1>5, <1>9
  <2>2. Before(place[at[i]][1], place[at[i]][2], place[at[j]][1], place[at[j]][2])
    BY <1>7, <2>1
  <2>3. FirstOf(m, place[at[i]], cols[i].name) /\ FirstOf(m, place[at[j]], cols[j].name)
    BY <1>8
  <2>4. cols[i].name # cols[j].name
    <3>1. at[i] \in 1 .. at[j] - 1
      BY <2>1
    <3>2. V[at[i]].keep /\ V[at[i]].name = cols[i].name
      BY <1>5 DEF FirstAt
    <3>3. V[at[i]].keep => V[at[i]].name # cols[j].name
      BY <1>5, <3>1 DEF FirstAt
    <3>4. QED
      BY <3>2, <3>3
  <2>5. QED
    BY <2>2, <2>3, <2>4
<1>10. QED
  BY <1>3, <1>9

\* A name has only one first sensor.
LEMMA FirstIsOne ==
    ASSUME NEW m, AreLists(m, Crcs), NEW name, NEW p, NEW q,
           FirstOf(m, p, name), FirstOf(m, q, name)
    PROVE  p = q
<1> SUFFICES ASSUME p # q PROVE FALSE
  OBVIOUS
<1>1. Before(p[1], p[2], q[1], q[2]) /\ Before(q[1], q[2], p[1], p[2])
  BY DEF FirstOf
<1>2. \A c \in Crcs : (CHOOSE n \in DOMAIN CrcOrder : CrcOrder[n] = c) \in Nat
  <2>1. TAKE c \in Crcs
  <2>2. \E n \in DOMAIN CrcOrder : CrcOrder[n] = c
    BY CrcsAre
  <2>3. \A n \in DOMAIN CrcOrder : n \in Nat
    BY CrcsAre
  <2>4. QED
    BY <2>2, <2>3
<1>3. p[1] \in Crcs /\ q[1] \in Crcs /\ p[2] \in Nat /\ q[2] \in Nat
  <2>1. ASSUME NEW t, HasName(m, t, name) PROVE t[1] \in Crcs /\ t[2] \in Nat
    <3>1. t[1] \in DOMAIN m /\ t[2] \in DOMAIN m[t[1]].sensors
      BY <2>1 DEF HasName
    <3>2. m[t[1]] \in ListType /\ t[1] \in Crcs
      BY <3>1 DEF AreLists
    <3>3. QED
      BY <3>1, <3>2, ListIs
  <2>2. QED
    BY <2>1 DEF FirstOf
<1>4. PICK P \in Nat : P = CHOOSE n \in DOMAIN CrcOrder : CrcOrder[n] = p[1]
  BY <1>2, <1>3
<1>5. PICK Q \in Nat : Q = CHOOSE n \in DOMAIN CrcOrder : CrcOrder[n] = q[1]
  BY <1>2, <1>3
<1>6. /\ P < Q \/ (p[1] = q[1] /\ p[2] < q[2])
      /\ Q < P \/ (q[1] = p[1] /\ q[2] < p[2])
  BY <1>1, <1>4, <1>5 DEF Before
<1>7. p[1] = q[1] => P = Q
  BY <1>4, <1>5
<1>8. QED
  BY <1>3, <1>6, <1>7

-----------------------------------------------------------------------------
(* The second pass *)

\* A list that went through setUpForData.
CommonIn(list, cols) ==
    /\ list.nToStore = Len(cols)
    /\ \A k \in DOMAIN list.sensors : list.sensors[k].keep => AtColumn(cols, list.sensors[k])
\* The columns are in the order in which their names are first met.
OrderIn(m, cols) ==
    \A i, j \in 1 .. Len(cols) : i < j =>
       /\ cols[i].name # cols[j].name
       /\ \E p, q : /\ FirstOf(m, p, cols[i].name) /\ FirstOf(m, q, cols[j].name)
                    /\ Before(p[1], p[2], q[1], q[2])
\* They have the names asked for among those of the lists.
NamesIn(m, cols, names) ==
    \A name : (\E i \in 1 .. Len(cols) : cols[i].name = name) <=>
       /\ names = {} \/ name \in names
       /\ \E c \in DOMAIN m : \E b \in DOMAIN m[c].sensors : m[c].sensors[b].name = name

\* What setUpForData leaves: the lists `m` with the common columns `cols`.
Laid(m, cols, names) ==
    /\ AreLists(m, Crcs) /\ cols \in Seq(SensorType)
    /\ \A c \in DOMAIN m : CommonIn(m[c], cols)
    /\ OrderIn(m, cols)
    /\ NamesIn(m, cols, names)

\* What comes first does not depend on what setUpForData changes.
LEMMA FirstStays ==
    ASSUME NEW m, NEW r, DOMAIN r = DOMAIN m, \A c \in DOMAIN m : SameSensors(m[c], r[c]),
           NEW p, NEW name, FirstOf(m, p, name)
    PROVE  FirstOf(r, p, name)
<1>1. ASSUME NEW q PROVE HasName(r, q, name) <=> HasName(m, q, name)
  <2>1. ASSUME q[1] \in DOMAIN m
        PROVE  /\ DOMAIN r[q[1]].sensors = DOMAIN m[q[1]].sensors
               /\ \A k \in DOMAIN m[q[1]].sensors :
                     r[q[1]].sensors[k].name = m[q[1]].sensors[k].name
    BY <2>1 DEF SameSensors
  <2>2. QED
    BY <2>1 DEF HasName
<1>2. QED
  BY <1>1 DEF FirstOf

\* The end of the first pass.
LEMMA SetUpLays ==
    ASSUME NEW m, AreLists(m, Crcs),
           \A c \in DOMAIN m : \A k \in DOMAIN m[c].sensors : m[c].sensors[k].keep,
           SizesAgree(Filtered(m), CrcOrder),
           NEW r, r = Reindexed(Filtered(m), CrcOrder),
           NEW cols, cols = CommonList(Filtered(m), CrcOrder)
    PROVE  Laid(r, cols, toKeep) /\ DOMAIN r = DOMAIN m
<1>1. PICK F : F = Filtered(m)
  OBVIOUS
<1>2. /\ AreLists(F, Crcs) /\ DOMAIN F = DOMAIN m
      /\ \A c \in DOMAIN m :
            /\ SameSensors(m[c], F[c])
            /\ \A k \in DOMAIN m[c].sensors :
                  F[c].sensors[k].keep <=> AskedFor(m[c].sensors[k].name)
  BY <1>1, FilteredIs
<1>3. /\ SizesAgree(F, CrcOrder) /\ r = Reindexed(F, CrcOrder) /\ cols = CommonList(F, CrcOrder)
  BY <1>1
<1>4. /\ AreLists(r, Crcs) /\ DOMAIN r = DOMAIN F /\ cols \in Seq(SensorType)
      /\ \A c \in DOMAIN F :
            /\ SameSensors(F[c], r[c]) /\ r[c].nToStore = Len(cols)
            /\ \A k \in DOMAIN F[c].sensors :
                  /\ r[c].sensors[k].keep = F[c].sensors[k].keep
                  /\ r[c].sensors[k].keep => AtColumn(cols, r[c].sensors[k])
  BY <1>2, <1>3, ReindexedIs, CrcsAre
<1>5. KeptByName(F)
  BY <1>2 DEF SameSensors, KeptByName
<1>6. \A i, j \in 1 .. Len(cols) : i < j =>
         /\ cols[i].name # cols[j].name
         /\ \E p, q : /\ FirstOf(F, p, cols[i].name) /\ FirstOf(F, q, cols[j].name)
                      /\ Before(p[1], p[2], q[1], q[2])
  BY <1>2, <1>3, <1>5, ColumnOrder
<1>7. OrderIn(r, cols)
  <2>1. ASSUME NEW p, NEW name, FirstOf(F, p, name) PROVE FirstOf(r, p, name)
    BY <1>4, <2>1, FirstStays
  <2>2. QED
    BY <1>6, <2>1 DEF OrderIn
<1>8. NamesIn(r, cols, toKeep)
  <2>1. ASSUME NEW name
        PROVE  (\E i \in 1 .. Len(cols) : cols[i].name = name) <=>
                 \E c \in DOMAIN F : \E b \in DOMAIN F[c].sensors :
                    F[c].sensors[b].keep /\ F[c].sensors[b].name = name
    <3>1. IsOrder(CrcOrder, Crcs) /\ AreLists(F, Crcs) /\ cols = CommonList(F, CrcOrder)
      BY <1>2, <1>3, CrcsAre
    <3>2. ColumnsAreKept(F, cols)
      BY ONLY <3>1, ColumnNames
    <3>3. QED
      BY ONLY <3>2 DEF ColumnsAreKept
  <2>2. ASSUME NEW c \in DOMAIN F
        PROVE  /\ DOMAIN r[c].sensors = DOMAIN F[c].sensors
               /\ \A b \in DOMAIN F[c].sensors :
                     /\ r[c].sensors[b].name = F[c].sensors[b].name
                     /\ F[c].sensors[b].keep <=> AskedFor(F[c].sensors[b].name)
    BY <1>4, <1>5 DEF SameSensors, KeptByName
  <2>3. ASSUME NEW name
        PROVE  (\E c \in DOMAIN F : \E b \in DOMAIN F[c].sensors :
                   F[c].sensors[b].keep /\ F[c].sensors[b].name = name) <=>
               /\ AskedFor(name)
               /\ \E c \in DOMAIN r : \E b \in DOMAIN r[c].sensors : r[c].sensors[b].name = name
    BY <1>4, <2>2
  <2>4. QED
    BY <2>1, <2>3 DEF NamesIn, AskedFor
<1>9. \A c \in DOMAIN r : CommonIn(r[c], cols)
  BY <1>4 DEF CommonIn, SameSensors
<1>10. QED
  BY <1>2, <1>4, <1>7, <1>8, <1>9 DEF Laid

-----------------------------------------------------------------------------
(* The invariant *)

\* The lists of the first pass.
KnownOf(m, new) == [c \in DOMAIN m \ new |-> m[c]]

Types ==
    /\ input \in Inputs /\ toKeep \in KeepLists /\ criteria \in CriteriaLists
    /\ disk \subseteq Keys
    /\ AreLists(map, Crcs)
    /\ all \in Seq(SensorType)
    /\ pass \in {"one", "two", "done", "exit"}
    /\ accepted \in Seq(DOMAIN input)
    /\ given = NoList \/ (given.crc \in Crcs /\ given.list \in ListType)
    /\ late \subseteq DOMAIN map
\* The first pass takes a file at most once.
Position ==
    /\ f \in Nat /\ 1 <= f
    /\ Len(accepted) <= Len(input)
    /\ ~InSecondPass => f <= Len(input) + 1
    /\ pass = "one" => Len(accepted) < f
    /\ InSecondPass => f <= Len(accepted) + 1
\* Before setUpForData the lists are as they were read.
AsRead ==
    pass = "one" =>
        /\ late = {} /\ given = NoList
        /\ \A c \in DOMAIN map : \A k \in DOMAIN map[c].sensors : map[c].sensors[k].keep
FullFiles ==
    \A k \in 1 .. Len(accepted) :
        ~input[accepted[k]].factored => input[accepted[k]].crc \in Known
Placed == InSecondPass => Laid(KnownOf(map, late), all, toKeep)
Handed == InSecondPass /\ given # NoList /\ given.crc \in Known => CommonIn(given.list, all)

IInv == Types /\ Position /\ AsRead /\ FullFiles /\ Placed /\ Handed

\* The start.
LEMMA InitInv == Init => IInv
<1> SUFFICES ASSUME Init PROVE IInv
  OBVIOUS
<1>1. AreLists(map, Crcs)
  BY DEF Init, AreLists
<1>2. Types
  BY <1>1 DEF Init, Types
<1>3. Len(input) \in Nat
  BY InputsAssumption DEF Init
<1>4. Position
  BY <1>3 DEF Init, Position, InSecondPass
<1>5. AsRead /\ FullFiles /\ Placed /\ Handed
  BY DEF Init, AsRead, FullFiles, Placed, Handed, InSecondPass
<1>6. QED
  BY <1>2, <1>4, <1>5 DEF IInv

\* What the types say of the files and of those accepted.
LEMMA InputIs ==
    ASSUME Types
    PROVE  /\ input \in Seq(FileShape) /\ Len(input) \in Nat /\ DOMAIN input = 1 .. Len(input)
           /\ Len(accepted) \in Nat /\ DOMAIN accepted = 1 .. Len(accepted)
           /\ \A k \in 1 .. Len(accepted) : /\ accepted[k] \in 1 .. Len(input)
                                            /\ input[accepted[k]].crc \in Crcs
           /\ \A k \in 1 .. Len(input) : input[k].crc \in Crcs /\ Lower[input[k].crc] \in Keys
<1>1. input \in Seq(FileShape)
  BY InputsAssumption DEF Types
<1>2. accepted \in Seq(DOMAIN input)
  BY DEF Types
<1>3. Len(input) \in Nat /\ DOMAIN input = 1 .. Len(input)
  BY <1>1
<1>4. Len(accepted) \in Nat /\ DOMAIN accepted = 1 .. Len(accepted)
      /\ \A k \in 1 .. Len(accepted) : accepted[k] \in 1 .. Len(input)
  BY <1>2, <1>3
<1>5. ASSUME NEW k \in 1 .. Len(input) PROVE input[k].crc \in Crcs /\ Lower[input[k].crc] \in Keys
  <2>1. input[k] \in FileShape
    BY <1>1, <1>3
  <2>2. input[k].crc \in Crcs
    BY <2>1 DEF FileShape
  <2>3. QED
    BY <2>2 DEF Keys
<1>6. QED
  BY <1>1, <1>3, <1>4, <1>5

\* One list more.
Extends(r, m, c, l) ==
    DOMAIN r = DOMAIN m \cup {c} /\ r[c] = l /\ \A d \in DOMAIN m : r[d] = m[d]

\* SensorsMap::insert adds one list and leaves the others.
LEMMA PutIs ==
    ASSUME NEW m, AreLists(m, Crcs), NEW c \in Crcs, c \notin DOMAIN m, NEW l \in ListType,
           NEW r, r = Put(m, c, l)
    PROVE  Extends(r, m, c, l) /\ AreLists(r, Crcs)
<1>1. /\ DOMAIN r = DOMAIN m \cup {c} /\ r[c] = l /\ \A d \in DOMAIN m : r[d] = m[d]
  BY DEF Put
<1>2. QED
  BY <1>1 DEF AreLists, Extends

\* A list first met in the second pass leaves those of the first alone.
LEMMA KnownStays ==
    ASSUME NEW m, NEW c, c \notin DOMAIN m, NEW l, NEW r, Extends(r, m, c, l), NEW new
    PROVE  KnownOf(r, new \cup {c}) = KnownOf(m, new)
<1>1. DOMAIN r \ (new \cup {c}) = DOMAIN m \ new
  BY DEF Extends
<1>2. \A d \in DOMAIN m \ new : r[d] = m[d]
  BY DEF Extends
<1>3. QED
  BY <1>1, <1>2 DEF KnownOf

-----------------------------------------------------------------------------
(* The steps.  What leaves the lists, the columns and the options alone keeps *)
(* most of the invariant.                                                     *)

\* What setUpForData left stays while the lists of the first pass do.
LEMMA PlacedStays ==
    ASSUME Placed, InSecondPass' => InSecondPass, KnownOf(map, late)' = KnownOf(map, late),
           all' = all, toKeep' = toKeep
    PROVE  Placed'
<1>1. PICK m : m = KnownOf(map, late)
  OBVIOUS
<1>2. KnownOf(map, late)' = m
  BY <1>1
<1>3. InSecondPass => Laid(m, all, toKeep)
  BY <1>1 DEF Placed
<1>4. QED
  BY <1>2, <1>3 DEF Placed

\* Another process's dump.
LEMMA PublishedInv == IInv /\ Published => IInv'
<1> SUFFICES ASSUME IInv, Published PROVE IInv'
  OBVIOUS
<1> USE DEF IInv
<1>1. /\ map' = map /\ all' = all /\ pass' = pass /\ f' = f /\ accepted' = accepted
      /\ given' = given /\ late' = late /\ input' = input /\ toKeep' = toKeep
      /\ criteria' = criteria /\ disk' \subseteq Keys
  BY DEF Published, options, Types
<1>2. Types' /\ Position' /\ AsRead' /\ FullFiles'
  BY <1>1 DEF Types, Position, AsRead, FullFiles, Known, InSecondPass
<1>3. Placed' /\ Handed'
  BY <1>1, PlacedStays DEF Handed, Known, InSecondPass
<1>4. QED
  BY <1>2, <1>3

\* A step that changes nothing.
LEMMA StutterInv == IInv /\ UNCHANGED vars => IInv'
<1> SUFFICES ASSUME IInv, UNCHANGED vars PROVE IInv'
  OBVIOUS
<1> USE DEF IInv
<1>1. /\ map' = map /\ all' = all /\ pass' = pass /\ f' = f /\ accepted' = accepted
      /\ given' = given /\ late' = late /\ input' = input /\ toKeep' = toKeep
      /\ criteria' = criteria /\ disk' = disk
  BY DEF vars
<1>2. Types' /\ Position' /\ AsRead' /\ FullFiles'
  BY <1>1 DEF Types, Position, AsRead, FullFiles, Known, InSecondPass
<1>3. Placed' /\ Handed'
  BY <1>1, PlacedStays DEF Handed, Known, InSecondPass
<1>4. QED
  BY <1>2, <1>3

\* What the first pass does to the lists.
LEMMA InsertIs ==
    ASSUME Types, AsRead, pass = "one", NEW k \in 1 .. Len(input), Insert(input[k])
    PROVE  /\ AreLists(map', Crcs) /\ disk' \subseteq Keys /\ DOMAIN map \subseteq DOMAIN map'
           /\ \A c \in DOMAIN map' : \A b \in DOMAIN map'[c].sensors : map'[c].sensors[b].keep
           /\ ~input[k].factored => input[k].crc \in DOMAIN map'
<1>1. PICK c \in Crcs : c = input[k].crc
  BY InputIs
<1>2. PICK key \in Keys : key = Lower[c]
  BY <1>1, InputIs
<1>3. CASE c \in DOMAIN map \/ (input[k].factored /\ key \notin disk)
  <2>1. map' = map /\ disk' = disk
    BY <1>1, <1>2, <1>3 DEF Insert
  <2>2. QED
    BY <1>1, <1>3, <2>1 DEF Types, AsRead
<1>4. CASE ~(c \in DOMAIN map \/ (input[k].factored /\ key \notin disk))
  <2>1. PICK l : l = Raw(List[key])
    OBVIOUS
  <2>2. l \in ListType /\ \A b \in DOMAIN l.sensors : l.sensors[b].keep
    BY <1>2, <2>1, RawIs, ListsAssumption
  <2>3. map' = Put(map, c, l) /\ disk' \subseteq Keys
    BY <1>1, <1>2, <1>4, <2>1 DEF Insert, Dump, Types
  <2>4. AreLists(map, Crcs) /\ c \notin DOMAIN map
    BY <1>4 DEF Types
  <2>4a. PICK r : r = map'
    OBVIOUS
  <2>4b. /\ DOMAIN r = DOMAIN map \cup {c} /\ r[c] = l
         /\ \A d \in DOMAIN map : r[d] = map[d]
         /\ AreLists(r, Crcs)
    <3>1. c \in Crcs /\ l \in ListType /\ r = Put(map, c, l)
      BY <2>2, <2>3, <2>4a
    <3>2. Extends(r, map, c, l) /\ AreLists(r, Crcs)
      BY ONLY <2>4, <3>1, PutIs
    <3>3. QED
      BY <3>2 DEF Extends
  <2>5. /\ DOMAIN map' = DOMAIN map \cup {c} /\ map'[c] = l
        /\ \A d \in DOMAIN map : map'[d] = map[d]
        /\ AreLists(map', Crcs)
    BY <2>4a, <2>4b
  <2>6. ASSUME NEW d \in DOMAIN map', NEW b \in DOMAIN map'[d].sensors
        PROVE  map'[d].sensors[b].keep
    BY <2>2, <2>5, <2>6 DEF AsRead
  <2>7. QED
    BY <1>1, <2>3, <2>5, <2>6
<1>5. QED
  BY <1>3, <1>4

\* A file taken in the first pass.
LEMMA DiscoverInv == IInv /\ Discover => IInv'
<1> SUFFICES ASSUME IInv, Discover PROVE IInv'
  OBVIOUS
<1> USE DEF IInv
<1>1. /\ pass = "one" /\ f <= Len(input) /\ Insert(input[f])
      /\ accepted' = Append(accepted, f) /\ f' = f + 1
      /\ input' = input /\ toKeep' = toKeep /\ criteria' = criteria
      /\ all' = all /\ pass' = pass /\ given' = given /\ late' = late
  BY DEF Discover, options
<1>2. late = {} /\ given = NoList /\ ~InSecondPass
  BY <1>1 DEF AsRead, InSecondPass
<1>3. f \in 1 .. Len(input)
  BY <1>1, InputIs DEF Position
<1>4. /\ AreLists(map', Crcs) /\ disk' \subseteq Keys /\ DOMAIN map \subseteq DOMAIN map'
      /\ \A c \in DOMAIN map' : \A b \in DOMAIN map'[c].sensors : map'[c].sensors[b].keep
      /\ ~input[f].factored => input[f].crc \in DOMAIN map'
  BY <1>1, <1>3, InsertIs
<1>5. /\ accepted' \in Seq(DOMAIN input) /\ Len(accepted') = Len(accepted) + 1
      /\ accepted'[Len(accepted) + 1] = f
      /\ \A k \in 1 .. Len(accepted) : accepted'[k] = accepted[k]
  BY <1>1, <1>3, InputIs DEF Types
<1>6. Types'
  BY <1>1, <1>2, <1>4, <1>5 DEF Types
<1>7. Position'
  BY <1>1, <1>3, <1>5, InputIs DEF Position, InSecondPass
<1>8. AsRead'
  BY <1>1, <1>2, <1>4 DEF AsRead
<1>9. FullFiles'
  <2>1. ASSUME NEW k \in 1 .. Len(accepted) + 1, ~input[accepted'[k]].factored
        PROVE  input[accepted'[k]].crc \in DOMAIN map'
    <3>1. CASE k = Len(accepted) + 1
      BY <1>4, <1>5, <2>1, <3>1
    <3>2. CASE k # Len(accepted) + 1
      <4>1. k \in 1 .. Len(accepted)
        BY <3>2, InputIs
      <4>2. QED
        BY <1>2, <1>4, <1>5, <2>1, <4>1 DEF FullFiles, Known
    <3>3. QED
      BY <3>1, <3>2
  <2>2. Known' = DOMAIN map'
    BY <1>1, <1>2 DEF Known
  <2>3. Len(accepted') = Len(accepted) + 1 /\ input' = input
    BY <1>1, <1>5
  <2>4. QED
    BY <2>1, <2>2, <2>3 DEF FullFiles
<1>10. Placed' /\ Handed'
  BY <1>1, <1>2 DEF Placed, Handed, InSecondPass
<1>11. QED
  BY <1>6, <1>7, <1>8, <1>9, <1>10

\* A file left out in the first pass.
LEMMA DiscoverSkipsInv == IInv /\ DiscoverSkips => IInv'
<1> SUFFICES ASSUME IInv, DiscoverSkips PROVE IInv'
  OBVIOUS
<1> USE DEF IInv
<1>1. /\ pass = "one" /\ f <= Len(input) /\ f' = f + 1
      /\ map' = map /\ all' = all /\ pass' = pass /\ accepted' = accepted
      /\ given' = given /\ late' = late /\ input' = input /\ toKeep' = toKeep
      /\ criteria' = criteria /\ disk' = disk
  BY DEF DiscoverSkips, options
<1>2. Types' /\ AsRead' /\ FullFiles'
  BY <1>1 DEF Types, AsRead, FullFiles, Known
<1>3. Position'
  BY <1>1, InputIs DEF Position, InSecondPass
<1>4. Placed' /\ Handed'
  BY <1>1 DEF Placed, Handed, InSecondPass
<1>5. QED
  BY <1>2, <1>3, <1>4

\* The end of the first pass.
LEMMA SetUpInv == IInv /\ SetUp => IInv'
<1> SUFFICES ASSUME IInv, SetUp PROVE IInv'
  OBVIOUS
<1> USE DEF IInv
<1>1. /\ pass = "one" /\ f > Len(input) /\ accepted # << >>
      /\ SizesAgree(Filtered(map), CrcOrder)
      /\ map' = Reindexed(Filtered(map), CrcOrder)
      /\ all' = CommonList(Filtered(map), CrcOrder)
      /\ pass' = "two" /\ f' = 1
      /\ input' = input /\ toKeep' = toKeep /\ criteria' = criteria
      /\ disk' = disk /\ accepted' = accepted /\ given' = given /\ late' = late
  BY DEF SetUp, SetUpForData, options
<1>2. /\ late = {} /\ given = NoList /\ AreLists(map, Crcs)
      /\ \A c \in DOMAIN map : \A k \in DOMAIN map[c].sensors : map[c].sensors[k].keep
  BY <1>1 DEF AsRead, Types
<1>3. PICK r : r = map'
  OBVIOUS
<1>4. PICK cols : cols = all'
  OBVIOUS
<1>5. Laid(r, cols, toKeep) /\ DOMAIN r = DOMAIN map
  BY <1>1, <1>2, <1>3, <1>4, SetUpLays
<1>6. AreLists(r, Crcs) /\ cols \in Seq(SensorType)
  BY <1>5 DEF Laid
<1>7. Types'
  BY <1>1, <1>2, <1>3, <1>4, <1>6 DEF Types
<1>8. Position'
  BY <1>1, InputIs DEF Position, InSecondPass
<1>9. AsRead' /\ Handed'
  BY <1>1, <1>2 DEF AsRead, Handed
<1>10. FullFiles'
  BY <1>1, <1>2, <1>3, <1>5 DEF FullFiles, Known
<1>11. Placed'
  <2>1. r = [c \in DOMAIN r |-> r[c]]
    BY <1>1, <1>3 DEF Reindexed
  <2>2. KnownOf(r, {}) = r
    BY <2>1 DEF KnownOf
  <2>3. KnownOf(map, late)' = r
    BY <1>1, <1>2, <1>3, <2>2
  <2>4. Laid(KnownOf(map, late)', cols, toKeep)
    BY <1>5, <2>3
  <2>5. QED
    BY <1>1, <1>4, <2>4 DEF Placed
<1>12. QED
  BY <1>7, <1>8, <1>9, <1>10, <1>11

\* The exits after the first pass.
LEMMA SetUpFailsInv == IInv /\ SetUpFails => IInv'
<1> SUFFICES ASSUME IInv, SetUpFails PROVE IInv'
  OBVIOUS
<1> USE DEF IInv
<1>1. /\ pass = "one" /\ f > Len(input) /\ pass' = "exit"
      /\ map' = map /\ all' = all /\ f' = f /\ accepted' = accepted
      /\ given' = given /\ late' = late /\ input' = input /\ toKeep' = toKeep
      /\ criteria' = criteria /\ disk' = disk
  BY DEF SetUpFails, options
<1>2. Types' /\ AsRead' /\ FullFiles'
  BY <1>1 DEF Types, AsRead, FullFiles, Known
<1>3. Position'
  BY <1>1 DEF Position, InSecondPass
<1>4. Placed' /\ Handed'
  BY <1>1 DEF Placed, Handed, InSecondPass
<1>5. QED
  BY <1>2, <1>3, <1>4

\* A file of a list of the first pass.
LEMMA DecodeInv == IInv /\ Decode => IInv'
<1> SUFFICES ASSUME IInv, Decode PROVE IInv'
  OBVIOUS
<1> USE DEF IInv
<1>1. PICK c : c = File.crc
  OBVIOUS
<1>2. /\ pass = "two" /\ f <= Len(accepted) /\ c \in DOMAIN map
      /\ given' = [crc |-> c, list |-> map[c]] /\ f' = f + 1
      /\ map' = map /\ all' = all /\ pass' = pass /\ accepted' = accepted
      /\ late' = late /\ input' = input /\ toKeep' = toKeep
      /\ criteria' = criteria /\ disk' = disk
  BY <1>1 DEF Decode, options
<1>3. PICK l \in ListType : l = map[c]
  BY <1>2 DEF Types, AreLists
<1>4. given' = [crc |-> c, list |-> l] /\ c \in Crcs
  BY <1>2, <1>3 DEF Types, AreLists
<1>5. given'.crc = c /\ given'.list = l
  BY <1>4
<1>6. Types'
  BY <1>2, <1>4, <1>5 DEF Types
<1>7. Position' /\ AsRead' /\ FullFiles'
  BY <1>2, InputIs DEF Position, AsRead, FullFiles, Known, InSecondPass
<1>8. Placed'
  BY <1>2, PlacedStays DEF InSecondPass
<1>9. Handed'
  <2>1. ASSUME c \in DOMAIN map \ late PROVE CommonIn(l, all)
    <3>1. Laid(KnownOf(map, late), all, toKeep)
      BY <1>2 DEF Placed, InSecondPass
    <3>2. c \in DOMAIN KnownOf(map, late) /\ KnownOf(map, late)[c] = l
      BY <1>3, <2>1 DEF KnownOf
    <3>3. QED
      BY <3>1, <3>2 DEF Laid
  <2>2. QED
    BY <1>2, <1>5, <2>1 DEF Handed, Known
<1>10. QED
  BY <1>6, <1>7, <1>8, <1>9

\* A file whose list was published in between.
LEMMA DecodeLateInv == IInv /\ DecodeLate => IInv'
<1> SUFFICES ASSUME IInv, DecodeLate PROVE IInv'
  OBVIOUS
<1> USE DEF IInv
<1>1. PICK c : c = File.crc
  OBVIOUS
<1>2. PICK l : l = Raw(List[Lower[c]])
  OBVIOUS
<1>3. /\ pass = "two" /\ f <= Len(accepted) /\ c \notin DOMAIN map
      /\ map' = Put(map, c, l) /\ given' = [crc |-> c, list |-> l]
      /\ late' = late \cup {c} /\ f' = f + 1
      /\ all' = all /\ pass' = pass /\ accepted' = accepted
      /\ input' = input /\ toKeep' = toKeep /\ criteria' = criteria /\ disk' = disk
  BY <1>1, <1>2 DEF DecodeLate, options
<1>4. f \in 1 .. Len(accepted)
  BY <1>3, InputIs DEF Position
<1>5. c \in Crcs /\ Lower[c] \in Keys
  BY <1>1, <1>4, InputIs DEF File
<1>6. l \in ListType
  BY <1>2, <1>5, RawIs, ListsAssumption
<1>7. PICK r : r = map'
  OBVIOUS
<1>8. AreLists(map, Crcs)
  BY DEF Types
<1>9. /\ DOMAIN r = DOMAIN map \cup {c}
      /\ AreLists(r, Crcs) /\ KnownOf(r, late \cup {c}) = KnownOf(map, late)
  <2>1. c \in Crcs /\ l \in ListType /\ c \notin DOMAIN map /\ r = Put(map, c, l)
    BY <1>3, <1>5, <1>6, <1>7
  <2>2. Extends(r, map, c, l) /\ AreLists(r, Crcs)
    BY ONLY <1>8, <2>1, PutIs
  <2>3. KnownOf(r, late \cup {c}) = KnownOf(map, late)
    BY <2>1, <2>2, KnownStays
  <2>4. QED
    BY <2>2, <2>3 DEF Extends
<1>10. given'.crc = c /\ given'.list = l
  BY <1>3
<1>11. Types'
  BY <1>3, <1>5, <1>6, <1>7, <1>9, <1>10 DEF Types
<1>12. Position' /\ AsRead'
  BY <1>3, InputIs DEF Position, AsRead, InSecondPass
<1>13. Known' = Known
  BY <1>3, <1>7, <1>9 DEF Known
<1>14. FullFiles'
  BY <1>3, <1>13 DEF FullFiles
<1>15. Placed'
  <2>1. KnownOf(map, late)' = KnownOf(r, late \cup {c})
    BY <1>3, <1>7
  <2>2. KnownOf(map, late)' = KnownOf(map, late)
    BY <1>9, <2>1
  <2>3. QED
    BY <1>3, <2>2, PlacedStays DEF InSecondPass
<1>16. Handed'
  BY <1>3, <1>10 DEF Handed, Known
<1>17. QED
  BY <1>11, <1>12, <1>14, <1>15, <1>16

\* A file whose list is still not there.
LEMMA DecodeUnknownInv == IInv /\ DecodeUnknown => IInv'
<1> SUFFICES ASSUME IInv, DecodeUnknown PROVE IInv'
  OBVIOUS
<1> USE DEF IInv
<1>1. /\ pass = "two" /\ f <= Len(accepted) /\ f' = f + 1
      /\ map' = map /\ all' = all /\ pass' = pass /\ accepted' = accepted
      /\ given' = given /\ late' = late /\ input' = input /\ toKeep' = toKeep
      /\ criteria' = criteria /\ disk' = disk
  BY DEF DecodeUnknown, options
<1>2. Types' /\ AsRead' /\ FullFiles'
  BY <1>1 DEF Types, AsRead, FullFiles, Known
<1>3. Position'
  BY <1>1, InputIs DEF Position, InSecondPass
<1>4. Placed' /\ Handed'
  BY <1>1, PlacedStays DEF Handed, Known, InSecondPass
<1>5. QED
  BY <1>2, <1>3, <1>4

\* The end of the second pass.
LEMMA FinishInv == IInv /\ Finish => IInv'
<1> SUFFICES ASSUME IInv, Finish PROVE IInv'
  OBVIOUS
<1> USE DEF IInv
<1>1. /\ pass = "two" /\ pass' = "done"
      /\ map' = map /\ all' = all /\ f' = f /\ accepted' = accepted
      /\ given' = given /\ late' = late /\ input' = input /\ toKeep' = toKeep
      /\ criteria' = criteria /\ disk' = disk
  BY DEF Finish, options
<1>2. Types' /\ AsRead' /\ FullFiles'
  BY <1>1 DEF Types, AsRead, FullFiles, Known
<1>3. Position'
  BY <1>1 DEF Position, InSecondPass
<1>4. Placed' /\ Handed'
  BY <1>1, PlacedStays DEF Handed, Known, InSecondPass
<1>5. QED
  BY <1>2, <1>3, <1>4

\* Every step keeps the invariant.
LEMMA NextInv == IInv /\ [Next]_vars => IInv'
BY PublishedInv, DiscoverInv, DiscoverSkipsInv, SetUpInv, SetUpFailsInv, DecodeInv,
   DecodeLateInv, DecodeUnknownInv, FinishInv, StutterInv DEF Next, Ended

\* Between the start and any exit the run satisfies the invariant: the options
\* and the files accepted, the lists as they were read until setUpForData, and
\* what setUpForData made of them afterwards (SensorsMap.C:24-134).
THEOREM Invariance == Spec => []IInv
BY InitInv, NextInv, PTL DEF Spec

-----------------------------------------------------------------------------
(* The properties *)

\* The run's state keeps its types: a file is accepted at most once, and what
\* is handed to Data::load is a list (dbd2netCDF.C:125-208).
THEOREM TypesHold == Spec => []TypeOK
<1>1. ASSUME IInv PROVE TypeOK
  <2> USE <1>1 DEF IInv
  <2>1. f \in 1 .. Len(input) + 1
    BY InputIs DEF Position
  <2>2. QED
    BY <2>1 DEF TypeOK, Types, AreLists
<1>2. QED
  BY <1>1, Invariance, PTL

\* CommonIn of the invariant is IsCommon of the property.
LEMMA CommonAre ==
    ASSUME NEW l \in ListType, CommonIn(l, all), Len(all) \in Nat
    PROVE  IsCommon(l)
<1>1. ASSUME NEW s \in ToSet(l.sensors), s.keep PROVE AtCommonColumn(s)
  <2>1. PICK k \in DOMAIN l.sensors : s = l.sensors[k]
    BY DEF ToSet
  <2>2. AtColumn(all, s)
    BY <1>1, <2>1 DEF CommonIn
  <2>3. QED
    BY <2>2 DEF AtColumn, AtCommonColumn, Columns
<1>2. QED
  BY <1>1 DEF IsCommon, CommonIn

\* What the invariant says of the lists of the first pass.
LEMMA KnownAre ==
    ASSUME IInv, InSecondPass
    PROVE  /\ Laid(KnownOf(map, late), all, toKeep)
           /\ DOMAIN KnownOf(map, late) = Known
           /\ \A c \in Known : KnownOf(map, late)[c] = map[c]
           /\ Len(all) \in Nat /\ DOMAIN all = 1 .. Len(all)
BY DEF IInv, Placed, Types, KnownOf, Known

\* Every list of the first pass has each written sensor at the common column of
\* its name and size, and is handed to Data::load like that
\* (SensorsMap.C:94-123).
THEOREM ListsAreCommon == Spec => []KnownListsAreCommon
<1>1. ASSUME IInv PROVE KnownListsAreCommon
  <2> USE <1>1
  <2> SUFFICES ASSUME InSecondPass
               PROVE  /\ \A c \in Known : IsCommon(map[c])
                      /\ given # NoList /\ given.crc \in Known => IsCommon(given.list)
    BY DEF KnownListsAreCommon
  <2>1. ASSUME NEW c \in Known PROVE IsCommon(map[c])
    <3>1. CommonIn(map[c], all)
      BY KnownAre DEF Laid
    <3>2. map[c] \in ListType
      BY DEF IInv, Types, AreLists, Known
    <3>3. QED
      BY <3>1, <3>2, KnownAre, CommonAre
  <2>2. ASSUME given # NoList, given.crc \in Known PROVE IsCommon(given.list)
    <3>1. CommonIn(given.list, all) /\ given.list \in ListType
      BY <2>2 DEF IInv, Handed, Types
    <3>2. QED
      BY <3>1, KnownAre, CommonAre
  <2>3. QED
    BY <2>1, <2>2
<1>2. QED
  BY <1>1, Invariance, PTL

\* First, of the property, is what comes first.
LEMMA FirstIs ==
    ASSUME NEW m, AreLists(m, Crcs), DOMAIN m = Known, \A c \in Known : m[c] = map[c],
           NEW p, NEW name, FirstOf(m, p, name)
    PROVE  First(name) = p
<1>1. ASSUME NEW q PROVE q \in Occurrences(name) <=> HasName(m, q, name)
  <2>1. q \in Occurrences(name) <=>
          \E c \in Known : \E k \in DOMAIN map[c].sensors :
             map[c].sensors[k].name = name /\ q = <<c, k>>
    BY DEF Occurrences
  <2>2. QED
    BY <2>1 DEF HasName
<1>2. ASSUME NEW q
      PROVE  (/\ q \in Occurrences(name)
              /\ \A t \in Occurrences(name) \ {q} : Before(q[1], q[2], t[1], t[2]))
             <=> FirstOf(m, q, name)
  BY <1>1 DEF FirstOf
<1>3. ASSUME NEW q, FirstOf(m, q, name) PROVE q = p
  BY <1>3, FirstIsOne
<1>4. PICK q : q = First(name)
  OBVIOUS
<1>5. /\ p \in Occurrences(name)
      /\ \A t \in Occurrences(name) \ {p} : Before(p[1], p[2], t[1], t[2])
  BY <1>2
<1>6. /\ q \in Occurrences(name)
      /\ \A t \in Occurrences(name) \ {q} : Before(q[1], q[2], t[1], t[2])
  BY <1>4, <1>5 DEF First
<1>7. FirstOf(m, q, name)
  BY <1>2, <1>6
<1>8. QED
  BY <1>3, <1>4, <1>7

\* The columns are in the order their names are first met going by CRC, and no
\* name has two: for the same known lists, neither the order of the files nor
\* their sorting moves a column (SensorsMap.C:94-116).
THEOREM ColumnsInOrder == Spec => []ColumnsFollowTheMap
<1>1. ASSUME IInv PROVE ColumnsFollowTheMap
  <2> USE <1>1
  <2> SUFFICES ASSUME InSecondPass, NEW i \in DOMAIN all, NEW j \in DOMAIN all, i < j
               PROVE  /\ all[i].name # all[j].name
                      /\ Before(First(all[i].name)[1], First(all[i].name)[2],
                                First(all[j].name)[1], First(all[j].name)[2])
    BY DEF ColumnsFollowTheMap
  <2>1. PICK m : m = KnownOf(map, late)
    OBVIOUS
  <2>2. Laid(m, all, toKeep) /\ DOMAIN m = Known /\ \A c \in Known : m[c] = map[c]
    BY <2>1, KnownAre
  <2>3. i \in 1 .. Len(all) /\ j \in 1 .. Len(all)
    BY KnownAre
  <2>4. all[i].name # all[j].name
    BY <2>2, <2>3 DEF Laid, OrderIn
  <2>5. PICK p : \E q : /\ FirstOf(m, p, all[i].name) /\ FirstOf(m, q, all[j].name)
                        /\ Before(p[1], p[2], q[1], q[2])
    BY <2>2, <2>3 DEF Laid, OrderIn
  <2>6. PICK q : /\ FirstOf(m, p, all[i].name) /\ FirstOf(m, q, all[j].name)
                 /\ Before(p[1], p[2], q[1], q[2])
    BY <2>5
  <2>7. AreLists(m, Crcs)
    BY <2>2 DEF Laid
  <2>8. First(all[i].name) = p /\ First(all[j].name) = q
    BY <2>2, <2>6, <2>7, FirstIs
  <2>9. QED
    BY <2>4, <2>6, <2>8
<1>2. QED
  BY <1>1, Invariance, PTL

\* The columns are the sensors -k asks for among those of the lists of the
\* first pass (SensorsMap.C:126-134, dbd2netCDF.C:195-198).
THEOREM NamesAreThoseAsked == Spec => []OutputIsWhatWasAsked
<1>1. ASSUME IInv PROVE OutputIsWhatWasAsked
  <2> USE <1>1
  <2> SUFFICES ASSUME InSecondPass
               PROVE  {s.name : s \in ToSet(all)} =
                      {n \in UNION {{s.name : s \in ToSet(map[c].sensors)} : c \in Known} :
                         toKeep = {} \/ n \in toKeep}
    BY DEF OutputIsWhatWasAsked
  <2>1. \A name : (\E i \in DOMAIN all : all[i].name = name) <=>
           /\ toKeep = {} \/ name \in toKeep
           /\ \E c \in Known : \E b \in DOMAIN map[c].sensors : map[c].sensors[b].name = name
    <3>1. PICK m : m = KnownOf(map, late)
      OBVIOUS
    <3>2. Laid(m, all, toKeep) /\ DOMAIN m = Known /\ \A c \in Known : m[c] = map[c]
      BY <3>1, KnownAre
    <3>3. DOMAIN all = 1 .. Len(all)
      BY KnownAre
    <3>4. NamesIn(m, all, toKeep)
      BY <3>2 DEF Laid
    <3>5. TAKE name
    <3>6. (\E i \in DOMAIN all : all[i].name = name) <=>
             /\ toKeep = {} \/ name \in toKeep
             /\ \E c \in DOMAIN m : \E b \in DOMAIN m[c].sensors : m[c].sensors[b].name = name
      BY <3>3, <3>4 DEF NamesIn
    <3>7. (\E c \in DOMAIN m : \E b \in DOMAIN m[c].sensors : m[c].sensors[b].name = name) <=>
          \E c \in Known : \E b \in DOMAIN map[c].sensors : map[c].sensors[b].name = name
      BY <3>2
    <3>8. QED
      BY <3>6, <3>7
  <2>2. \A name : name \in {s.name : s \in ToSet(all)} <=>
           \E i \in DOMAIN all : all[i].name = name
    BY DEF ToSet
  <2>3. \A c, name : name \in {s.name : s \in ToSet(map[c].sensors)} <=>
           \E b \in DOMAIN map[c].sensors : map[c].sensors[b].name = name
    BY DEF ToSet
  <2>4. \A name : name \in UNION {{s.name : s \in ToSet(map[c].sensors)} : c \in Known} <=>
           \E c \in Known : \E b \in DOMAIN map[c].sensors : map[c].sensors[b].name = name
    BY <2>3
  <2>5. QED
    BY <2>1, <2>2, <2>4
<1>2. QED
  BY <1>1, Invariance, PTL

\* One accepted file with its list in the header makes its CRC known in the
\* second pass (SensorsMap.C:54-68).
THEOREM FullFilesAreKnown == Spec => []OneFullFileIsEnough
<1>1. ASSUME IInv PROVE OneFullFileIsEnough
  <2> USE <1>1
  <2>1. \A k \in ToSet(accepted) : \E i \in 1 .. Len(accepted) : k = accepted[i]
    BY InputIs DEF ToSet, IInv
  <2>2. QED
    BY <2>1 DEF IInv, FullFiles, OneFullFileIsEnough
<1>2. QED
  BY <1>1, Invariance, PTL

\* Two sensors of one list that are written share a column only if the list
\* names both alike: with distinct names in a list, the columns of a file are
\* distinct.
ColumnsAreDistinct ==
    InSecondPass => \A c \in Known : \A k, l \in DOMAIN map[c].sensors :
        LET s == map[c].sensors[k]
            t == map[c].sensors[l]
        IN  s.keep /\ t.keep /\ s.name # t.name => s.index # t.index

\* Sensors of different names in one list go to different columns, whatever the
\* lists and the options: no value of a row lands on another's column
\* (SensorsMap.C:94-123, Data.C:31).
THEOREM ColumnsDiffer == Spec => []ColumnsAreDistinct
<1>1. ASSUME IInv PROVE ColumnsAreDistinct
  <2> USE <1>1
  <2> SUFFICES ASSUME InSecondPass, NEW c \in Known,
                      NEW k \in DOMAIN map[c].sensors, NEW l \in DOMAIN map[c].sensors,
                      map[c].sensors[k].keep, map[c].sensors[l].keep,
                      map[c].sensors[k].index = map[c].sensors[l].index
               PROVE  map[c].sensors[k].name = map[c].sensors[l].name
    BY DEF ColumnsAreDistinct
  <2>1. CommonIn(map[c], all)
    BY KnownAre DEF Laid
  <2>2. QED
    BY <2>1 DEF CommonIn, AtColumn
<1>2. QED
  BY <1>1, Invariance, PTL
=============================================================================
