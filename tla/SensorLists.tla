---------------------------- MODULE SensorLists ----------------------------
(* What SensorsMap and Sensors compute on sensor lists (src/src/SensorsMap.C *)
(* and src/src/Sensors.C): the raw list of a header or of a cache file, the  *)
(* -k and -c filters, and the common list of output columns.                 *)
EXTENDS Integers, Sequences, SequencesExt

\* A sensor in memory, and a list of them (Sensor.H, Sensors.H).
SensorType == [name: STRING, size: Nat, index: Int, keep: BOOLEAN, crit: BOOLEAN]
ListType == [sensors: Seq(SensorType), nToStore: Nat]

\* The list as a header or a .cac file gives it: every sensor at the index the
\* glider counted, written, and a criterion (the constructor of Sensor).
\* `list` is a sequence of [name, size].
Raw(list) ==
    [sensors |-> [k \in DOMAIN list |->
                    [name |-> list[k].name, size |-> list[k].size,
                     index |-> k - 1, keep |-> TRUE, crit |-> TRUE]],
     nToStore |-> Len(list)]

\* Sensors::qKeep and Sensors::qCriteria on every list; an absent option is the
\* empty set of names, and changes nothing.
Keep(m, names) ==
    IF names = {} THEN m
    ELSE [c \in DOMAIN m |->
            LET sensors == [k \in DOMAIN m[c].sensors |->
                              [m[c].sensors[k] EXCEPT !.keep = m[c].sensors[k].name \in names]]
            IN  [sensors |-> sensors,
                 nToStore |-> Cardinality({k \in DOMAIN sensors : sensors[k].keep})]]

Select(m, names) ==
    IF names = {} THEN m
    ELSE [c \in DOMAIN m |->
            [m[c] EXCEPT !.sensors =
               [k \in DOMAIN m[c].sensors |->
                  [m[c].sensors[k] EXCEPT !.crit = m[c].sensors[k].name \in names]]]]

\* setUpForData.  The lists are visited in the order of the map, which is that
\* of their CRCs whatever order the files came in; `order` lists all the CRCs.
Visited(m, order) ==
    FlattenSeq([k \in DOMAIN order |->
                  IF order[k] \in DOMAIN m THEN m[order[k]].sensors ELSE << >>])

\* A sensor to be kept of a name not seen yet gets the next column.
Meet(all, s) ==
    IF ~s.keep \/ \E a \in ToSet(all) : a.name = s.name THEN all
    ELSE Append(all, [s EXCEPT !.index = Len(all)])
Common(visited) ==
    LET all[n \in 0 .. Len(visited)] ==
            IF n = 0 THEN << >> ELSE Meet(all[n - 1], visited[n])
    IN  all[Len(visited)]
CommonList(m, order) == Common(Visited(m, order))

SizesAgree(m, order) ==
    LET visited == ToSet(Visited(m, order))
    IN  \A s, t \in visited : s.keep /\ t.keep /\ s.name = t.name => s.size = t.size

\* Only the sensors written out get a new index; every list gets the column
\* count of the common one.
Reindexed(m, order) ==
    LET all == CommonList(m, order)
        Column(s) == (CHOOSE k \in DOMAIN all : all[k].name = s.name) - 1
    IN  [c \in DOMAIN m |->
           [sensors |-> [k \in DOMAIN m[c].sensors |->
                LET s == m[c].sensors[k]
                IN  IF s.keep THEN [s EXCEPT !.index = Column(s)] ELSE s],
            nToStore |-> Len(all)]]
=============================================================================
