----------------------------- MODULE MCDataLoad -----------------------------
(* Instances of DataLoad for TLC.  The sensor lists are those SensorsMap     *)
(* hands to Data::load after setUpForData, computed by the same operators.   *)
EXTENDS DataLoad

Lists == INSTANCE SensorLists

N(name, size) == [name |-> name, size |-> size]

\* What Data::load looks at of the list of CRC "own", when the lists `m` were
\* collected in the map, -k was `keep`, -c was `crit`, and `own` is listed
\* before or after "other".
Handed(m, keep, crit, order) ==
    LET list == Lists!Reindexed(Lists!Select(Lists!Keep(m, keep), crit), order)["own"]
    IN  [sensors |-> [k \in DOMAIN list.sensors |->
                        [index |-> list.sensors[k].index, size |-> list.sensors[k].size,
                         keep |-> list.sensors[k].keep, crit |-> list.sensors[k].crit]],
         nToStore |-> list.nToStore]

Alone(own) == [c \in {"own"} |-> Lists!Raw(own)]
With(own, other) == [c \in {"own", "other"} |-> Lists!Raw(IF c = "own" THEN own ELSE other)]

XY == <<N("x", 1), N("y", 1)>>

\* No filter: both sensors written, both criteria.
Plain == Handed(Alone(<<N("x", 4), N("y", 1)>>), {}, {}, <<"own">>)

\* Another list of the batch put its columns first: the sensors of this one go
\* to columns 2 and 0, and it does not have column 1.
Permuted == Handed(With(XY, <<N("y", 1), N("z", 1)>>), {}, {}, <<"other", "own">>)

\* -c with y alone.
Selected == Handed(Alone(XY), {}, {"y"}, <<"own">>)

\* -k with x and z: y is not written and keeps the index its file gave it,
\* which is now the column of z.
Hidden == Handed(With(XY, <<N("z", 1)>>), {"x", "z"}, {}, <<"own", "other">>)

\* -k with x alone: the index the file gave y is out of range.
Beyond == Handed(Alone(XY), {"x"}, {}, <<"own">>)

\* A width Sensor::read does not know, and a -k list that matches nothing.
BadWidth == Handed(Alone(<<N("x", 1), N("y", 3)>>), {}, {}, <<"own">>)
Nothing == Handed(Alone(XY), {"w"}, {}, <<"own">>)

MCLayouts == {Plain, Permuted, Selected, Hidden, Beyond, BadWidth, Nothing}
SelectedOnly == {Selected}
=============================================================================
