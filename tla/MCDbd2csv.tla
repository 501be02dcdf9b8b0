------------------------------ MODULE MCDbd2csv ------------------------------
(* An instance of Dbd2csv for TLC.  Files of two missions: two of one CRC,   *)
(* one of each byte order, a factored one of that CRC, one of another CRC,   *)
(* without num_ascii_tags and with a key that repeats, and some that are     *)
(* broken.                                                                   *)
EXTENDS Dbd2csv

L(key, value) == [key |-> key, value |-> value]
S(name, size, used) == L("s", [name |-> name, size |-> size, used |-> used])

ListA == <<S("m_depth", 4, TRUE), S("m_spare", 1, FALSE), S("m_time", 8, TRUE)>>
ListB == <<S("m_time", 8, TRUE), S("m_mode", 2, TRUE)>>

\* A header of 14 lines needs no num_ascii_tags.
Label(n) == [k \in 1 .. n |-> L("dbd_label", "DBD")]
Head2(tags, mission, crc, factored, n) ==
    <<L("num_ascii_tags", tags), L("mission_name", mission),
      L("sensor_list_crc", crc), L("sensor_list_factored", factored), L("total_num_sensors", n)>>
Time(t) == <<L("fileopen_time", t)>>
Body(order) == <<L("body", [order |-> order])>>

F(x, stream) == [stream |-> stream, size |-> 100 + x, records |-> 2]

A1 == F(1, Head2(6, "sci", "a", 0, 3) \o Time(7) \o ListA \o Body("little"))
A2 == F(2, Head2(8, "sci", "a", 0, 3) \o Time(3) \o Label(2) \o ListA \o Body("big"))
A3 == F(3, Head2(5, "sci", "a", 1, 3) \o Body("little"))
B4 == F(4, Label(9) \o Tail(Head2(0, "nav", "b", 0, 2)) \o Time(3) \o ListB \o Body("big"))
C5 == F(5, Head2(6, "nav", "c", 1, 2) \o Time(-1) \o Body("big"))
\* The cache has an empty list for it.
E6 == F(6, Head2(5, "nav", "e", 1, 2) \o Body("little"))
\* Broken: more header lines announced than there are, or fewer, no data, and
\* unknown bytes.
D7 == F(7, Head2(7, "sci", "a", 0, 3) \o ListA \o Body("little"))
D8 == F(8, Head2(4, "sci", "d", 0, 3) \o ListA \o Body("little"))
D9 == F(9, Head2(20, "sci", "a", 0, 3) \o Body("little"))
D10 == F(10, Head2(5, "sci", "a", 0, 3) \o ListA \o Body("other"))

MCStored == 1 .. 10
MCContent == <<A1, A2, A3, B4, C5, E6, D7, D8, D9, D10>>
MCCrcOrder == <<"", "a", "b", "c", "d", "e">>
MCCache == [c \in {"c", "e"} |-> IF c = "c" THEN <<[name |-> "m_mode", size |-> 1]>> ELSE << >>]

AllMissions == [skip |-> {}, keep |-> {}]
NavOnly == [skip |-> {}, keep |-> {"nav"}]
NotNav == [skip |-> {"nav"}, keep |-> {}]

Command(prog, input, sort, skip, strict, keep, missions) ==
    [prog |-> prog, input |-> input, sort |-> sort, skip |-> skip, strict |-> strict,
     keep |-> keep, missions |-> missions]

Pairs == {<<x, y>> : x, y \in MCStored}
Triples == {<<x, y, z>> : x, y, z \in 1 .. 7}
MCCommands ==
    {Command("dbd2csv", input, "none", skip, strict, {}, AllMissions) :
        input \in Pairs, skip \in {"no", "first", "all"}, strict \in BOOLEAN}
    \cup {Command("dbd2csv", input, "none", "no", FALSE, keep, missions) :
        input \in Pairs, keep \in {{}, {"m_mode", "m_time"}}, missions \in {NavOnly, NotNav}}
    \cup {Command("dbd2csv", input, sort, "first", FALSE, {}, AllMissions) :
        input \in Triples, sort \in {"header_time", "lexicographic"}}
    \cup {Command("dbdSensors", input, "none", "no", FALSE, {}, AllMissions) : input \in Pairs}
=============================================================================
