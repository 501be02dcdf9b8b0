----------------------------- MODULE SensorsMap -----------------------------
(* The sensor lists of one run of dbd2netCDF (src/src/SensorsMap.C, driven   *)
(* by src/src/dbd2netCDF.C): the first pass collects a list per CRC from the *)
(* headers and from the cache, setUpForData gives them common columns, and   *)
(* the second pass hands each file's list to Data::load.  Other processes    *)
(* may publish a list in the shared cache at any time.                       *)
EXTENDS SensorLists, FiniteSets

CONSTANTS
    CrcOrder,      \* the CRCs as headers spell them, in the order of the map
    Lower,         \* the cache's spelling: CRC -> key (crcLower)
    List,          \* key -> the sensor list it stands for
    Inputs,        \* the command lines: sequences of files [crc, factored]
    KeepLists,     \* the -k options: sets of names, {} for none
    CriteriaLists  \* the -c options

Crcs == ToSet(CrcOrder)
Keys == {Lower[c] : c \in Crcs}
FileShape == [crc: Crcs, factored: BOOLEAN]

ASSUME OrderAssumption ==
    /\ CrcOrder \in Seq(Crcs)
    /\ \A i, j \in DOMAIN CrcOrder : CrcOrder[i] = CrcOrder[j] => i = j
ASSUME InputsAssumption == Inputs \subseteq Seq(FileShape)
ASSUME ListsAssumption ==
    \A key \in Keys : List[key] \in Seq([name: STRING, size: Nat]) /\ List[key] # << >>

VARIABLES
    input,     \* the files of the command line
    toKeep,    \* the names of -k
    criteria,  \* the names of -c
    disk,      \* the keys whose .cac file is in the cache directory
    map,       \* mMap: CRC -> list
    all,       \* mAllSensors
    pass,      \* "one", "two", or an exit: "done", "exit"
    f,         \* the file at hand
    accepted,  \* fileIndices
    given,     \* the list last handed to Data::load, and for which CRC
    late       \* the CRCs first met in the second pass: no variable of the code

vars == <<input, toKeep, criteria, disk, map, all, pass, f, accepted, given, late>>

options == <<input, toKeep, criteria>>
NoList == [crc |-> "none"]

Init ==
    /\ input \in Inputs
    /\ toKeep \in KeepLists
    /\ criteria \in CriteriaLists
    /\ disk \in SUBSET Keys
    /\ map = << >>
    /\ all = << >>
    /\ pass = "one"
    /\ f = 1
    /\ accepted = << >>
    /\ given = NoList
    /\ late = {}

Put(m, c, list) == [d \in DOMAIN m \cup {c} |-> IF d = c THEN list ELSE m[d]]

\* Another process finishes dumping a list.
Published ==
    /\ pass \notin {"done", "exit"}
    /\ \E key \in Keys \ disk : disk' = disk \cup {key}
    /\ UNCHANGED <<options, map, all, pass, f, accepted, given, late>>

\* Sensors::dump of the list of a header: without -C, or where the directory
\* cannot be made, it leaves no file.
Dump(file, key) == UNCHANGED disk \/ (~file.factored /\ disk' = disk \cup {key})

\* SensorsMap::insert in the first pass.  A CRC not met before is read from
\* the header and dumped, or, for a factored file, looked up in the cache; if
\* it is not there the file is accepted all the same.
InsertTrustsCache(file) ==
    LET key == Lower[file.crc]
    IN  IF file.crc \in DOMAIN map \/ (file.factored /\ key \notin disk) \/ (~file.factored /\ key \in disk)
        THEN UNCHANGED <<map, disk>>
        ELSE /\ map' = Put(map, file.crc, Raw(List[key]))
             /\ Dump(file, key)
Insert(file) ==
    LET key == Lower[file.crc]
    IN  IF file.crc \in DOMAIN map \/ (file.factored /\ key \notin disk)
        THEN UNCHANGED <<map, disk>>
        ELSE /\ map' = Put(map, file.crc, Raw(List[key]))
             /\ Dump(file, key)

DiscoverFromZero ==
    /\ pass = "one"
    /\ f <= Len(input)
    /\ Insert(input[f])
    /\ accepted' = Append(accepted, f - 1)
    /\ f' = f + 1
    /\ UNCHANGED <<options, all, pass, given, late>>
Discover ==
    /\ pass = "one"
    /\ f <= Len(input)
    /\ Insert(input[f])
    /\ accepted' = Append(accepted, f)
    /\ f' = f + 1
    /\ UNCHANGED <<options, all, pass, given, late>>

\* The header cannot be parsed, or belongs to a mission left out, or the dump
\* or the cached list fails: the file takes no part in the second pass.
DiscoverSkips ==
    /\ pass = "one"
    /\ f <= Len(input)
    /\ f' = f + 1
    /\ UNCHANGED <<options, disk, map, all, pass, accepted, given, late>>

\* The end of the first pass: the filters, then the common columns.
Filtered(m) == Select(Keep(m, toKeep), criteria)
SetUpForData(m) ==
    /\ map' = Reindexed(m, CrcOrder)
    /\ all' = CommonList(m, CrcOrder)
    /\ pass' = "two"
    /\ f' = 1

SetUpUnchecked ==
    /\ pass = "one"
    /\ f > Len(input)
    /\ SetUpForData(Filtered(map))
    /\ UNCHANGED <<options, disk, accepted, given, late>>
SetUpBeforeFilters ==
    /\ pass = "one"
    /\ f > Len(input)
    /\ map' = Filtered(Reindexed(map, CrcOrder))
    /\ all' = CommonList(map, CrcOrder)
    /\ pass' = "two"
    /\ f' = 1
    /\ UNCHANGED <<options, disk, accepted, given, late>>
SetUpInFileOrder ==
    /\ pass = "one"
    /\ f > Len(input)
    /\ LET order == [k \in DOMAIN input |-> input[k].crc]
           m == Filtered(map)
       IN  map' = Reindexed(m, order) /\ all' = CommonList(m, order)
    /\ pass' = "two"
    /\ f' = 1
    /\ UNCHANGED <<options, disk, accepted, given, late>>
SetUp ==
    /\ pass = "one"
    /\ f > Len(input)
    /\ accepted # << >>
    /\ SizesAgree(Filtered(map), CrcOrder)
    /\ SetUpForData(Filtered(map))
    /\ UNCHANGED <<options, disk, accepted, given, late>>

\* Exit 1: no file to process, or one name with two sizes.
SetUpFails ==
    /\ pass = "one"
    /\ f > Len(input)
    /\ accepted = << >> \/ ~SizesAgree(Filtered(map), CrcOrder)
    /\ pass' = "exit"
    /\ UNCHANGED <<options, disk, map, all, f, accepted, given, late>>

File == input[accepted[f]]

\* SensorsMap::insert and find in the second pass, for a CRC of the first.
Decode ==
    /\ pass = "two"
    /\ f <= Len(accepted)
    /\ File.crc \in DOMAIN map
    /\ given' = [crc |-> File.crc, list |-> map[File.crc]]
    /\ f' = f + 1
    /\ UNCHANGED <<options, disk, map, all, pass, accepted, late>>

\* ... and for one that was not in the cache then, and is now: the list is
\* loaded as it is, after setUpForData and the filters have run.
DecodeLate ==
    /\ pass = "two"
    /\ f <= Len(accepted)
    /\ File.crc \notin DOMAIN map
    /\ Lower[File.crc] \in disk
    /\ LET list == Raw(List[Lower[File.crc]])
       IN  /\ map' = Put(map, File.crc, list)
           /\ given' = [crc |-> File.crc, list |-> list]
    /\ late' = late \cup {File.crc}
    /\ f' = f + 1
    /\ UNCHANGED <<options, disk, all, pass, accepted>>

\* ... and for one still unknown: find throws, as insert does if the file in
\* the cache by then is corrupt, and the data file is skipped.
DecodeUnknown ==
    /\ pass = "two"
    /\ f <= Len(accepted)
    /\ File.crc \notin DOMAIN map
    /\ f' = f + 1
    /\ UNCHANGED <<options, disk, map, all, pass, accepted, given, late>>

Finish ==
    /\ pass = "two"
    /\ f > Len(accepted)
    /\ pass' = "done"
    /\ UNCHANGED <<options, disk, map, all, f, accepted, given, late>>

Ended == pass \in {"done", "exit"} /\ UNCHANGED vars

Next ==
    \/ Published
    \/ Discover \/ DiscoverSkips \/ SetUp \/ SetUpFails
    \/ Decode \/ DecodeLate \/ DecodeUnknown
    \/ Finish \/ Ended

Spec == Init /\ [][Next]_vars

-----------------------------------------------------------------------------
(* Properties *)

\* The types of the run's state (SensorsMap.H, dbd2netCDF.C:125-208).
TypeOK ==
    /\ input \in Inputs /\ toKeep \in KeepLists /\ criteria \in CriteriaLists
    /\ disk \subseteq Keys
    /\ DOMAIN map \subseteq Crcs
    /\ \A c \in DOMAIN map : map[c] \in ListType
    /\ all \in Seq(SensorType)
    /\ pass \in {"one", "two", "done", "exit"}
    /\ f \in 1 .. Len(input) + 1
    /\ accepted \in Seq(DOMAIN input)
    /\ given = NoList \/ (given.crc \in Crcs /\ given.list \in ListType)
    /\ late \subseteq DOMAIN map

Columns == 0 .. Len(all) - 1
AtCommonColumn(s) ==
    s.index \in Columns /\ all[s.index + 1].name = s.name /\ all[s.index + 1].size = s.size
IsCommon(list) ==
    list.nToStore = Len(all) /\ \A s \in ToSet(list.sensors) : s.keep => AtCommonColumn(s)

InSecondPass == pass \in {"two", "done"}
Known == DOMAIN map \ late

\* Every list of the first pass has each of its written sensors at the common
\* column of that name and size, and as many columns as the output, and is
\* handed to Data::load like that.  A list first met in the second pass is not:
\* it was published in between, and no filter and no column was applied to it
\* (SensorsMap.C:33-38, 94-123).
KnownListsAreCommon ==
    InSecondPass =>
        /\ \A c \in Known : IsCommon(map[c])
        /\ given # NoList /\ given.crc \in Known => IsCommon(given.list)

\* The sensor k of CRC c comes before the sensor l of CRC d.
Before(c, k, d, l) ==
    LET At(x) == CHOOSE n \in DOMAIN CrcOrder : CrcOrder[n] = x
    IN  At(c) < At(d) \/ (c = d /\ k < l)
Occurrences(name) ==
    UNION {{c} \X {k \in DOMAIN map[c].sensors : map[c].sensors[k].name = name} : c \in Known}
First(name) == CHOOSE p \in Occurrences(name) : \A q \in Occurrences(name) \ {p} :
                  Before(p[1], p[2], q[1], q[2])

\* The output has one column per name, in the order the names are first met
\* going through the known lists by CRC: for the same known lists, neither the
\* order of the files nor their sorting moves a column.  Which lists are known
\* does depend on the cache, and a list more may come before the others
\* (SensorsMap.C:94-116).
ColumnsFollowTheMap ==
    InSecondPass => \A i, j \in DOMAIN all : i < j =>
        LET p == First(all[i].name)
            q == First(all[j].name)
        IN  all[i].name # all[j].name /\ Before(p[1], p[2], q[1], q[2])

\* The output has the sensors -k asks for, all of them the lists offer, and no
\* other (SensorsMap.C:126-134, dbd2netCDF.C:195-198).
OutputIsWhatWasAsked ==
    InSecondPass =>
        {s.name : s \in ToSet(all)} =
        {n \in UNION {{s.name : s \in ToSet(map[c].sensors)} : c \in Known} :
            toKeep = {} \/ n \in toKeep}

\* One accepted file with its list in the header is enough for every file of
\* that CRC to be decoded with common columns, before or after it on the
\* command line, whatever the cache holds (SensorsMap.C:54-68).
OneFullFileIsEnough ==
    InSecondPass => \A k \in ToSet(accepted) :
        ~input[k].factored => input[k].crc \in Known

\* "Sensor indices are normalized into [0, nColumns) by
\* SensorsMap::setUpForData" (Data.C:31): those of every sensor of a list that
\* went through it, since Data::load checks every sensor it meets.
IndicesAreNormalized ==
    InSecondPass => \A c \in Known : \A s \in ToSet(map[c].sensors) :
        0 <= s.index /\ s.index < map[c].nToStore

=============================================================================
