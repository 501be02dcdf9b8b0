------------------------------- MODULE Dbd2csv -------------------------------
(* dbd2csv (src/src/dbd2csv.C), and dbdSensors (src/src/dbdSensors.C), which *)
(* has a first pass like its own: the files of the command line are read up  *)
(* to their data, those of the missions asked for are sorted, and each is    *)
(* read again and its rows written out under the common columns.  A file     *)
(* says what is in it; Data::load is abstracted to how many of its records   *)
(* it retains and whether it threw.  The cache directory is one that holds   *)
(* some lists from the start.                                                *)
EXTENDS DbdFile, SensorLists, FiniteSets

CONSTANTS
    Stored,     \* the files there are: numbers, in the order of their names
    Content,    \* what is in each: see IsContent
    Commands,   \* the command lines: see IsCommand
    CrcOrder,   \* the CRCs, in the order of the map
    Cache,      \* CRC -> the list in the cache, for those that have one
    Blank       \* an empty CSV field

\* Its bytes as a stream, its size, and the number of its records.  A time is a
\* time_t, or negative if it does not parse; a number that does not is 0.
IsContent(x) ==
    /\ DOMAIN x = {"stream", "size", "records"} /\ x.size \in Nat /\ x.records \in Nat
    /\ x.stream \in Seq(ToSet(x.stream))
    /\ \A line \in ToSet(x.stream) :
          /\ line.key \in {"fileopen_time", "total_num_sensors"} => line.value \in Int
          /\ line.key = "fileopen_time" => line.value <= Latest
          /\ line.key = "s" => line.value \in [name: STRING, size: Nat, used: BOOLEAN]

IsCommand(c) ==
    /\ DOMAIN c = {"prog", "input", "sort", "skip", "strict", "keep", "missions"}
    /\ c.prog \in {"dbd2csv", "dbdSensors"}
    /\ c.input \in Seq(Stored) /\ c.input # << >>
    /\ c.sort \in {"none", "header_time", "lexicographic"}
    /\ c.skip \in {"no", "first", "all"}
    /\ c.strict \in BOOLEAN
    /\ c.prog = "dbdSensors" => c.sort = "none" /\ ~c.strict /\ c.keep = {}

ASSUME StoredAssumption == Stored \subseteq Nat /\ \A x \in Stored : IsContent(Content[x])
ASSUME CommandsAssumption == \A c \in Commands : IsCommand(c)
ASSUME CacheAssumption ==
    \A c \in DOMAIN Cache : Cache[c] \in Seq([name: STRING, size: Nat])

Stream(x) == Content[x].stream
HeaderOf(x) == Header(Stream(x))

ASSUME OrderAssumption ==
    /\ CrcOrder \in Seq(ToSet(CrcOrder))
    /\ \A x \in Stored : Crc(HeaderOf(x)) \in ToSet(CrcOrder)

VARIABLES
    cmd,      \* the command line
    pc,       \* "first", "second", "list"; exits: "done" (0),
              \* "exit" (1), "aborted" (terminate)
    i,        \* the file at hand: of the command line, then of indices
    lists,    \* mMap
    indices, times, sizes,   \* of the accepted files; dbdSensors has the
                             \* first only
    all,      \* mAllSensors
    rows,     \* the rows written
    result,   \* what Data::load was given, and retained, file by file
    refused   \* the files given up on for what is in them

vars == <<cmd, pc, i, lists, indices, times, sizes, all, rows, result, refused>>

accepted == <<indices, times, sizes>>
written == <<rows, result>>

Init ==
    /\ cmd \in Commands
    /\ pc = "first"
    /\ i = 1
    /\ lists = << >>
    /\ indices = << >> /\ times = << >> /\ sizes = << >>
    /\ all = << >>
    /\ rows = << >> /\ result = << >> /\ refused = {}

-----------------------------------------------------------------------------
(* First pass *)

\* SensorsMap::insert: a CRC not met before gets the list of the header or of
\* the cache; of a known one, the second pass reads past the sensor lines.
Fresh(stream, h) ==
    LET list == SensorsOf(stream, h.cnt + 1, h)
    IN  IF list # << >> THEN list
        ELSE IF Crc(h) \in DOMAIN Cache THEN Cache[Crc(h)] ELSE << >>
InsertThrows(stream, h) == Crc(h) \notin DOMAIN lists /\ ~SensorsParse(stream, h.cnt + 1, h)
Insert(stream, h) ==
    IF Crc(h) \in DOMAIN lists \/ Fresh(stream, h) = << >> THEN UNCHANGED lists
    ELSE lists' = Inserted(lists, Crc(h), Raw(Fresh(stream, h)))

Input == cmd.input[i]
Asked(h) == ~IsEmpty(h) /\ ProcessMission(h, cmd.missions.skip, cmd.missions.keep)

\* What is given up on: in strict mode the run ends, else the next file's turn.
GiveUp(file) ==
    /\ refused' = refused \cup {file}
    /\ IF cmd.strict THEN pc' = "exit" /\ UNCHANGED i
                     ELSE i' = i + 1 /\ UNCHANGED pc

Accept ==
    /\ pc = "first" /\ i <= Len(cmd.input)
    /\ LET h == HeaderOf(Input)
       IN  /\ Asked(h)
           /\ ~InsertThrows(Stream(Input), h)
           /\ Insert(Stream(Input), h)
           /\ times' = Append(times, FileOpenTime(h))
    /\ indices' = Append(indices, i)
    /\ sizes' = Append(sizes, Content[Input].size)
    /\ i' = i + 1
    /\ UNCHANGED <<cmd, pc, all, written, refused>>

\* The list of an unfactored file does not parse.
Reject ==
    /\ pc = "first" /\ i <= Len(cmd.input)
    /\ Asked(HeaderOf(Input))
    /\ InsertThrows(Stream(Input), HeaderOf(Input))
    /\ GiveUp(Input)
    /\ UNCHANGED <<cmd, lists, accepted, all, written>>

\* An empty header or another mission: passed over, in strict mode too.
PassOver ==
    /\ pc = "first" /\ i <= Len(cmd.input)
    /\ ~Asked(HeaderOf(Input))
    /\ i' = i + 1
    /\ refused' = IF IsEmpty(HeaderOf(Input)) THEN refused \cup {Input} ELSE refused
    /\ UNCHANGED <<cmd, pc, lists, accepted, all, written>>

\* The file is gone when its size is asked for, and nothing catches that.
SizeThrowsCaught ==
    /\ pc = "first" /\ i <= Len(cmd.input)
    /\ cmd.prog = "dbd2csv" /\ ~cmd.strict
    /\ Asked(HeaderOf(Input)) /\ ~InsertThrows(Stream(Input), HeaderOf(Input))
    /\ Insert(Stream(Input), HeaderOf(Input))
    /\ indices' = Append(indices, i)
    /\ times' = Append(times, FileOpenTime(HeaderOf(Input)))
    /\ i' = i + 1
    /\ UNCHANGED <<cmd, pc, sizes, all, written, refused>>
SizeThrows ==
    /\ pc = "first" /\ i <= Len(cmd.input)
    /\ cmd.prog = "dbd2csv"
    /\ Asked(HeaderOf(Input)) /\ ~InsertThrows(Stream(Input), HeaderOf(Input))
    /\ pc' = "aborted"
    /\ UNCHANGED <<cmd, i, lists, accepted, all, written, refused>>

\* A file that cannot be opened, in either pass, ends the run.
OpenFails ==
    /\ \/ pc = "first" /\ i <= Len(cmd.input)
       \/ pc \in {"second", "list"} /\ i <= Len(indices)
    /\ pc' = "exit"
    /\ UNCHANGED <<cmd, i, lists, accepted, all, written, refused>>

-----------------------------------------------------------------------------
(* Between the passes *)

\* std::sort is not stable: files with one time, or one name, come in any order.
Orders(n) == {p \in [1 .. n -> 1 .. n] : \A k, l \in 1 .. n : k # l => p[k] # p[l]}
InSortOrder(p) ==
    \A k, l \in DOMAIN p : k < l =>
        CASE cmd.sort = "none" -> p[k] < p[l]
          [] cmd.sort = "header_time" -> times[p[k]] <= times[p[l]]
          [] cmd.sort = "lexicographic" ->
                 cmd.input[indices[p[k]]] <= cmd.input[indices[p[l]]]
Permuted(s, p) == [k \in DOMAIN p |-> s[p[k]]]

SortFilesOnly ==
    \E p \in Orders(Len(indices)) :
        InSortOrder(p) /\ indices' = Permuted(indices, p) /\ sizes' = sizes
Sort ==
    \E p \in Orders(Len(indices)) :
        InSortOrder(p) /\ indices' = Permuted(indices, p) /\ sizes' = Permuted(sizes, p)

NoFiles ==
    /\ pc = "first" /\ i > Len(cmd.input)
    /\ indices = << >>
    /\ pc' = "exit"
    /\ UNCHANGED <<cmd, i, lists, accepted, all, written, refused>>

\* dbd2csv: sorting, -k, the common columns.
SetUp ==
    /\ pc = "first" /\ i > Len(cmd.input)
    /\ cmd.prog = "dbd2csv"
    /\ indices # << >>
    /\ Sort
    /\ LET m == Keep(lists, cmd.keep)
       IN  IF SizesAgree(m, CrcOrder)
           THEN /\ lists' = Reindexed(m, CrcOrder)
                /\ all' = CommonList(m, CrcOrder)
                /\ pc' = "second" /\ i' = 1
           ELSE pc' = "exit" /\ UNCHANGED <<i, lists, all>>
    /\ UNCHANGED <<cmd, times, written, refused>>

\* dbdSensors goes over its files once more first.
StartList ==
    /\ pc = "first" /\ i > Len(cmd.input)
    /\ cmd.prog = "dbdSensors"
    /\ indices # << >>
    /\ pc' = "list" /\ i' = 1
    /\ UNCHANGED <<cmd, lists, accepted, all, written, refused>>

-----------------------------------------------------------------------------
(* Second pass of dbd2csv *)

At == cmd.input[indices[i]]
InSecond == pc = "second" /\ i <= Len(indices)

\* Where the known bytes are looked for, and whether the file gets that far.
DataAt(file) == PastSensors(Stream(file), HeaderOf(file).cnt + 1, HeaderOf(file))
Decodable(file) ==
    /\ Crc(HeaderOf(file)) \in DOMAIN lists
    /\ KnowsBytes(Stream(file), DataAt(file))

\* Data::load throws too for the empty list of a cache, which find would take.
Unreadable ==
    /\ InSecond
    /\ ~Decodable(At)
    /\ GiveUp(At)
    /\ UNCHANGED <<cmd, lists, accepted, all, written>>

\* The bytes of a sensor in the file, and what Data::load makes of record k: a
\* field per column, blank where this file's list has no sensor for it.
LittleEndian(file, k, s) == [b \in 1 .. s.size |-> <<file, k, s.name, b>>]
InFile(file, k, s) ==
    IF Flip(Stream(file), DataAt(file)) THEN Reverse(LittleEndian(file, k, s))
    ELSE LittleEndian(file, k, s)
Record(file, k) ==
    LET kept == {s \in ToSet(lists[Crc(HeaderOf(file))].sensors) : s.keep}
    IN  [c \in DOMAIN all |->
            IF \E s \in kept : s.index = c - 1
            THEN LET s == CHOOSE s \in kept : s.index = c - 1
                 IN  ReadBytes(InFile(file, k, s), Flip(Stream(file), DataAt(file)))
            ELSE Blank]

\* The position after the sort says which file is the first.
KStart == CASE cmd.skip = "all" -> 1 [] cmd.skip = "first" /\ i > 1 -> 1 [] OTHER -> 0

\* The records up to the end, or to where the decoder threw, which strict mode
\* does not put up with; nothing of the file is written then.
Convert ==
    /\ InSecond
    /\ Decodable(At)
    /\ \E n \in 0 .. (IF all = << >> THEN 0 ELSE Content[At].records) :
          /\ rows' = rows \o [k \in 1 .. (IF n > KStart THEN n - KStart ELSE 0) |->
                                 Record(At, KStart + k)]
          /\ result' = Append(result, [at |-> i, nBytes |-> sizes[i], records |-> n])
    /\ i' = i + 1
    /\ UNCHANGED <<cmd, pc, lists, accepted, all, refused>>

LoadThrows ==
    /\ InSecond
    /\ Decodable(At) /\ cmd.strict
    /\ pc' = "exit"
    /\ UNCHANGED <<cmd, i, lists, accepted, all, written, refused>>

Finish ==
    /\ pc = "second" /\ i > Len(indices)
    /\ pc' = "done"
    /\ UNCHANGED <<cmd, i, lists, accepted, all, written, refused>>

-----------------------------------------------------------------------------
(* Second pass of dbdSensors *)

InMap == Crc(HeaderOf(At)) \in DOMAIN lists
InCache == Crc(HeaderOf(At)) \in DOMAIN Cache

\* A list that is not known is logged and no more.
ListFile ==
    /\ pc = "list" /\ i <= Len(indices)
    /\ InMap \/ ~InCache
    /\ i' = i + 1
    /\ refused' = IF InMap THEN refused ELSE refused \cup {At}
    /\ UNCHANGED <<cmd, pc, lists, accepted, all, written>>

\* insert left it unknown though the cache has it: it is empty.  find takes it
\* all the same, and an empty list ends the run.
ListEmpty ==
    /\ pc = "list" /\ i <= Len(indices)
    /\ ~InMap /\ InCache
    /\ pc' = "exit"
    /\ refused' = refused \cup {At}
    /\ UNCHANGED <<cmd, i, lists, accepted, all, written>>

PrintAll ==
    /\ pc = "list" /\ i > Len(indices)
    /\ IF SizesAgree(lists, CrcOrder)
       THEN pc' = "done" /\ lists' = Reindexed(lists, CrcOrder) /\ all' = CommonList(lists, CrcOrder)
       ELSE pc' = "exit" /\ UNCHANGED <<lists, all>>
    /\ UNCHANGED <<cmd, i, accepted, written, refused>>

-----------------------------------------------------------------------------

Exited == pc \in {"done", "exit", "aborted"} /\ UNCHANGED vars

Next ==
    \/ Accept \/ Reject \/ PassOver \/ SizeThrows \/ OpenFails
    \/ NoFiles \/ SetUp \/ StartList
    \/ Unreadable \/ Convert \/ LoadThrows \/ Finish
    \/ ListFile \/ ListEmpty \/ PrintAll
    \/ Exited

Spec == Init /\ [][Next]_vars

-----------------------------------------------------------------------------
(* Properties *)

\* The types of the run's state (dbd2csv.C:128-156, 207-222).
TypeOK ==
    /\ IsCommand(cmd)
    /\ pc \in {"first", "second", "list", "done", "exit", "aborted"}
    /\ i \in 1 .. Len(cmd.input) + 1
    /\ DOMAIN lists \subseteq ToSet(CrcOrder)
    /\ \A c \in DOMAIN lists : lists[c].sensors # << >>
    /\ indices \in Seq(DOMAIN cmd.input)
    /\ times \in Seq(0 .. Latest) /\ sizes \in Seq(Nat)
    /\ Len(times) = Len(indices) /\ Len(sizes) = Len(indices)
    /\ \A r \in DOMAIN rows : Len(rows[r]) = Len(all)
    /\ refused \subseteq ToSet(cmd.input)

\* A file as a glider writes it: the header says in its first 14 lines how many
\* it has, unless they are 14, and what follows; its keys may repeat.
Lines(x, key) == {k \in DOMAIN Stream(x) : Stream(x)[k].key = key}
HeaderLines(x) == {k \in DOMAIN Stream(x) : Stream(x)[k].key \notin {"s", "body"}}
Says(x, key, value) ==
    Lines(x, key) # {} /\ \A k \in Lines(x, key) : Stream(x)[k].value = value
InOrderOfKind(x) ==
    \A k, l \in DOMAIN Stream(x) : k < l =>
        /\ Stream(x)[k].key = "s" => Stream(x)[l].key \in {"s", "body"}
        /\ Stream(x)[k].key # "body"
TellsLines(x) ==
    LET n == Cardinality(HeaderLines(x))
    IN  IF Lines(x, "num_ascii_tags") = {} THEN n = 14
        ELSE /\ n <= MaxTagLines /\ Says(x, "num_ascii_tags", n)
             /\ \E k \in Lines(x, "num_ascii_tags") : k <= 14
TellsSensors(x) ==
    IF Lines(x, "s") = {} THEN Says(x, "sensor_list_factored", 1)
    ELSE /\ Says(x, "sensor_list_factored", 0)
         /\ Says(x, "total_num_sensors", Cardinality(Lines(x, "s")))
         /\ \E k \in Lines(x, "s") : Stream(x)[k].value.used
WellFormed(x) ==
    /\ InOrderOfKind(x) /\ TellsLines(x) /\ TellsSensors(x)
    /\ Lines(x, "sensor_list_crc") # {}
    /\ Says(x, "body", [order |-> "little"]) \/ Says(x, "body", [order |-> "big"])

\* The sensors an unfactored file has data of.  sensor_list_crc is a checksum of
\* the list: whatever file, or the cache, it is taken from, it names the same.
OwnNames(x) ==
    {Stream(x)[k].value.name : k \in {l \in Lines(x, "s") : Stream(x)[l].value.used}}
ASSUME ListsAssumption ==
    \A x, y \in Stored :
        LET h == HeaderOf(y)
        IN  /\ Lines(x, "s") # {} /\ KnowsBytes(Stream(x), DataAt(x))
            /\ Crc(HeaderOf(x)) = Crc(h)
            /\ SensorsParse(Stream(y), h.cnt + 1, h) /\ Fresh(Stream(y), h) # << >>
            => OwnNames(x) = {s.name : s \in ToSet(Fresh(Stream(y), h))}

\* The field of a record under the column of a name: the value the file has for
\* that sensor, whatever its byte order, or blank.
Names(x) ==
    IF Lines(x, "s") = {} THEN {s.name : s \in ToSet(lists[Crc(HeaderOf(x))].sensors)}
    ELSE OwnNames(x)
Field(x, k, s) == IF s.name \in Names(x) THEN LittleEndian(x, k, s) ELSE Blank
RowOf(x, k) == [c \in DOMAIN all |-> Field(x, k, all[c])]

\* The CSV file is the records of the files in their sorted order, none lost
\* or repeated but those -s and -A leave out, every field under the column of
\* its own sensor and with the value the file has for it (dbd2csv.C:224-280,
\* KnownBytes.C:90-160).
CsvIsConcatenation ==
    LET Drop(r) == IF cmd.skip = "all" \/ (cmd.skip = "first" /\ r.at > 1) THEN 1 ELSE 0
        Wanted(r) == [k \in 1 .. (IF r.records > Drop(r) THEN r.records - Drop(r) ELSE 0) |->
                        RowOf(cmd.input[indices[r.at]], Drop(r) + k)]
    IN  rows = FlattenSeq([k \in DOMAIN result |-> Wanted(result[k])])

\* After the sort the files are those accepted, each once, in the order asked
\* for, and Data::load has the size of the file it reads (dbd2csv.C:163-191,
\* 238).
FilesComeInOrder ==
    pc = "second" =>
        /\ \A k, l \in DOMAIN indices : k < l =>
              LET x == cmd.input[indices[k]]
                  y == cmd.input[indices[l]]
              IN  /\ indices[k] # indices[l]
                  /\ cmd.sort = "none" => indices[k] < indices[l]
                  /\ cmd.sort = "lexicographic" => x <= y
                  /\ cmd.sort = "header_time" =>
                        FileOpenTime(HeaderOf(x)) <= FileOpenTime(HeaderOf(y))
        /\ \A k \in DOMAIN cmd.input :
              Asked(HeaderOf(cmd.input[k])) /\ cmd.input[k] \notin refused =>
                  k \in ToSet(indices)
        /\ \A r \in ToSet(result) : r.nBytes = Content[cmd.input[indices[r.at]]].size

\* A file as a glider writes it is never given up on for what is in it: its
\* header ends where it says, and what follows is read as sensors, or skipped,
\* up to the data, wherever its list came from.  Only a factored file whose
\* list no other file has, and no cache but for an empty one, is refused (Header.C:39-75,
\* SensorsMap.C:45-79).
WellFormedFilesAreRead ==
    \A x \in refused : WellFormed(x) =>
        /\ Lines(x, "s") = {}
        /\ Crc(HeaderOf(x)) \in DOMAIN Cache => Cache[Crc(HeaderOf(x))] = << >>
        /\ \A k \in DOMAIN indices :
              LET y == cmd.input[indices[k]]
              IN  WellFormed(y) /\ Lines(y, "s") # {} => Crc(HeaderOf(y)) # Crc(HeaderOf(x))
=============================================================================
