------------------------------- MODULE DbdFile -------------------------------
(* How a Dinkum binary data file is read up to its data: the ASCII header    *)
(* (src/src/Header.C), the sensor lines behind it (src/src/Sensors.C), and   *)
(* the known-bytes cycle with the byte order it tells                        *)
(* (src/src/KnownBytes.C).  A file is a stream of lines [key, value]; what   *)
(* is binary is one last line, of key "body".  A sensor line has a colon as  *)
(* a header line has, and the key "s".                                       *)
EXTENDS Integers, Sequences, SequencesExt

CONSTANT Latest   \* the largest time_t

ASSUME LatestAssumption == Latest \in Nat

-----------------------------------------------------------------------------
(* Header *)

\* The number of lines num_ascii_tags announces; a value out of range, or no
\* number at all, which is 0 here, ends the header.
MaxTagLines == 10000
TagLines(value) == IF value \in 1 .. MaxTagLines THEN value ELSE 0

\* std::map::insert: the first value of a key stays.
Inserted(f, key, value) ==
    [k \in DOMAIN f \cup {key} |-> IF k \in DOMAIN f THEN f[k] ELSE value]

\* The lines of the header, 14 unless told. A line without a colon
\* makes the header empty.
NoLines == [records |-> << >>, cnt |-> 0, nLines |-> 14, over |-> FALSE]
HeaderLineByRecords(h, line) ==
    IF h.over \/ Cardinality(DOMAIN h.records) >= h.nLines THEN h
    ELSE IF line.key = "body"
    THEN [h EXCEPT !.cnt = @ + 1, !.records = << >>, !.over = TRUE]
    ELSE [h EXCEPT !.cnt = @ + 1,
                   !.records = Inserted(@, line.key, line.value),
                   !.nLines = IF line.key = "num_ascii_tags" THEN TagLines(line.value) ELSE @]
HeaderLine(h, line) ==
    IF h.over \/ h.cnt >= h.nLines THEN h
    ELSE IF line.key = "body"
    THEN [h EXCEPT !.cnt = @ + 1, !.records = << >>, !.over = TRUE]
    ELSE [h EXCEPT !.cnt = @ + 1,
                   !.records = Inserted(@, line.key, line.value),
                   !.nLines = IF line.key = "num_ascii_tags" THEN TagLines(line.value) ELSE @]
Header(stream) ==
    LET after[k \in 0 .. Len(stream)] ==
            IF k = 0 THEN NoLines ELSE HeaderLine(after[k - 1], stream[k])
    IN  after[Len(stream)]

IsEmpty(h) == h.records = << >>

\* Header::find and findInt; an absent key is "" or 0.
Find(h, key) == IF key \in DOMAIN h.records THEN h.records[key] ELSE ""
FindInt(h, key) == IF key \in DOMAIN h.records THEN h.records[key] ELSE 0

Crc(h) == Find(h, "sensor_list_crc")
NSensors(h) == FindInt(h, "total_num_sensors")
Factored(h) == FindInt(h, "sensor_list_factored") # 0

\* -m and -M; the names stand for their lower-case form.
ProcessMission(h, toSkip, toKeep) ==
    /\ Find(h, "mission_name") \notin toSkip
    /\ toKeep = {} \/ Find(h, "mission_name") \in toKeep

\* A time that is missing, or that does not parse, which is negative here, is
\* the last.
FileOpenTime(h) ==
    IF "fileopen_time" \in DOMAIN h.records /\ Find(h, "fileopen_time") >= 0
    THEN Find(h, "fileopen_time") ELSE Latest

-----------------------------------------------------------------------------
(* Sensor lines *)

\* The lines of an unfactored file from position `pos`: those in use, or a
\* throw at a line that is no sensor, or is not there.
Announced(stream, pos, h) == SubSeq(stream, pos, pos + NSensors(h) - 1)
SensorsParse(stream, pos, h) ==
    Factored(h) \/ \A k \in 1 .. NSensors(h) :
                      pos + k - 1 <= Len(stream) /\ stream[pos + k - 1].key = "s"
InUse(list, line) ==
    IF line.value.used
    THEN Append(list, [name |-> line.value.name, size |-> line.value.size])
    ELSE list
SensorsIn(lines) ==
    LET list[k \in 0 .. Len(lines)] == IF k = 0 THEN << >> ELSE InUse(list[k - 1], lines[k])
    IN  list[Len(lines)]
SensorsOf(stream, pos, h) ==
    IF Factored(h) THEN << >> ELSE SensorsIn(Announced(stream, pos, h))

\* Reading past them without a look, at most to the end of the file.
PastSensors(stream, pos, h) ==
    IF Factored(h) THEN pos
    ELSE IF pos + NSensors(h) <= Len(stream) + 1 THEN pos + NSensors(h) ELSE Len(stream) + 1

-----------------------------------------------------------------------------
(* Known bytes and values, on a little-endian machine *)

\* The tag, the byte 'a', the number 0x1234 in one order or the other, and two
\* floating point numbers: anything else throws.
KnowsBytes(stream, pos) ==
    /\ pos <= Len(stream)
    /\ stream[pos].key = "body"
    /\ stream[pos].value.order \in {"little", "big"}
Flip(stream, pos) == stream[pos].value.order = "big"

\* ntohs and ntohl; a double is flipped word by word, and the words change places.
NetToHost(bytes) == Reverse(bytes)
ReadFlippedInPlace(bytes) ==
    IF Len(bytes) = 8 THEN NetToHost(SubSeq(bytes, 1, 4)) \o NetToHost(SubSeq(bytes, 5, 8))
    ELSE NetToHost(bytes)
ReadFlipped(bytes) ==
    IF Len(bytes) = 8 THEN NetToHost(SubSeq(bytes, 5, 8)) \o NetToHost(SubSeq(bytes, 1, 4))
    ELSE NetToHost(bytes)

\* read8 to read64.
ReadBytes(bytes, flip) == IF flip THEN ReadFlipped(bytes) ELSE bytes
=============================================================================
