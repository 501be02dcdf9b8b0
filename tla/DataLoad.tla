------------------------------ MODULE DataLoad ------------------------------
(* Data::load (src/src/Data.C): the decoder of one data file.              *)
(*                                                                         *)
(* A file is a sequence of cycles.  A cycle is a 'd' tag, two bits of      *)
(* state code per sensor, and the bytes of the sensors whose code is 2.    *)
(* The decoder keeps one column of doubles per output sensor, grows the    *)
(* columns ahead of the row it fills, commits the row only when a sensor   *)
(* of the selection criteria was sampled, and cuts the columns back to the *)
(* committed rows on every way out.                                        *)
(*                                                                         *)
(* The stream is read lazily: every read picks what the file holds next,   *)
(* so a run of this module ranges over all files of at most MaxCycles      *)
(* cycles, truncated and corrupt ones included.  `log` is what was read:   *)
(* the complete cycles of the file so far.  It is no variable of the       *)
(* program: the properties compare the columns with it.                    *)
EXTENDS Integers, Sequences, FiniteSets

CONSTANTS
    Layouts,     \* the sensor lists load may be called with: see LayoutShape
    FileSizes,   \* the values of nBytes, the size of the file on disk
    Finite,      \* finite readings
    Inf, NaN,    \* the infinite and the not-a-number readings
    MaxScan,     \* MAX_REPAIR_SCAN
    MaxCycles    \* bound: complete cycles in one file

Reading == Finite \cup {Inf, NaN}

\* A sensor as load sees it: its column, its width in bytes, and whether it is
\* written out (qKeep) and makes a cycle worth a row (qCriteria).
SensorShape == [index: Int, size: Nat, keep: BOOLEAN, crit: BOOLEAN]
LayoutShape == [sensors: Seq(SensorShape), nToStore: Nat]

ASSUME LayoutsAssumption == Layouts \subseteq LayoutShape
ASSUME SizesAssumption == FileSizes \subseteq Nat
ASSUME ScanAssumption == MaxScan \in Nat
ASSUME BoundAssumption == MaxCycles \in Nat
ASSUME ReadingAssumption == Inf # NaN /\ Inf \notin Finite /\ NaN \notin Finite

VARIABLES
    layout,     \* the sensors argument
    nBytes,     \* the nBytes argument
    qRepair,    \* the qRepair argument
    pc,         \* where load is; "returned" and "threw" are its two exits
    mData,      \* column -> its cells; the vector's length is its capacity
    prevValue,  \* column -> the last fresh reading stored there
    nRows,      \* committed rows
    mNRows,     \* what size() reports to the caller
    scanCount,  \* bytes skipped in the current repair scan
    i,          \* the sensor being decoded, from 1
    qKeep,      \* has the current cycle sampled a criteria sensor?
    cycle,      \* the samples of the current cycle so far
    log         \* the complete cycles read so far

vars == <<layout, nBytes, qRepair, pc, mData, prevValue, nRows, mNRows,
          scanCount, i, qKeep, cycle, log>>

-----------------------------------------------------------------------------
(* Pure helpers *)

nSensors == Len(layout.sensors)
Columns == 0 .. layout.nToStore - 1

\* The header bytes of a cycle: four sensors to a byte.
HeaderBytes(n) == (n + 3) \div 4

\* What Sensor::read may return for a width; {} when the width is unknown.
\* Widths 1 and 2 are integers, 4 and 8 are IEEE numbers.
Readable(size) ==
    CASE size \in {1, 2} -> Finite
      [] size \in {4, 8} -> Reading
      [] OTHER -> {}

\* An infinite reading is stored as NaN, fresh or repeated.
Clean(v) == IF v = Inf THEN NaN ELSE v

\* std::vector::resize(n, NAN).
Resize(col, n) == [r \in 1 .. n |-> IF r <= Len(col) THEN col[r] ELSE NaN]

\* growColumns: half as much again, and one, for a column of one cell.
GrownTooLittle(oldSize) == oldSize + oldSize \div 2
Grown(oldSize) == oldSize + oldSize \div 2 + 1

\* size_t arithmetic: the subtraction is safe because a column is never empty
\* while load runs (RoomForRow).
MustGrow(col) == Len(col) - 1 <= nRows

ResizeAll(n) == [j \in Columns |-> Resize(mData[j], n)]

\* checkedIndex: the range the column of a sensor is checked against.
IndexOk(s) == 0 <= s.index /\ s.index < layout.nToStore

-----------------------------------------------------------------------------
(* The state machine *)

Init ==
    /\ layout \in Layouts
    /\ nBytes \in FileSizes
    /\ qRepair \in BOOLEAN
    /\ pc = "start"
    /\ mData = << >>
    /\ prevValue = << >>
    /\ nRows = 0
    /\ mNRows = 0
    /\ scanCount = 0
    /\ i = 0
    /\ qKeep = FALSE
    /\ cycle = << >>
    /\ log = << >>

args == <<layout, nBytes, qRepair>>
stream == <<cycle, log>>

\* No output sensor at all: refused before anything is allocated.
NothingToStore ==
    /\ pc = "start"
    /\ layout.nToStore = 0
    /\ pc' = "threw"
    /\ UNCHANGED <<args, mData, prevValue, nRows, mNRows, scanCount, i, qKeep, stream>>

\* Columns sized from the file's size on disk, a guess: twice the file, for
\* compression, over the shortest cycle.
Allocate ==
    /\ pc = "start"
    /\ layout.nToStore > 0
    /\ LET dSize == (2 * nBytes) \div (HeaderBytes(nSensors) + 1) + 1
       IN  mData' = [j \in Columns |-> [r \in 1 .. dSize |-> NaN]]
    /\ prevValue' = [j \in Columns |-> NaN]
    /\ pc' = "tag"
    /\ UNCHANGED <<args, nRows, mNRows, scanCount, i, qKeep, stream>>

\* pruneColumns: cut every column to the committed rows and publish the count.
PruneColumns ==
    /\ mData' = ResizeAll(nRows)
    /\ mNRows' = nRows

\* End of file at a tag, or the 'X' tag: the two clean ends.
EndOfData ==
    /\ pc = "tag"
    /\ PruneColumns
    /\ pc' = "returned"
    /\ UNCHANGED <<args, prevValue, nRows, scanCount, i, qKeep, stream>>

\* A 'd' tag: a cycle follows.
DataTag ==
    /\ pc = "tag"
    /\ Len(log) < MaxCycles
    /\ pc' = "bits"
    /\ UNCHANGED <<args, mData, prevValue, nRows, mNRows, scanCount, i, qKeep, stream>>

\* Any other tag: look for the next 'd', whether repairing or not.
BadTag ==
    /\ pc = "tag"
    /\ pc' = "scan"
    /\ scanCount' = 0
    /\ UNCHANGED <<args, mData, prevValue, nRows, mNRows, i, qKeep, stream>>

ScanOtherUnbounded ==
    /\ pc = "scan"
    /\ scanCount' = scanCount + 1
    /\ UNCHANGED <<args, pc, mData, prevValue, nRows, mNRows, i, qKeep, stream>>
ScanOther ==
    /\ pc = "scan"
    /\ scanCount < MaxScan
    /\ scanCount' = scanCount + 1
    /\ UNCHANGED <<args, pc, mData, prevValue, nRows, mNRows, i, qKeep, stream>>

\* The next 'd' is taken for a data tag when repairing ...
ScanFound ==
    /\ pc = "scan"
    /\ scanCount < MaxScan
    /\ qRepair
    /\ Len(log) < MaxCycles
    /\ scanCount' = 0
    /\ pc' = "bits"
    /\ UNCHANGED <<args, mData, prevValue, nRows, mNRows, i, qKeep, stream>>

\* ... and is an error when not, as is finding none before the end of the file
\* or within MaxScan bytes.
ScanFailed ==
    /\ pc = "scan"
    /\ PruneColumns
    /\ scanCount' = 0
    /\ pc' = "threw"
    /\ UNCHANGED <<args, prevValue, nRows, i, qKeep, stream>>

\* The state codes of a cycle, all read at once; each is looked at when its
\* sensor's turn comes.  The columns grow here, before the row is filled.
ReadBits ==
    /\ pc = "bits"
    /\ mData' = IF MustGrow(mData[0]) THEN ResizeAll(Grown(Len(mData[0]))) ELSE mData
    /\ qKeep' = FALSE
    /\ i' = 1
    /\ cycle' = << >>
    /\ pc' = "sensors"
    /\ UNCHANGED <<args, prevValue, nRows, mNRows, scanCount, log>>

BitsCutShort ==
    /\ pc = "bits"
    /\ PruneColumns
    /\ pc' = "threw"
    /\ UNCHANGED <<args, prevValue, nRows, scanCount, i, qKeep, stream>>

Sample(code, value) == [code |-> code, value |-> value]
Took(sample) == cycle' = Append(cycle, sample)

\* Code 0, not sampled this cycle: nothing to do.  Code 3, unused, falls
\* through both tests in the same way and is logged as 0.
NotSampled ==
    /\ Took(Sample(0, NaN))
    /\ UNCHANGED <<mData, prevValue, qKeep>>

StoreEarly(col, v) == mData' = [mData EXCEPT ![col] = [@ EXCEPT ![nRows] = v]]
Store(col, v) == mData' = [mData EXCEPT ![col] = [@ EXCEPT ![nRows + 1] = v]]

\* Code 1, repeat the previous value of the column.
RepeatValue(s) ==
    /\ IndexOk(s)
    /\ Took(Sample(1, NaN))
    /\ qKeep' = (qKeep \/ s.crit)
    /\ IF s.keep THEN Store(s.index, Clean(prevValue[s.index])) ELSE UNCHANGED mData
    /\ UNCHANGED prevValue

\* Code 2, a value follows.
NewValueForgotten(s) ==
    /\ IndexOk(s)
    /\ \E v \in Readable(s.size) :
          /\ Took(Sample(2, v))
          /\ IF s.keep THEN Store(s.index, Clean(v)) ELSE UNCHANGED mData
    /\ qKeep' = (qKeep \/ s.crit)
    /\ UNCHANGED prevValue
NewValueUnguarded(s) ==
    /\ IndexOk(s)
    /\ \E v \in Readable(s.size) :
          /\ Took(Sample(2, v))
          /\ Store(s.index, Clean(v))
          /\ prevValue' = [prevValue EXCEPT ![s.index] = v]
    /\ qKeep' = (qKeep \/ s.crit)
NewValue(s) ==
    /\ IndexOk(s)
    /\ \E v \in Readable(s.size) :
          /\ Took(Sample(2, v))
          /\ IF s.keep
             THEN /\ Store(s.index, Clean(v))
                  /\ prevValue' = [prevValue EXCEPT ![s.index] = v]
             ELSE UNCHANGED <<mData, prevValue>>
    /\ qKeep' = (qKeep \/ s.crit)

DecodeSensor ==
    /\ pc = "sensors"
    /\ i <= nSensors
    /\ \/ NotSampled
       \/ RepeatValue(layout.sensors[i])
       \/ NewValue(layout.sensors[i])
    /\ i' = i + 1
    /\ UNCHANGED <<args, pc, nRows, mNRows, scanCount, log>>

\* checkedIndex refuses the sensor (code 1 or 2), or its value cannot be read:
\* the file ends inside it, or its width is none of 1, 2, 4, 8.  The handler
\* prunes and rethrows, so the half-decoded row is lost.
SensorFailsUnpruned ==
    /\ pc = "sensors"
    /\ i <= nSensors
    /\ pc' = "threw"
    /\ UNCHANGED <<args, mData, prevValue, nRows, mNRows, scanCount, i, qKeep, stream>>
SensorFails ==
    /\ pc = "sensors"
    /\ i <= nSensors
    /\ PruneColumns
    /\ pc' = "threw"
    /\ UNCHANGED <<args, prevValue, nRows, scanCount, i, qKeep, stream>>

\* The end of the sensor loop: the row counts only if a criteria sensor was
\* sampled.  Otherwise the next cycle reuses it as it stands.
EndCycle ==
    /\ pc = "sensors"
    /\ i > nSensors
    /\ nRows' = IF qKeep THEN nRows + 1 ELSE nRows
    /\ log' = Append(log, cycle)
    /\ cycle' = << >>
    /\ i' = 0
    /\ qKeep' = FALSE
    /\ pc' = "tag"
    /\ UNCHANGED <<args, mData, prevValue, mNRows, scanCount>>

Finished == pc \in {"returned", "threw"}
Returned == Finished /\ UNCHANGED vars

Next ==
    \/ NothingToStore \/ Allocate
    \/ EndOfData \/ DataTag \/ BadTag
    \/ ScanOther \/ ScanFound \/ ScanFailed
    \/ ReadBits \/ BitsCutShort
    \/ DecodeSensor \/ SensorFails \/ EndCycle
    \/ Returned

Spec == Init /\ [][Next]_vars

-----------------------------------------------------------------------------
(* What a file says, read off the log: the reference the columns are compared *)
(* with.  It knows nothing of columns, capacities or prevValue.               *)

Cycles == DOMAIN log
Sampled(k, c) == log[c][k].code \in {1, 2}

\* A cycle is worth a row when a sensor of the criteria was sampled in it.
Kept(c) == \E k \in DOMAIN log[c] : layout.sensors[k].crit /\ Sampled(k, c)
KeptUpTo(c) == {d \in 1 .. c : Kept(d)}

\* The reading of sensor k that holds in cycle c: the last fresh one, none
\* before the first.
LastFresh(k, c) ==
    LET fresh == {d \in 1 .. c : log[d][k].code = 2}
    IN  IF fresh = {} THEN NaN
        ELSE log[CHOOSE d \in fresh : \A e \in fresh : e <= d][k].value

\* What cycle c says of sensor k: nothing when it was not sampled.
Says(k, c) == IF Sampled(k, c) THEN Clean(LastFresh(k, c)) ELSE NaN

\* The cycle row r was made of, and the cycles after the row before it.
CycleOfRow(r) == CHOOSE c \in Cycles : Kept(c) /\ Cardinality(KeptUpTo(c)) = r
CyclesOfRow(r) == {c \in 1 .. CycleOfRow(r) : Cardinality(KeptUpTo(c)) >= r - 1
                                              /\ (Kept(c) => c = CycleOfRow(r))}

Written == {k \in DOMAIN layout.sensors : layout.sensors[k].keep}

\* Every kept sensor is also one of the criteria: the case without -c, or
\* with a -c list that covers the -k list.
Unfiltered == \A k \in Written : layout.sensors[k].crit

-----------------------------------------------------------------------------
(* Properties *)

PC == {"start", "tag", "scan", "bits", "sensors", "returned", "threw"}

\* The types of the decoder's variables (Data::load, Data.C:59-213).
TypeOK ==
    /\ layout \in LayoutShape
    /\ nBytes \in FileSizes
    /\ qRepair \in BOOLEAN
    /\ pc \in PC
    /\ mData = << >> \/ mData \in [Columns -> Seq(Reading)]
    /\ prevValue = << >> \/ prevValue \in [Columns -> Reading]
    /\ nRows \in Nat /\ mNRows \in Nat
    /\ scanCount \in 0 .. MaxScan
    /\ i \in Nat
    /\ qKeep \in BOOLEAN
    /\ cycle \in Seq([code: 0 .. 2, value: Reading])
    /\ log \in Seq(Seq([code: 0 .. 2, value: Reading]))

\* Every write of the sensor loop lands inside its column, whatever the guess
\* made from the file's size: growth happens in time, for every column
\* (Data.C:163, 187, 197).
RoomForRow ==
    pc = "sensors" => \A j \in Columns : nRows < Len(mData[j])

\* On both ways out every column holds exactly the rows reported to the
\* caller, the half-decoded row of a failed cycle is gone, and no cycle that
\* met the criteria was lost (Data.C:88-93, 203-211).
ExitsWithWholeRows ==
    Finished =>
        /\ mNRows = Cardinality({c \in Cycles : Kept(c)})
        /\ \A j \in DOMAIN mData : Len(mData[j]) = mNRows

\* Once counted, a row never changes: neither by growing, nor by pruning, nor
\* by the cycles after it (Data.C:88-101, 187, 197).
RowsAreFinal ==
    [][\A j \in DOMAIN mData : \A r \in 1 .. nRows :
          r <= Len(mData'[j]) /\ mData'[j][r] = mData[j][r]]_vars

\* A cell shows the last word of its own sensor since the row before: no
\* other sensor's reading, and none older than that row.  A column that no
\* sensor of this file writes stays empty (Data.C:167-204).
CellsAreRecent ==
    \A j \in Columns : \A r \in 1 .. nRows :
        LET said == {p \in Written \X CyclesOfRow(r) :
                        layout.sensors[p[1]].index = j /\ Sampled(p[1], p[2])}
        IN  mData[j][r] =
               IF said = {} THEN NaN
               ELSE LET last == CHOOSE p \in said : \A q \in said : q[2] <= p[2]
                    IN  Says(last[1], last[2])

\* A row says what its own cycle says: state 0 is "not sampled this cycle"
\* (Data.C:178-179).
RowsHoldOneCycle ==
    \A k \in Written : \A r \in 1 .. nRows :
        mData[layout.sensors[k].index][r] = Says(k, CycleOfRow(r))

\* Without a selection narrower than the output, each row holds its own cycle.
UnfilteredRowsHoldOneCycle == Unfiltered => RowsHoldOneCycle

=============================================================================
