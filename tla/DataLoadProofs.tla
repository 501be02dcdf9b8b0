--------------------------- MODULE DataLoadProofs ---------------------------
(* For every sensor list, file and file size: the types of DataLoad, the     *)
(* bounds of its writes, and the finality of its rows.                       *)
EXTENDS DataLoad, SharedFacts, FiniteSetTheorems, TLAPS

\* Every sensor's state code lies inside the header bytes read for the cycle,
\* so the offIndex test of the sensor loop never fires (Data.C:168-176).
THEOREM OffIndexInRange ==
    ASSUME NEW n \in Nat, NEW k \in 0 .. n - 1
    PROVE  k \div 4 < HeaderBytes(n)
BY DEF HeaderBytes

\* What std::vector::resize keeps and gives.
LEMMA ResizeFacts ==
    ASSUME NEW col \in Seq(Reading), NEW n \in Nat
    PROVE  /\ Resize(col, n) \in Seq(Reading)
           /\ Len(Resize(col, n)) = n
           /\ \A r \in 1 .. n : r <= Len(col) => Resize(col, n)[r] = col[r]
<1>1. Resize(col, n) \in [1 .. n -> Reading]
  BY DEF Resize, Reading
<1>2. QED
  BY <1>1 DEF Resize

\* An infinite reading becomes not-a-number; any other stays itself.
LEMMA CleanReading ==
    ASSUME NEW v \in Reading
    PROVE  Clean(v) \in Reading /\ Clean(v) # Inf
BY ReadingAssumption DEF Clean, Reading

-----------------------------------------------------------------------------

\* Columns exist and are alike once they are allocated.
Allocated == pc # "start" /\ layout.nToStore > 0

Shape ==
    /\ pc = "start" => mData = << >> /\ prevValue = << >> /\ nRows = 0
    /\ pc \notin {"start", "threw"} => layout.nToStore > 0
    /\ pc # "start" /\ layout.nToStore = 0 => mData = << >> /\ prevValue = << >>
    /\ Allocated => /\ mData \in [Columns -> Seq(Reading)]
                    /\ prevValue \in [Columns -> Reading]

\* One capacity for all columns, ahead of the rows or, at the end, equal.
Capacity ==
    Allocated =>
        /\ \A j \in Columns : Len(mData[j]) = Len(mData[0])
        /\ nRows <= Len(mData[0])
        /\ pc \in {"tag", "scan", "bits"} => Len(mData[0]) > 0
        /\ pc = "sensors" => nRows < Len(mData[0])
        /\ Finished => Len(mData[0]) = nRows /\ mNRows = nRows

Control ==
    /\ layout \in LayoutShape
    /\ nBytes \in FileSizes
    /\ qRepair \in BOOLEAN
    /\ pc \in PC
    /\ nRows \in Nat /\ mNRows \in Nat
    /\ scanCount \in 0 .. MaxScan
    /\ i \in Nat
    /\ pc = "sensors" => i \in 1 .. nSensors + 1
    /\ qKeep \in BOOLEAN

Stream ==
    /\ cycle \in Seq([code: 0 .. 2, value: Reading])
    /\ log \in Seq(Seq([code: 0 .. 2, value: Reading]))

IInv == Control /\ Stream /\ Shape /\ Capacity

\* A file with a column has column 0, the one whose length load measures.
LEMMA ColumnZero ==
    ASSUME layout \in LayoutShape, layout.nToStore > 0
    PROVE  0 \in Columns
BY DEF LayoutShape, Columns

\* Cutting or growing all the columns to one length.
LEMMA ResizeAllFacts ==
    ASSUME IInv, Allocated, NEW n \in Nat
    PROVE  /\ ResizeAll(n) \in [Columns -> Seq(Reading)]
           /\ \A j \in Columns : Len(ResizeAll(n)[j]) = n
           /\ \A j \in Columns : \A r \in 1 .. n :
                 r <= Len(mData[j]) => ResizeAll(n)[j][r] = mData[j][r]
<1>1. mData \in [Columns -> Seq(Reading)]
  BY DEF IInv, Shape
<1>2. \A j \in Columns : /\ Resize(mData[j], n) \in Seq(Reading)
                         /\ Len(Resize(mData[j], n)) = n
                         /\ \A r \in 1 .. n : r <= Len(mData[j]) =>
                               Resize(mData[j], n)[r] = mData[j][r]
  BY <1>1, ResizeFacts
<1>3. QED
  BY <1>2 DEF ResizeAll

\* Storing a reading in the row being filled.
LEMMA StoreFacts ==
    ASSUME IInv, pc = "sensors", NEW col \in Columns, NEW v \in Reading, Store(col, v)
    PROVE  /\ mData' \in [Columns -> Seq(Reading)]
           /\ \A j \in Columns : Len(mData'[j]) = Len(mData[j])
           /\ \A j \in Columns : \A r \in 1 .. nRows : mData'[j][r] = mData[j][r]
<1>1. Allocated /\ mData \in [Columns -> Seq(Reading)] /\ nRows \in Nat
  BY DEF IInv, Shape, Allocated, Control
<1>2. nRows + 1 \in 1 .. Len(mData[col])
  BY <1>1, ColumnZero DEF IInv, Capacity, Control
<1> DEFINE new == [mData[col] EXCEPT ![nRows + 1] = v]
<1>3. new \in Seq(Reading) /\ Len(new) = Len(mData[col])
  BY <1>1, <1>2
<1>4. mData' = [mData EXCEPT ![col] = new]
  BY DEF Store
<1>5. \A r \in 1 .. nRows : new[r] = mData[col][r]
  BY <1>1, <1>2
<1> HIDE DEF new
<1>6. QED
  BY <1>1, <1>3, <1>4, <1>5

-----------------------------------------------------------------------------
(* The invariant is inductive *)

\* Before the first cycle nothing is allocated, and the invariant holds.
LEMMA InitInv == Init => IInv
<1> SUFFICES ASSUME Init PROVE IInv
  OBVIOUS
<1>1. Control
  <2>1. layout \in LayoutShape
    BY LayoutsAssumption DEF Init
  <2>2. 0 \in 0 .. MaxScan
    BY ScanAssumption
  <2>3. QED
    BY <2>1, <2>2 DEF Init, Control, PC
<1>2. Stream
  BY DEF Init, Stream
<1>3. Shape /\ Capacity
  BY DEF Init, Shape, Capacity, Allocated
<1>4. QED
  BY <1>1, <1>2, <1>3 DEF IInv

\* The first guess at the capacity is a positive number.
LEMMA FirstCapacity ==
    ASSUME IInv, NEW d, d = (2 * nBytes) \div (HeaderBytes(nSensors) + 1) + 1
    PROVE  d \in Nat /\ d > 0
<1>1. nBytes \in Nat /\ nSensors \in Nat
  BY SizesAssumption DEF IInv, Control, LayoutShape, nSensors
<1>2. HeaderBytes(nSensors) \in Nat
  BY <1>1 DEF HeaderBytes
<1>3. QED
  BY <1>1, <1>2

\* Pruning leaves the committed rows, in every column.
LEMMA PruneFacts ==
    ASSUME IInv, Allocated, PruneColumns
    PROVE  /\ mData' \in [Columns -> Seq(Reading)]
           /\ \A j \in Columns : Len(mData'[j]) = nRows
           /\ mNRows' = nRows
           /\ \A j \in Columns : \A r \in 1 .. nRows : mData'[j][r] = mData[j][r]
<1>1. nRows \in Nat /\ \A j \in Columns : nRows <= Len(mData[j])
  BY DEF IInv, Control, Capacity
<1>2. mData' = ResizeAll(nRows) /\ mNRows' = nRows
  BY DEF PruneColumns
<1>3. /\ ResizeAll(nRows) \in [Columns -> Seq(Reading)]
      /\ \A j \in Columns : Len(ResizeAll(nRows)[j]) = nRows
      /\ \A j \in Columns : \A r \in 1 .. nRows :
            r <= Len(mData[j]) => ResizeAll(nRows)[j][r] = mData[j][r]
  BY <1>1, ResizeAllFacts
<1>4. \A j \in Columns : \A r \in 1 .. nRows : r <= Len(mData[j])
  <2>1. \A j \in Columns : Len(mData[j]) \in Nat
    BY DEF IInv, Shape
  <2>2. QED
    BY <1>1, <2>1
<1>5. QED
  BY <1>2, <1>3, <1>4

\* The ways out of the loop.
LEMMA ExitInv ==
    ASSUME IInv, pc \notin {"start", "returned", "threw"}, PruneColumns,
           pc' \in {"returned", "threw"}, scanCount' \in 0 .. MaxScan,
           UNCHANGED <<args, prevValue, nRows, i, qKeep, stream>>
    PROVE  IInv'
<1> USE DEF args, stream
<1>1. Allocated /\ Columns' = Columns /\ layout.nToStore > 0
  BY DEF IInv, Shape, Allocated, Columns
<1>2. /\ mData' \in [Columns -> Seq(Reading)]
      /\ \A j \in Columns : Len(mData'[j]) = nRows
      /\ mNRows' = nRows
  BY <1>1, PruneFacts
<1>3. Control'
  BY <1>2 DEF IInv, Control, PC, nSensors
<1>4. Stream'
  BY DEF IInv, Stream
<1>5. Shape'
  BY <1>1, <1>2 DEF IInv, Shape, Allocated
<1>6. Capacity'
  BY <1>1, <1>2, ColumnZero DEF IInv, Control, Capacity, Allocated, Finished
<1>7. QED
  BY <1>3, <1>4, <1>5, <1>6 DEF IInv

\* The first allocation gives every column the guessed capacity.
LEMMA AllocateInv == IInv /\ Allocate => IInv'
<1> SUFFICES ASSUME IInv, Allocate PROVE IInv'
  OBVIOUS
<1> USE DEF args, stream
<1> DEFINE d == (2 * nBytes) \div (HeaderBytes(nSensors) + 1) + 1
<1>1. d \in Nat /\ d > 0
  BY FirstCapacity
<1>2. mData' = [j \in Columns |-> [r \in 1 .. d |-> NaN]]
  BY DEF Allocate
<1> HIDE DEF d
<1>3. [r \in 1 .. d |-> NaN] \in Seq(Reading) /\ Len([r \in 1 .. d |-> NaN]) = d
  <2>1. [r \in 1 .. d |-> NaN] \in [1 .. d -> Reading]
    BY DEF Reading
  <2>2. QED
    BY <1>1, <2>1
<1>4. /\ mData' \in [Columns -> Seq(Reading)]
      /\ \A j \in Columns : Len(mData'[j]) = d
  BY <1>2, <1>3
<1>5. /\ prevValue' \in [Columns -> Reading]
      /\ Columns' = Columns /\ layout' = layout /\ layout.nToStore > 0
      /\ pc' = "tag" /\ nRows' = 0
  BY DEF Allocate, Reading, Columns, IInv, Shape
<1>6. Control'
  BY DEF IInv, Control, Allocate, PC, nSensors
<1>7. Stream'
  BY DEF IInv, Stream, Allocate
<1>8. Shape'
  BY <1>4, <1>5 DEF Shape, Allocated
<1>9. Capacity'
  BY <1>1, <1>4, <1>5, ColumnZero DEF IInv, Control, Capacity, Allocated, Finished
<1>10. QED
  BY <1>6, <1>7, <1>8, <1>9 DEF IInv

\* The tag and the repair scan leave the columns alone.
LEMMA TagInv ==
    ASSUME IInv, DataTag \/ BadTag \/ ScanOther \/ ScanFound
    PROVE  IInv'
<1> USE DEF args, stream
<1>1. /\ UNCHANGED <<args, mData, prevValue, nRows, mNRows, i, qKeep, stream>>
      /\ pc \in {"tag", "scan"} /\ pc' \in {"scan", "bits"}
      /\ scanCount' \in 0 .. MaxScan
  BY ScanAssumption DEF IInv, Control, DataTag, BadTag, ScanOther, ScanFound
<1>2. Control'
  BY <1>1 DEF IInv, Control, PC, nSensors
<1>3. Stream'
  BY <1>1 DEF IInv, Stream
<1>4. Shape'
  BY <1>1 DEF IInv, Shape, Allocated, Columns
<1>5. Capacity'
  BY <1>1 DEF IInv, Shape, Capacity, Allocated, Columns, Finished
<1>6. QED
  BY <1>2, <1>3, <1>4, <1>5 DEF IInv

\* Growth leaves room for the row about to be filled.
LEMMA GrowthFacts ==
    ASSUME IInv, pc = "bits", ReadBits
    PROVE  /\ mData' \in [Columns -> Seq(Reading)]
           /\ \A j \in Columns : Len(mData'[j]) = Len(mData'[0])
           /\ nRows < Len(mData'[0])
           /\ \A j \in Columns : \A r \in 1 .. nRows : mData'[j][r] = mData[j][r]
<1>1. /\ Allocated /\ 0 \in Columns
      /\ mData \in [Columns -> Seq(Reading)] /\ nRows \in Nat
      /\ \A j \in Columns : Len(mData[j]) = Len(mData[0])
      /\ nRows <= Len(mData[0]) /\ Len(mData[0]) \in Nat /\ Len(mData[0]) > 0
  BY ColumnZero DEF IInv, Control, Shape, Capacity, Allocated
<1>2. CASE MustGrow(mData[0])
  <2> DEFINE size == Grown(Len(mData[0]))
  <2>1. size \in Nat /\ size > Len(mData[0])
    BY <1>1 DEF Grown
  <2>2. mData' = ResizeAll(size)
    BY <1>2 DEF ReadBits
  <2> HIDE DEF size
  <2>3. /\ ResizeAll(size) \in [Columns -> Seq(Reading)]
        /\ \A j \in Columns : Len(ResizeAll(size)[j]) = size
        /\ \A j \in Columns : \A r \in 1 .. size :
              r <= Len(mData[j]) => ResizeAll(size)[j][r] = mData[j][r]
    BY <1>1, <2>1, ResizeAllFacts
  <2>4. \A j \in Columns : \A r \in 1 .. nRows : r \in 1 .. size /\ r <= Len(mData[j])
    BY <1>1, <2>1
  <2>5. Len(mData'[0]) = size /\ nRows < size
    BY <1>1, <2>1, <2>2, <2>3
  <2>6. QED
    BY <2>2, <2>3, <2>4, <2>5
<1>3. CASE ~MustGrow(mData[0])
  <2>1. mData' = mData
    BY <1>3 DEF ReadBits
  <2>2. QED
    BY <1>1, <1>3, <2>1 DEF MustGrow
<1>4. QED
  BY <1>2, <1>3

\* Growing before the cycle keeps the columns of one length, with room.
LEMMA ReadBitsInv == IInv /\ ReadBits => IInv'
<1> SUFFICES ASSUME IInv, ReadBits PROVE IInv'
  OBVIOUS
<1> USE DEF args
<1>1. /\ pc = "bits" /\ pc' = "sensors" /\ i' = 1 /\ qKeep' = FALSE /\ cycle' = << >>
      /\ layout' = layout /\ Columns' = Columns
      /\ UNCHANGED <<args, prevValue, nRows, mNRows, scanCount, log>>
  BY DEF ReadBits, Columns
<1>2. Control'
  <2>1. nSensors \in Nat
    BY DEF IInv, Control, LayoutShape, nSensors
  <2>2. nSensors' = nSensors
    BY <1>1 DEF nSensors
  <2>3. i' \in Nat /\ i' \in 1 .. nSensors' + 1
    BY <1>1, <2>1, <2>2
  <2>4. QED
    BY <1>1, <2>3 DEF IInv, Control, PC
<1>3. Stream'
  BY <1>1 DEF IInv, Stream
<1>4. Shape'
  BY <1>1, GrowthFacts DEF IInv, Shape, Allocated
<1>5. Capacity'
  BY <1>1, GrowthFacts, ColumnZero DEF IInv, Control, Capacity, Allocated, Finished
<1>6. QED
  BY <1>2, <1>3, <1>4, <1>5 DEF IInv

\* One sensor of a cycle: what it does to the columns, and to the rest.
LEMMA SensorFacts ==
    ASSUME IInv, DecodeSensor
    PROVE  /\ mData' \in [Columns -> Seq(Reading)]
           /\ prevValue' \in [Columns -> Reading]
           /\ \A j \in Columns : Len(mData'[j]) = Len(mData[j])
           /\ \A j \in Columns : \A r \in 1 .. nRows : mData'[j][r] = mData[j][r]
           /\ cycle' \in Seq([code: 0 .. 2, value: Reading])
           /\ qKeep' \in BOOLEAN
<1> DEFINE s == layout.sensors[i]
<1>1. /\ pc = "sensors" /\ Allocated
      /\ mData \in [Columns -> Seq(Reading)] /\ prevValue \in [Columns -> Reading]
      /\ cycle \in Seq([code: 0 .. 2, value: Reading]) /\ qKeep \in BOOLEAN
      /\ nRows \in Nat
  BY DEF DecodeSensor, IInv, Control, Stream, Shape, Allocated
<1>2. s \in SensorShape
  BY DEF DecodeSensor, IInv, Control, LayoutShape, nSensors
<1>3. \A smp \in [code: 0 .. 2, value: Reading] :
         Append(cycle, smp) \in Seq([code: 0 .. 2, value: Reading])
  BY <1>1
<1>4. NaN \in Reading
  BY DEF Reading
<1>5. CASE NotSampled
  <2>1. cycle' = Append(cycle, [code |-> 0, value |-> NaN]) /\ UNCHANGED <<mData, prevValue, qKeep>>
    BY <1>5 DEF NotSampled, Took, Sample
  <2>2. cycle' \in Seq([code: 0 .. 2, value: Reading])
    <3>1. [code |-> 0, value |-> NaN] \in [code: 0 .. 2, value: Reading]
      BY <1>4
    <3>2. QED
      BY <1>3, <2>1, <3>1
  <2>3. QED
    BY <1>1, <2>1, <2>2
<1>6. ASSUME IndexOk(s) PROVE s.index \in Columns
  BY <1>2, <1>6 DEF IndexOk, Columns, SensorShape, IInv, Control, LayoutShape
<1>7. CASE RepeatValue(s)
  <2>1. s.index \in Columns /\ qKeep' \in BOOLEAN /\ prevValue' = prevValue
    BY <1>1, <1>2, <1>6, <1>7 DEF RepeatValue, SensorShape
  <2>2. cycle' \in Seq([code: 0 .. 2, value: Reading])
    <3>1. cycle' = Append(cycle, [code |-> 1, value |-> NaN])
      BY <1>7 DEF RepeatValue, Took, Sample
    <3>2. [code |-> 1, value |-> NaN] \in [code: 0 .. 2, value: Reading]
      BY <1>4
    <3>3. QED
      BY <1>3, <3>1, <3>2
  <2>3. Clean(prevValue[s.index]) \in Reading
    BY <1>1, <2>1, CleanReading
  <2>4. Store(s.index, Clean(prevValue[s.index])) \/ UNCHANGED mData
    BY <1>7 DEF RepeatValue
  <2> HIDE DEF s
  <2>5. QED
    BY <1>1, <2>1, <2>2, <2>3, <2>4, StoreFacts
<1>8. CASE NewValue(s)
  <2>1. s.index \in Columns /\ qKeep' \in BOOLEAN
    BY <1>1, <1>2, <1>6, <1>8 DEF NewValue, SensorShape
  <2>2. PICK v \in Readable(s.size) :
          /\ cycle' = Append(cycle, [code |-> 2, value |-> v])
          /\ \/ Store(s.index, Clean(v)) /\ prevValue' = [prevValue EXCEPT ![s.index] = v]
             \/ UNCHANGED <<mData, prevValue>>
    BY <1>8 DEF NewValue, Took, Sample
  <2>3. v \in Reading
    BY <2>2 DEF Readable, Reading
  <2>4. cycle' \in Seq([code: 0 .. 2, value: Reading])
    <3>1. [code |-> 2, value |-> v] \in [code: 0 .. 2, value: Reading]
      BY <2>3
    <3>2. QED
      BY <1>3, <2>2, <3>1
  <2>5. Clean(v) \in Reading
    BY <2>3, CleanReading
  <2> HIDE DEF s
  <2>6. QED
    BY <1>1, <2>1, <2>2, <2>3, <2>4, <2>5, StoreFacts
<1>9. QED
  BY <1>5, <1>7, <1>8 DEF DecodeSensor

\* One sensor decoded writes at most one cell, inside its column.
LEMMA DecodeSensorInv == IInv /\ DecodeSensor => IInv'
<1> SUFFICES ASSUME IInv, DecodeSensor PROVE IInv'
  OBVIOUS
<1> USE DEF args
<1>1. /\ pc = "sensors" /\ pc' = "sensors" /\ i <= nSensors /\ i' = i + 1
      /\ layout' = layout /\ Columns' = Columns
      /\ UNCHANGED <<args, nRows, mNRows, scanCount, log>>
  BY DEF DecodeSensor, Columns
<1>2. Control'
  BY <1>1, SensorFacts DEF IInv, Control, PC, nSensors, LayoutShape
<1>3. Stream'
  BY <1>1, SensorFacts DEF IInv, Stream
<1>4. Shape'
  BY <1>1, SensorFacts DEF IInv, Shape, Allocated
<1>5. Capacity'
  BY <1>1, SensorFacts, ColumnZero DEF IInv, Control, Shape, Capacity, Allocated, Finished
<1>6. QED
  BY <1>2, <1>3, <1>4, <1>5 DEF IInv

\* Committing the row, or dropping it, leaves the columns alone.
LEMMA EndCycleInv == IInv /\ EndCycle => IInv'
<1> SUFFICES ASSUME IInv, EndCycle PROVE IInv'
  OBVIOUS
<1> USE DEF args
<1>1. /\ pc = "sensors" /\ pc' = "tag" /\ i' = 0 /\ qKeep' = FALSE
      /\ nRows' \in {nRows, nRows + 1}
      /\ layout' = layout /\ Columns' = Columns
      /\ UNCHANGED <<args, mData, prevValue, mNRows, scanCount>>
  BY DEF EndCycle, Columns
<1>2. Control'
  <2>1. nRows' \in Nat
    BY <1>1 DEF IInv, Control
  <2>2. QED
    BY <1>1, <2>1 DEF IInv, Control, PC
<1>3. Stream'
  BY DEF IInv, Stream, EndCycle
<1>4. Shape'
  BY <1>1 DEF IInv, Shape, Allocated
<1>5. Capacity'
  BY <1>1, ColumnZero DEF IInv, Control, Shape, Capacity, Allocated, Finished
<1>6. QED
  BY <1>2, <1>3, <1>4, <1>5 DEF IInv

\* With no column to store, load returns at once.
LEMMA NothingInv == IInv /\ NothingToStore => IInv'
<1> SUFFICES ASSUME IInv, NothingToStore PROVE IInv'
  OBVIOUS
<1> USE DEF args, stream, NothingToStore
<1>1. Control'
  BY DEF IInv, Control, PC, nSensors
<1>2. Stream'
  BY DEF IInv, Stream
<1>3. Shape' /\ Capacity'
  BY DEF IInv, Shape, Capacity, Allocated
<1>4. QED
  BY <1>1, <1>2, <1>3 DEF IInv

\* Every step of load preserves the invariant.
LEMMA NextInv == IInv /\ [Next]_vars => IInv'
<1> SUFFICES ASSUME IInv, [Next]_vars PROVE IInv'
  OBVIOUS
<1>1. CASE NothingToStore
  BY <1>1, NothingInv
<1>2. CASE Allocate
  BY <1>2, AllocateInv
<1>3. CASE DataTag \/ BadTag \/ ScanOther \/ ScanFound
  BY <1>3, TagInv
<1>4. CASE EndOfData \/ ScanFailed \/ BitsCutShort \/ SensorFails
  <2>1. /\ pc \notin {"start", "returned", "threw"} /\ PruneColumns
        /\ pc' \in {"returned", "threw"} /\ scanCount' \in 0 .. MaxScan
        /\ UNCHANGED <<args, prevValue, nRows, i, qKeep, stream>>
    BY <1>4, ScanAssumption
    DEF EndOfData, ScanFailed, BitsCutShort, SensorFails, IInv, Control, args, stream
  <2>2. QED
    BY <2>1, ExitInv
<1>5. CASE ReadBits
  BY <1>5, ReadBitsInv
<1>6. CASE DecodeSensor
  BY <1>6, DecodeSensorInv
<1>7. CASE EndCycle
  BY <1>7, EndCycleInv
<1>8. CASE Returned \/ UNCHANGED vars
  BY <1>8 DEF Returned, vars, IInv, Control, Stream, Shape, Capacity, Allocated,
              Columns, Finished, nSensors
<1>9. QED
  BY <1>1, <1>2, <1>3, <1>4, <1>5, <1>6, <1>7, <1>8 DEF Next

\* The inductive invariant holds throughout Data::load (Data.C:49-213).
THEOREM Invariance == Spec => []IInv
BY InitInv, NextInv, PTL DEF Spec

-----------------------------------------------------------------------------
(* What follows *)

\* The types of the decoder's variables hold for every file and sensor list.
THEOREM TypeCorrect == Spec => []TypeOK
<1>1. IInv => TypeOK
  <2> SUFFICES ASSUME IInv PROVE TypeOK
    OBVIOUS
  <2>1. \/ mData = << >> /\ prevValue = << >>
        \/ mData \in [Columns -> Seq(Reading)] /\ prevValue \in [Columns -> Reading]
    <3>1. layout.nToStore \in Nat
      BY DEF IInv, Control, LayoutShape
    <3>2. CASE pc = "start" \/ layout.nToStore = 0
      BY <3>2 DEF IInv, Shape
    <3>3. CASE ~(pc = "start" \/ layout.nToStore = 0)
      <4>1. Allocated
        BY <3>1, <3>3 DEF Allocated
      <4>2. QED
        BY <4>1 DEF IInv, Shape
    <3>4. QED
      BY <3>2, <3>3
  <2>2. QED
    BY <2>1 DEF IInv, Control, Stream, TypeOK
<1>2. QED
  BY <1>1, Invariance, PTL

\* No cell is written outside its column: whatever the guess of the file's
\* size, the growth rule keeps ahead of the rows (Data.C:163).
THEOREM WritesInBounds == Spec => []RoomForRow
<1>1. IInv => RoomForRow
  BY ColumnZero DEF IInv, Control, Shape, Capacity, Allocated, RoomForRow
<1>2. QED
  BY <1>1, Invariance, PTL

\* No step of load touches the rows committed before it.
LEMMA RowsKept ==
    ASSUME IInv, [Next]_vars
    PROVE  \A j \in DOMAIN mData : \A r \in 1 .. nRows :
              r <= Len(mData'[j]) /\ mData'[j][r] = mData[j][r]
<1>1. CASE pc = "start" \/ layout.nToStore = 0
  <2>1. mData = << >>
    BY <1>1 DEF IInv, Shape, Control, LayoutShape
  <2>2. QED
    BY <2>1
<1>2. CASE ~(pc = "start" \/ layout.nToStore = 0)
  <2>1. Allocated /\ DOMAIN mData = Columns /\ mData \in [Columns -> Seq(Reading)]
    BY <1>2 DEF IInv, Shape, Control, LayoutShape, Allocated
  <2>2. nRows \in Nat /\ \A j \in Columns : nRows <= Len(mData[j])
    BY <2>1, ColumnZero DEF IInv, Control, Capacity
  <2>3. CASE PruneColumns
    BY <2>1, <2>2, <2>3, PruneFacts
  <2>4. CASE UNCHANGED mData
    BY <2>1, <2>2, <2>4
  <2>5. CASE ReadBits
    <3>1. pc = "bits"
      BY <2>5 DEF ReadBits
    <3>2. QED
      BY <2>1, <2>2, <2>5, <3>1, GrowthFacts
  <2>6. CASE DecodeSensor
    BY <2>1, <2>2, <2>6, SensorFacts
  <2>7. QED
    BY <1>2, <2>3, <2>4, <2>5, <2>6
    DEF Next, NothingToStore, Allocate, EndOfData, DataTag, BadTag, ScanOther, ScanFound,
        ScanFailed, BitsCutShort, SensorFails, EndCycle, Returned, vars
<1>3. QED
  BY <1>1, <1>2

\* A committed row is never changed by what comes after it.
THEOREM RowsFinal == Spec => RowsAreFinal
<1> DEFINE Final == \A j \in DOMAIN mData : \A r \in 1 .. nRows :
                       r <= Len(mData'[j]) /\ mData'[j][r] = mData[j][r]
<1>1. IInv /\ [Next]_vars => Final
  BY RowsKept
<1>2. QED
  BY <1>1, Invariance, PTL DEF Spec, RowsAreFinal

-----------------------------------------------------------------------------
(* The rows are the cycles that met the criteria *)

MeetsCriteria(samples) ==
    \E k \in DOMAIN samples : layout.sensors[k].crit /\ samples[k].code \in {1, 2}
KeptCycles == {c \in Cycles : Kept(c)}

\* nRows counts the cycles kept so far, and qKeep looks ahead to the next.
Count ==
    /\ nRows = Cardinality(KeptCycles)
    /\ pc = "start" \/ Finished => mNRows = nRows
    /\ pc = "sensors" => Len(cycle) = i - 1 /\ (qKeep <=> MeetsCriteria(cycle))

\* At the start no cycle is kept and no row counted.
LEMMA CountInit == Init => Count
<1> SUFFICES ASSUME Init PROVE Count
  OBVIOUS
<1>1. KeptCycles = {}
  BY DEF Init, KeptCycles, Cycles
<1>2. Cardinality({}) = 0
  BY FS_EmptySet
<1>3. QED
  BY <1>1, <1>2 DEF Init, Count, Finished

\* A step that ends no cycle leaves the count alone.
LEMMA SameCycles ==
    ASSUME UNCHANGED <<layout, log>>
    PROVE  KeptCycles' = KeptCycles
BY DEF KeptCycles, Cycles, Kept, Sampled

\* A cycle that ends adds itself, or nothing, to the kept ones.
LEMMA CycleEnds ==
    ASSUME IInv, Count, EndCycle
    PROVE  KeptCycles' = IF qKeep THEN KeptCycles \cup {Len(log) + 1} ELSE KeptCycles
<1>1. /\ log \in Seq(Seq([code: 0 .. 2, value: Reading]))
      /\ cycle \in Seq([code: 0 .. 2, value: Reading])
      /\ log' = Append(log, cycle) /\ layout' = layout
      /\ qKeep <=> MeetsCriteria(cycle)
  BY DEF IInv, Stream, Count, EndCycle, args
<1>2. /\ Cycles = 1 .. Len(log) /\ Len(log) \in Nat
      /\ Cycles' = 1 .. Len(log) + 1
      /\ \A c \in 1 .. Len(log) : log'[c] = log[c]
      /\ log'[Len(log) + 1] = cycle
  BY <1>1 DEF Cycles
<1>3. \A c \in 1 .. Len(log) : Kept(c)' <=> Kept(c)
  BY <1>1, <1>2 DEF Kept, Sampled
<1>4. (\E k \in DOMAIN log'[Len(log) + 1] :
          layout'.sensors[k].crit /\ log'[Len(log) + 1][k].code \in {1, 2}) <=> qKeep
  BY <1>1, <1>2 DEF MeetsCriteria
<1>5. KeptCycles' = {c \in 1 .. Len(log) + 1 :
         \E k \in DOMAIN log'[c] : layout'.sensors[k].crit /\ log'[c][k].code \in {1, 2}}
  BY <1>2 DEF KeptCycles, Cycles, Kept, Sampled
<1>6. KeptCycles = {c \in 1 .. Len(log) :
         \E k \in DOMAIN log[c] : layout.sensors[k].crit /\ log[c][k].code \in {1, 2}}
  BY <1>2 DEF KeptCycles, Cycles, Kept, Sampled
<1>7. \A c \in 1 .. Len(log) + 1 : c \in 1 .. Len(log) \/ c = Len(log) + 1
  BY <1>2
<1>8. CASE qKeep
  BY <1>1, <1>2, <1>4, <1>5, <1>6, <1>7, <1>8
<1>9. CASE ~qKeep
  BY <1>1, <1>2, <1>4, <1>5, <1>6, <1>7, <1>9
<1>10. QED
  BY <1>8, <1>9

\* The end of a cycle counts a row exactly when it met the criteria.
LEMMA CountEndCycle ==
    ASSUME IInv, Count, EndCycle
    PROVE  Count'
<1>1. /\ pc' = "tag" /\ nRows' = (IF qKeep THEN nRows + 1 ELSE nRows)
      /\ nRows = Cardinality(KeptCycles) /\ qKeep \in BOOLEAN
  BY DEF IInv, Control, EndCycle, Count
<1>2. /\ Len(log) \in Nat /\ KeptCycles \subseteq 1 .. Len(log)
  BY DEF IInv, Stream, KeptCycles, Cycles
<1>3. IsFiniteSet(KeptCycles)
  <2>1. IsFiniteSet(1 .. Len(log))
    BY <1>2, FS_Interval
  <2>2. QED
    BY <1>2, <2>1, FS_Subset
<1>4. Len(log) + 1 \notin KeptCycles
  BY <1>2
<1>5. Cardinality(KeptCycles \cup {Len(log) + 1}) = Cardinality(KeptCycles) + 1
  BY <1>3, <1>4, FS_AddElement
<1>6. nRows' = Cardinality(KeptCycles')
  BY <1>1, <1>5, CycleEnds
<1>7. QED
  BY <1>1, <1>6 DEF Count, Finished

\* A sensor decoded is one more sample, and one more chance for the row.
LEMMA CountDecode ==
    ASSUME IInv, Count, DecodeSensor
    PROVE  Count'
<1>1. /\ pc = "sensors" /\ pc' = "sensors" /\ i' = i + 1 /\ nRows' = nRows
      /\ UNCHANGED <<layout, log>> /\ Len(cycle) = i - 1
      /\ i \in Nat /\ i > 0 /\ qKeep \in BOOLEAN
      /\ cycle \in Seq([code: 0 .. 2, value: Reading])
      /\ qKeep <=> MeetsCriteria(cycle)
  BY DEF IInv, Control, Stream, Count, DecodeSensor, args
<1>2. PICK code \in 0 .. 2, v \in Reading :
         /\ cycle' = Append(cycle, [code |-> code, value |-> v])
         /\ qKeep' <=> (qKeep \/ (code \in {1, 2} /\ layout.sensors[i].crit))
  <2>1. CASE NotSampled
    <3>1. cycle' = Append(cycle, [code |-> 0, value |-> NaN]) /\ qKeep' = qKeep
      BY <2>1 DEF NotSampled, Took, Sample
    <3>2. 0 \in 0 .. 2 /\ 0 \notin {1, 2} /\ NaN \in Reading
      BY DEF Reading
    <3>3. QED
      BY <3>1, <3>2, Zenon
  <2>2. CASE RepeatValue(layout.sensors[i])
    <3>1. /\ cycle' = Append(cycle, [code |-> 1, value |-> NaN])
          /\ qKeep' <=> (qKeep \/ layout.sensors[i].crit)
      BY <2>2, Zenon DEF RepeatValue, Took, Sample
    <3>2. 1 \in 0 .. 2 /\ 1 \in {1, 2} /\ NaN \in Reading
      BY DEF Reading
    <3>3. QED
      BY <3>1, <3>2, Zenon
  <2>3. CASE NewValue(layout.sensors[i])
    <3>1. PICK v \in Readable(layout.sensors[i].size) :
             cycle' = Append(cycle, [code |-> 2, value |-> v])
      BY <2>3, Zenon DEF NewValue, Took, Sample
    <3>2. qKeep' <=> (qKeep \/ layout.sensors[i].crit)
      BY <2>3, Zenon DEF NewValue
    <3>3. 2 \in 0 .. 2 /\ 2 \in {1, 2} /\ v \in Reading
      BY DEF Readable, Reading
    <3>4. QED
      BY <3>1, <3>2, <3>3, Zenon
  <2>4. QED
    BY <2>1, <2>2, <2>3 DEF DecodeSensor
<1> DEFINE new == [code |-> code, value |-> v]
<1>3. /\ DOMAIN cycle = 1 .. i - 1 /\ Len(cycle') = i /\ DOMAIN cycle' = 1 .. i
      /\ \A k \in 1 .. i - 1 : cycle'[k] = cycle[k]
      /\ cycle'[i] = new
  BY <1>1, <1>2
<1>4. MeetsCriteria(cycle)' <=>
         (MeetsCriteria(cycle) \/ (layout.sensors[i].crit /\ code \in {1, 2}))
  <2>1. MeetsCriteria(cycle)' <=>
           \E k \in 1 .. i : layout.sensors[k].crit /\ cycle'[k].code \in {1, 2}
    BY <1>1, <1>3 DEF MeetsCriteria
  <2>2. MeetsCriteria(cycle) <=>
           \E k \in 1 .. i - 1 : layout.sensors[k].crit /\ cycle[k].code \in {1, 2}
    BY <1>3 DEF MeetsCriteria
  <2>3. new.code = code /\ i \in 1 .. i /\ \A k \in 1 .. i : k \in 1 .. i - 1 \/ k = i
    BY <1>1
  <2>4. \A k \in 1 .. i - 1 : k \in 1 .. i
    BY <1>1
  <2> HIDE DEF new
  <2>5. QED
    BY <1>3, <2>1, <2>2, <2>3, <2>4
<1>5. qKeep' <=> MeetsCriteria(cycle)'
  BY <1>1, <1>2, <1>4
<1>6. KeptCycles' = KeptCycles
  BY <1>1, SameCycles
<1>7. QED
  BY <1>1, <1>3, <1>5, <1>6 DEF Count, Finished

\* Every step of load keeps the count.
LEMMA CountNext == IInv /\ Count /\ [Next]_vars => Count'
<1> SUFFICES ASSUME IInv, Count, [Next]_vars PROVE Count'
  OBVIOUS
<1>1. CASE EndCycle
  BY <1>1, CountEndCycle
<1>2. CASE DecodeSensor
  BY <1>2, CountDecode
<1>3. CASE UNCHANGED vars
  <2>1. KeptCycles' = KeptCycles
    BY <1>3, SameCycles DEF vars
  <2>2. QED
    BY <1>3, <2>1 DEF vars, Count, Finished, MeetsCriteria
<1>4. CASE ReadBits
  <2>1. /\ KeptCycles' = KeptCycles /\ nRows' = nRows /\ pc' = "sensors"
        /\ i' = 1 /\ qKeep' = FALSE /\ cycle' = << >>
    BY <1>4, SameCycles DEF ReadBits, args
  <2>2. Len(cycle') = i' - 1 /\ ~MeetsCriteria(cycle)'
    BY <2>1 DEF MeetsCriteria
  <2>3. QED
    BY <2>1, <2>2 DEF Count, Finished
<1>5. CASE Allocate \/ DataTag \/ BadTag \/ ScanOther \/ ScanFound
  <2>1. /\ KeptCycles' = KeptCycles /\ nRows' = nRows
        /\ pc' \in {"tag", "scan", "bits"}
    BY <1>5, SameCycles DEF Allocate, DataTag, BadTag, ScanOther, ScanFound, args, stream
  <2>2. QED
    BY <2>1 DEF Count, Finished
<1>6. CASE NothingToStore \/ EndOfData \/ ScanFailed \/ BitsCutShort \/ SensorFails
  <2>1. KeptCycles' = KeptCycles /\ nRows' = nRows /\ pc' \in {"returned", "threw"}
    BY <1>6, SameCycles
    DEF NothingToStore, EndOfData, ScanFailed, BitsCutShort, SensorFails, args, stream
  <2>2. mNRows' = nRows
    BY <1>6 DEF Count, NothingToStore, EndOfData, ScanFailed, BitsCutShort, SensorFails,
                PruneColumns
  <2>3. QED
    BY <2>1, <2>2 DEF Count, Finished
<1>7. QED
  BY <1>1, <1>2, <1>3, <1>4, <1>5, <1>6 DEF Next, Returned

\* Both ways out leave whole columns, of exactly the cycles that met the
\* criteria: no half-decoded row, and none lost.
THEOREM WholeRows == Spec => []ExitsWithWholeRows
<1>1. Spec => [](IInv /\ Count)
  BY InitInv, NextInv, CountInit, CountNext, PTL DEF Spec
<1>2. IInv /\ Count => ExitsWithWholeRows
  <2> SUFFICES ASSUME IInv, Count, Finished
               PROVE  /\ mNRows = Cardinality(KeptCycles)
                      /\ \A j \in DOMAIN mData : Len(mData[j]) = mNRows
    BY DEF ExitsWithWholeRows, KeptCycles
  <2>1. mNRows = nRows /\ nRows = Cardinality(KeptCycles)
    BY DEF Count
  <2>2. CASE layout.nToStore = 0
    <3>1. mData = << >>
      BY <2>2 DEF IInv, Shape, Finished
    <3>2. QED
      BY <2>1, <3>1
  <2>3. CASE layout.nToStore # 0
    <3>1. Allocated
      BY <2>3 DEF Allocated, IInv, Control, LayoutShape, Finished
    <3>2. DOMAIN mData = Columns /\ \A j \in Columns : Len(mData[j]) = nRows
      BY <3>1 DEF IInv, Shape, Capacity
    <3>3. QED
      BY <2>1, <3>2
  <2>4. QED
    BY <2>2, <2>3
<1>3. QED
  BY <1>1, <1>2, PTL

-----------------------------------------------------------------------------
(* The cells are the last words of their sensors *)

\* The sensors written out have columns of their own: what setUpForData gives
\* a list that names no sensor twice (SensorsMap.C:90-113).
OwnIn(l) ==
    \A k \in DOMAIN l.sensors : l.sensors[k].keep =>
        /\ l.sensors[k].index \in 0 .. l.nToStore - 1
        /\ \A m \in DOMAIN l.sensors :
              l.sensors[m].keep /\ m # k => l.sensors[m].index # l.sensors[k].index
DistinctColumns == \A l \in Layouts : OwnIn(l)

Running == pc \in {"tag", "scan", "bits", "sensors"}

\* What the cycle being decoded has said so far.
SaidNow(k) == pc = "sensors" /\ k < i /\ cycle[k].code \in {1, 2}
FreshNow(k) == pc = "sensors" /\ k < i /\ cycle[k].code = 2
LastNow(k) == IF FreshNow(k) THEN cycle[k].value ELSE LastFresh(k, Len(log))

\* The cycles that go into one row with cycle c, and those that go into the
\* row being filled: none after the last cycle kept.
Since(c) == {d \in 1 .. c : \A e \in d .. c - 1 : ~Kept(e)}
Open == {d \in Cycles : \A e \in d .. Len(log) : ~Kept(e)}

\* The last word of sensor k in a set of cycles.
Word(k, S, v) ==
    \/ (\A c \in S : ~Sampled(k, c)) /\ v = NaN
    \/ \E c \in S : Sampled(k, c) /\ (\A d \in S : d > c => ~Sampled(k, d)) /\ v = Says(k, c)

Column(k) == layout.sensors[k].index
Unwritten(j) == \A k \in Written : Column(k) # j

\* The row being filled; a column that has no room for it yet will have NaN there.
Filled(j) == IF nRows < Len(mData[j]) THEN mData[j][nRows + 1] ELSE NaN

WholeCycles == \A c \in Cycles : Len(log[c]) = nSensors

\* prevValue is the last fresh reading of the sensor whose column it is.
Previous == Running => \A k \in Written : prevValue[Column(k)] = LastNow(k)

\* Behind the row being filled the columns are blank.
Blank == Running => \A j \in Columns : \A r \in nRows + 2 .. Len(mData[j]) : mData[j][r] = NaN

Filling ==
    Running =>
        /\ \A k \in Written : IF SaidNow(k) THEN Filled(Column(k)) = Clean(LastNow(k))
                              ELSE Word(k, Open, Filled(Column(k)))
        /\ \A j \in Columns : Unwritten(j) => Filled(j) = NaN

\* Row r was made of the cycles since the row before, and cycle c ended it.
RowOf(r, c) == Kept(c) /\ Cardinality(KeptUpTo(c)) = r
Committed ==
    \A r \in 1 .. nRows : \E c \in Cycles :
        /\ RowOf(r, c)
        /\ \A k \in Written : Word(k, Since(c), mData[Column(k)][r])
        /\ \A j \in Columns : Unwritten(j) => mData[j][r] = NaN

Unread == pc = "start" => log = << >>

CellInv == Unread /\ OwnIn(layout) /\ WholeCycles /\ Previous /\ Blank /\ Filling /\ Committed

\* The freshest reading of a sensor in the first c cycles of a log.
Freshest(l, k, c) ==
    LET fresh == {d \in 1 .. c : l[d][k].code = 2}
    IN  IF fresh = {} THEN NaN
        ELSE l[CHOOSE d \in fresh : \A e \in fresh : e <= d][k].value

NoneFresh(l, k, c) == \A d \in 1 .. c : l[d][k].code # 2
FreshLast(l, k, c, d) ==
    d \in 1 .. c /\ l[d][k].code = 2 /\ \A e \in 1 .. c : e > d => l[e][k].code # 2

\* What it is: nothing if no cycle was fresh, else the reading of the last one.
LEMMA FreshestIs ==
    ASSUME NEW l, NEW k, NEW c \in Nat
    PROVE  /\ NoneFresh(l, k, c) => Freshest(l, k, c) = NaN
           /\ \A d : FreshLast(l, k, c, d) => Freshest(l, k, c) = l[d][k].value
<1> DEFINE fresh == {d \in 1 .. c : l[d][k].code = 2}
           last == CHOOSE d \in fresh : \A e \in fresh : e <= d
<1> USE DEF NoneFresh, FreshLast
<1>1. Freshest(l, k, c) = IF fresh = {} THEN NaN ELSE l[last][k].value
  BY DEF Freshest
<1>2. ASSUME NEW d, FreshLast(l, k, c, d) PROVE last = d
  <2>1. d \in fresh /\ \A e \in fresh : e <= d
    BY <1>2
  <2>2. last \in fresh /\ \A e \in fresh : e <= last
    BY <2>1
  <2>3. d <= last /\ last <= d /\ last \in Nat /\ d \in Nat
    BY <2>1, <2>2
  <2> HIDE DEF last
  <2>4. QED
    BY <2>3
<1>3. \A d \in 1 .. c : l[d][k].code = 2 => fresh # {}
  OBVIOUS
<1> HIDE DEF last
<1>4. QED
  BY <1>1, <1>2, <1>3

\* One or the other is the case.
LEMMA FreshestExists ==
    ASSUME NEW l, NEW k, NEW c \in Nat
    PROVE  NoneFresh(l, k, c) \/ \E d \in 1 .. c : FreshLast(l, k, c, d)
<1> DEFINE fresh == {d \in 1 .. c : l[d][k].code = 2}
<1>1. CASE fresh = {}
  BY <1>1 DEF NoneFresh
<1>2. CASE fresh # {}
  <2>1. PICK d \in fresh : \A e \in fresh : e <= d
    <3>1. fresh \in SUBSET Nat /\ \A e \in fresh : e <= c
      OBVIOUS
    <3> HIDE DEF fresh
    <3>2. QED
      BY <1>2, <3>1, GreatestNatural
  <2>2. QED
    BY <2>1 DEF FreshLast
<1>3. QED
  BY <1>1, <1>2

\* The freshest reading depends on the cycles looked at alone.
LEMMA FreshestSame ==
    ASSUME NEW l, NEW m, NEW k, NEW c \in Nat, \A d \in 1 .. c : l[d] = m[d]
    PROVE  Freshest(l, k, c) = Freshest(m, k, c)
<1>1. CASE NoneFresh(l, k, c)
  <2>1. NoneFresh(m, k, c)
    BY <1>1 DEF NoneFresh
  <2>2. QED
    BY <1>1, <2>1, FreshestIs
<1>2. ASSUME NEW d \in 1 .. c, FreshLast(l, k, c, d)
      PROVE  Freshest(l, k, c) = Freshest(m, k, c)
  <2>1. FreshLast(m, k, c, d) /\ l[d] = m[d]
    BY <1>2 DEF FreshLast
  <2>2. QED
    BY <1>2, <2>1, FreshestIs
<1>3. QED
  BY <1>1, <1>2, FreshestExists

\* One cycle more: its own reading if it has a fresh one, the one before if not.
LEMMA FreshestNext ==
    ASSUME NEW l, NEW k, NEW c \in Nat
    PROVE  Freshest(l, k, c + 1) =
              IF l[c + 1][k].code = 2 THEN l[c + 1][k].value ELSE Freshest(l, k, c)
<1>1. PICK b \in Nat : b = c + 1
  OBVIOUS
<1>2. b \in 1 .. b /\ \A d \in 1 .. b : d \in 1 .. c \/ d = b
  BY <1>1
<1>3. \A d \in 1 .. c : d \in 1 .. b
  BY <1>1
<1>4. ASSUME l[b][k].code = 2 PROVE Freshest(l, k, b) = l[b][k].value
  <2>1. FreshLast(l, k, b, b)
    BY <1>2, <1>4 DEF FreshLast
  <2>2. QED
    BY <2>1, FreshestIs
<1>5. ASSUME l[b][k].code # 2 PROVE Freshest(l, k, b) = Freshest(l, k, c)
  <2>1. CASE NoneFresh(l, k, c)
    <3>1. NoneFresh(l, k, b)
      BY <1>2, <1>5, <2>1 DEF NoneFresh
    <3>2. QED
      BY <2>1, <3>1, FreshestIs
  <2>2. ASSUME NEW d \in 1 .. c, FreshLast(l, k, c, d)
        PROVE  Freshest(l, k, b) = Freshest(l, k, c)
    <3>1. FreshLast(l, k, b, d)
      BY <1>2, <1>3, <1>5, <2>2 DEF FreshLast
    <3>2. QED
      BY <2>2, <3>1, FreshestIs
  <2>3. QED
    BY <2>1, <2>2, FreshestExists
<1>6. QED
  BY <1>1, <1>4, <1>5

\* The reading the log gives for a sensor is the freshest of the log.
LEMMA LastFreshIs ==
    \A k, c : /\ LastFresh(k, c) = Freshest(log, k, c)
              /\ LastFresh(k, c)' = Freshest(log', k, c)
BY DEF LastFresh, Freshest

\* The cycles kept: how many, up to one and up to another.
LEMMA KeptCount ==
    ASSUME NEW c \in Nat, NEW d \in Nat, c <= d
    PROVE  /\ Cardinality(KeptUpTo(c)) \in Nat /\ Cardinality(KeptUpTo(d)) \in Nat
           /\ (\A e \in c + 1 .. d : ~Kept(e)) => Cardinality(KeptUpTo(c)) = Cardinality(KeptUpTo(d))
           /\ (\E e \in c + 1 .. d : Kept(e)) => Cardinality(KeptUpTo(c)) < Cardinality(KeptUpTo(d))
<1>1. \A b \in Nat : IsFiniteSet(KeptUpTo(b)) /\ Cardinality(KeptUpTo(b)) \in Nat
  <2>1. TAKE b \in Nat
  <2>2. IsFiniteSet(1 .. b) /\ KeptUpTo(b) \subseteq 1 .. b
    BY FS_Interval DEF KeptUpTo
  <2>3. QED
    BY <2>2, FS_Subset, FS_CardinalityType
<1>2. ASSUME \A e \in c + 1 .. d : ~Kept(e) PROVE KeptUpTo(c) = KeptUpTo(d)
  <2>1. \A e \in 1 .. d : e \in 1 .. c \/ e \in c + 1 .. d
    OBVIOUS
  <2>2. \A e \in 1 .. c : e \in 1 .. d
    OBVIOUS
  <2>3. QED
    BY <1>2, <2>1, <2>2 DEF KeptUpTo
<1>3. ASSUME NEW e \in c + 1 .. d, Kept(e)
      PROVE  Cardinality(KeptUpTo(c)) < Cardinality(KeptUpTo(d))
  <2>1. e \notin KeptUpTo(c) /\ KeptUpTo(c) \cup {e} \subseteq KeptUpTo(d)
    BY <1>3 DEF KeptUpTo
  <2>2. Cardinality(KeptUpTo(c) \cup {e}) = Cardinality(KeptUpTo(c)) + 1
    BY <1>1, <2>1, FS_AddElement
  <2>3. Cardinality(KeptUpTo(c) \cup {e}) <= Cardinality(KeptUpTo(d))
    BY <1>1, <2>1, FS_Subset
  <2>4. QED
    BY <1>1, <2>2, <2>3
<1>4. QED
  BY <1>1, <1>2, <1>3

\* What a step that reads no cycle to its end leaves alone.
LEMMA SameLog ==
    ASSUME UNCHANGED <<layout, log>>
    PROVE  /\ Written' = Written /\ Cycles' = Cycles /\ Columns' = Columns /\ nSensors' = nSensors
           /\ \A k : Column(k)' = Column(k)
           /\ \A k, c : LastFresh(k, c)' = LastFresh(k, c)
           /\ \A k, S, v : Word(k, S, v)' <=> Word(k, S, v)
           /\ \A c : Since(c)' = Since(c) /\ \A r : RowOf(r, c)' <=> RowOf(r, c)
           /\ Open' = Open
           /\ \A j : Unwritten(j)' <=> Unwritten(j)
           /\ OwnIn(layout)' <=> OwnIn(layout)
           /\ WholeCycles' <=> WholeCycles
<1>1. Written' = Written /\ Cycles' = Cycles /\ Columns' = Columns /\ nSensors' = nSensors
      /\ \A k : Column(k)' = Column(k)
  BY DEF Written, Cycles, Columns, nSensors, Column
<1>2. \A k, c : LastFresh(k, c)' = LastFresh(k, c) /\ (Sampled(k, c)' <=> Sampled(k, c))
  BY DEF LastFresh, Sampled
<1>3. \A k, c : Says(k, c)' = Says(k, c)
  BY <1>2 DEF Says, Clean
<1>4. \A c : Kept(c)' <=> Kept(c)
  BY DEF Kept, Sampled
<1>5. \A c : KeptUpTo(c)' = KeptUpTo(c)
  BY <1>4 DEF KeptUpTo
<1>6. \A k, S, v : Word(k, S, v)' <=> Word(k, S, v)
  BY <1>2, <1>3 DEF Word
<1>7. \A c : Since(c)' = Since(c) /\ \A r : RowOf(r, c)' <=> RowOf(r, c)
  BY <1>4, <1>5 DEF Since, RowOf
<1>8. Open' = Open
  BY <1>1, <1>4 DEF Open
<1>9. \A j : Unwritten(j)' <=> Unwritten(j)
  BY <1>1 DEF Unwritten
<1>10. (OwnIn(layout)' <=> OwnIn(layout)) /\ (WholeCycles' <=> WholeCycles)
  BY <1>1 DEF OwnIn, WholeCycles
<1>11. QED
  BY <1>1, <1>2, <1>6, <1>7, <1>8, <1>9, <1>10

\* The sensors written have columns of this file.
LEMMA OwnColumns ==
    ASSUME IInv, CellInv
    PROVE  /\ \A k \in Written : Column(k) \in Columns
           /\ \A k, m \in Written : k # m => Column(k) # Column(m)
           /\ Written \subseteq 1 .. nSensors /\ nSensors \in Nat
<1>1. layout \in LayoutShape
  BY DEF IInv, Control
<1>2. \A k \in Written : k \in DOMAIN layout.sensors /\ layout.sensors[k].keep
  BY DEF Written
<1>3. \A k \in Written : Column(k) \in Columns
  BY <1>2 DEF CellInv, OwnIn, Column, Columns
<1>4. \A k, m \in Written : k # m => Column(k) # Column(m)
  BY <1>2 DEF CellInv, OwnIn, Column
<1>5. nSensors \in Nat /\ DOMAIN layout.sensors = 1 .. nSensors
  BY <1>1 DEF LayoutShape, nSensors
<1>6. QED
  BY <1>2, <1>3, <1>4, <1>5

\* Committed rows, when no cycle ends.
LEMMA RowsStayCommitted ==
    ASSUME IInv, CellInv, UNCHANGED <<layout, log, nRows>>,
           \A j \in DOMAIN mData : \A r \in 1 .. nRows : mData'[j][r] = mData[j][r]
    PROVE  OwnIn(layout)' /\ WholeCycles' /\ Committed'
<1>1. CASE nRows = 0
  BY <1>1, SameLog DEF CellInv, Committed
<1>2. CASE nRows # 0
  <2>1. ASSUME NEW j \in Columns, NEW r \in 1 .. nRows PROVE mData'[j][r] = mData[j][r]
    <3>1. layout.nToStore > 0
      BY DEF Columns, IInv, Control, LayoutShape
    <3>2. Allocated
      BY <1>2, <3>1 DEF Allocated, IInv, Shape
    <3>3. QED
      BY <3>2 DEF IInv, Shape
  <2> SUFFICES ASSUME NEW r \in 1 .. nRows
               PROVE  (\E c \in Cycles :
                         /\ RowOf(r, c)
                         /\ \A k \in Written : Word(k, Since(c), mData[Column(k)][r])
                         /\ \A j \in Columns : Unwritten(j) => mData[j][r] = NaN)'
    BY SameLog DEF CellInv, Committed
  <2>2. PICK c \in Cycles :
          /\ RowOf(r, c)
          /\ \A k \in Written : Word(k, Since(c), mData[Column(k)][r])
          /\ \A j \in Columns : Unwritten(j) => mData[j][r] = NaN
    BY DEF CellInv, Committed
  <2>3. c \in Cycles' /\ RowOf(r, c)'
    BY <2>2, SameLog
  <2>4. \A j \in Columns' : Unwritten(j)' => mData'[j][r] = NaN
    BY <2>1, <2>2, SameLog
  <2>5. ASSUME NEW k \in Written PROVE Word(k, Since(c), mData[Column(k)][r])'
    <3>1. PICK v : v = mData[Column(k)][r]
      OBVIOUS
    <3>2. mData'[Column(k)'][r] = v
      BY <2>1, <3>1, OwnColumns, SameLog
    <3>3. PICK S : S = Since(c)
      OBVIOUS
    <3>4. Word(k, S, v)' /\ Since(c)' = S
      BY <2>2, <3>1, <3>3, SameLog
    <3>5. QED
      BY <3>2, <3>4 DEF Word
  <2>6. QED
    BY <2>3, <2>4, <2>5, SameLog
<1>3. QED
  BY <1>1, <1>2

\* The ways out keep the committed rows.
LEMMA CellExits ==
    ASSUME IInv, CellInv, [Next]_vars, UNCHANGED <<layout, log, nRows>>, ~Running', pc' # "start"
    PROVE  CellInv'
<1>1. OwnIn(layout)' /\ WholeCycles' /\ Committed'
  BY RowsKept, RowsStayCommitted
<1>2. QED
  BY <1>1 DEF CellInv, Unread, Previous, Blank, Filling, Running

\* A step that says nothing of any sensor: the tags, the repair scan, a stutter.
LEMMA CellQuiet ==
    ASSUME IInv, CellInv, UNCHANGED <<layout, log, nRows, mData, prevValue>>,
           Running' <=> Running, pc' = "start" => pc = "start",
           pc = "sensors" \/ pc' = "sensors" => UNCHANGED <<pc, i, cycle>>
    PROVE  CellInv'
<1>1. OwnIn(layout)' /\ WholeCycles' /\ Committed'
  BY RowsStayCommitted
<1>2. \A k : (SaidNow(k)' <=> SaidNow(k)) /\ LastNow(k)' = LastNow(k)
  BY SameLog DEF SaidNow, LastNow, FreshNow
<1>3. \A j : Filled(j)' = Filled(j)
  BY DEF Filled
<1>4. Previous'
  BY <1>2, SameLog DEF CellInv, Previous
<1>5. Blank'
  BY SameLog DEF CellInv, Blank
<1>6. Filling'
  <2> SUFFICES ASSUME Running
               PROVE  /\ \A k \in Written : IF SaidNow(k)' THEN Filled(Column(k))' = Clean(LastNow(k))'
                                           ELSE Word(k, Open, Filled(Column(k)))'
                      /\ \A j \in Columns : Unwritten(j) => Filled(j)' = NaN
    BY SameLog DEF Filling
  <2>1. \A j \in Columns : Unwritten(j) => Filled(j)' = NaN
    BY <1>3 DEF CellInv, Filling
  <2>2. ASSUME NEW k \in Written
        PROVE  IF SaidNow(k)' THEN Filled(Column(k))' = Clean(LastNow(k))'
               ELSE Word(k, Open, Filled(Column(k)))'
    <3>1. PICK j : j = Column(k)
      OBVIOUS
    <3>2. PICK v : v = Filled(j)
      OBVIOUS
    <3>3. PICK S : S = Open
      OBVIOUS
    <3>4. IF SaidNow(k) THEN v = Clean(LastNow(k)) ELSE Word(k, S, v)
      BY <3>1, <3>2, <3>3 DEF CellInv, Filling
    <3>5. Column(k)' = j /\ Filled(j)' = v /\ Open' = S
      BY <1>3, <3>1, <3>2, <3>3, SameLog
    <3>6. Filled(Column(k))' = v
      BY <3>5 DEF Filled
    <3>7. ASSUME SaidNow(k) PROVE Filled(Column(k))' = Clean(LastNow(k))'
      BY <1>2, <3>4, <3>6, <3>7 DEF Clean
    <3>8. ASSUME ~SaidNow(k) PROVE Word(k, Open, Filled(Column(k)))'
      <4>1. Word(k, S, v)'
        BY <3>4, <3>8, SameLog
      <4>2. QED
        BY <3>5, <3>6, <4>1 DEF Word
    <3>9. QED
      BY <1>2, <3>7, <3>8
  <2>3. QED
    BY <2>1, <2>2
<1>7. QED
  BY <1>1, <1>4, <1>5, <1>6 DEF CellInv, Unread

\* With no cycle read, everything is blank.
LEMMA CellAllocate ==
    ASSUME IInv, CellInv, [Next]_vars, Allocate
    PROVE  CellInv'
<1>1. /\ UNCHANGED <<layout, log, nRows>> /\ log = << >> /\ nRows = 0 /\ pc' = "tag"
      /\ layout' = layout
  BY DEF Allocate, args, stream, CellInv, Unread, IInv, Shape
<1>2. OwnIn(layout)' /\ WholeCycles' /\ Committed'
  BY <1>1, SameLog DEF CellInv, Committed
<1>3. \A j \in Columns : \A r \in DOMAIN mData'[j] : mData'[j][r] = NaN
  BY DEF Allocate
<1> DEFINE d == (2 * nBytes) \div (HeaderBytes(nSensors) + 1) + 1
<1>4. d \in Nat /\ d > 0
  BY FirstCapacity
<1>5. \A j \in Columns : Len(mData'[j]) = d /\ DOMAIN mData'[j] = 1 .. d
  <2>1. mData' = [j \in Columns |-> [r \in 1 .. d |-> NaN]]
    BY DEF Allocate
  <2> HIDE DEF d
  <2>2. Len([r \in 1 .. d |-> NaN]) = d /\ DOMAIN [r \in 1 .. d |-> NaN] = 1 .. d
    BY <1>4
  <2>3. QED
    BY <2>1, <2>2
<1> HIDE DEF d
<1>6. \A j \in Columns : Filled(j)' = NaN
  BY <1>1, <1>3, <1>4, <1>5 DEF Filled
<1>7. Blank'
  BY <1>1, <1>3, <1>4, <1>5, SameLog DEF Blank
<1>8. \A k : ~SaidNow(k)' /\ ~FreshNow(k)'
  BY <1>1 DEF SaidNow, FreshNow
<1>9. Previous'
  <2>1. \A k : LastFresh(k, Len(log)) = NaN
    <3>1. \A k : NoneFresh(log, k, 0)
      BY DEF NoneFresh
    <3>2. Len(log) = 0
      BY <1>1
    <3>3. QED
      BY <3>1, <3>2, FreshestIs, LastFreshIs
  <2>2. \A k : LastNow(k)' = NaN
    BY <1>1, <1>8, <2>1, SameLog DEF LastNow
  <2>3. \A k \in Written : prevValue'[Column(k)] = NaN
    BY OwnColumns DEF Allocate
  <2>4. \A k \in Written' : Column(k)' = Column(k) /\ k \in Written
    BY <1>1, SameLog
  <2>5. QED
    BY <2>2, <2>3, <2>4 DEF Previous
<1>10. Filling'
  <2>1. Open' = {}
    BY <1>1, SameLog DEF Open, Cycles
  <2>2. ASSUME NEW k \in Written PROVE Filled(Column(k))' = NaN
    <3>1. PICK j \in Columns : j = Column(k)
      BY OwnColumns
    <3>2. Column(k)' = j /\ Filled(j)' = NaN
      BY <1>1, <1>6, <3>1, SameLog
    <3>3. QED
      BY <3>2 DEF Filled
  <2>3. \A k \in Written : Word(k, Open, Filled(Column(k)))'
    BY <2>1, <2>2 DEF Word
  <2>4. \A j \in Columns' : Filled(j)' = NaN
    BY <1>1, <1>6, SameLog
  <2>5. \A k : ~SaidNow(k)'
    BY <1>8
  <2>6. \A k \in Written' : ~SaidNow(k)' /\ Word(k, Open, Filled(Column(k)))'
    BY <1>1, <2>3, <2>5, SameLog
  <2>7. QED
    BY <2>4, <2>6 DEF Filling
<1>11. QED
  BY <1>1, <1>2, <1>7, <1>9, <1>10 DEF CellInv, Unread

\* Growing fills with blanks.
LEMMA CellReadBits ==
    ASSUME IInv, CellInv, [Next]_vars, ReadBits
    PROVE  CellInv'
<1>1. /\ UNCHANGED <<layout, log, nRows, prevValue>> /\ pc = "bits" /\ pc' = "sensors" /\ i' = 1
  BY DEF ReadBits, args
<1>2. OwnIn(layout)' /\ WholeCycles' /\ Committed'
  BY <1>1, RowsKept, RowsStayCommitted
<1>3. Running /\ Allocated /\ mData \in [Columns -> Seq(Reading)] /\ nRows \in Nat
  BY <1>1 DEF Running, IInv, Shape, Allocated, Control
<1>4. ASSUME NEW j \in Columns
      PROVE  \A r \in nRows + 1 .. Len(mData'[j]) :
                mData'[j][r] = IF r <= Len(mData[j]) THEN mData[j][r] ELSE NaN
  <2>1. CASE MustGrow(mData[0])
    <3> DEFINE size == Grown(Len(mData[0]))
    <3>1. size \in Nat
      <4>1. 0 \in Columns
        BY <1>3, ColumnZero DEF Allocated, IInv, Control
      <4>2. Len(mData[0]) \in Nat
        BY <1>3, <4>1
      <4>3. \A n \in Nat : Grown(n) \in Nat
        BY DEF Grown
      <4>4. QED
        BY <4>2, <4>3
    <3>2. mData' = ResizeAll(size)
      BY <2>1 DEF ReadBits
    <3> HIDE DEF size
    <3>3. mData'[j] = Resize(mData[j], size)
      BY <3>2 DEF ResizeAll
    <3>4. Len(mData'[j]) = size
      BY <1>3, <3>1, <3>3, ResizeFacts
    <3>5. \A r \in nRows + 1 .. size : r \in 1 .. size
      BY <1>3
    <3>6. QED
      BY <3>3, <3>4, <3>5 DEF Resize
  <2>2. CASE ~MustGrow(mData[0])
    BY <1>3, <2>2 DEF ReadBits
  <2>3. QED
    BY <2>1, <2>2
<1>5. \A j \in Columns : nRows < Len(mData'[j]) /\ Len(mData'[j]) \in Nat /\ Len(mData[j]) \in Nat
  BY <1>1, <1>3, GrowthFacts
<1>6. \A j \in Columns : Filled(j)' = Filled(j)
  <2>1. TAKE j \in Columns
  <2>2. nRows + 1 \in nRows + 1 .. Len(mData'[j])
    BY <1>3, <1>5
  <2>3. mData'[j][nRows + 1] = IF nRows + 1 <= Len(mData[j]) THEN mData[j][nRows + 1] ELSE NaN
    BY <1>4, <2>2
  <2>4. nRows + 1 <= Len(mData[j]) <=> nRows < Len(mData[j])
    BY <1>3, <1>5
  <2>5. QED
    BY <1>1, <1>5, <2>3, <2>4 DEF Filled
<1>7. Blank'
  <2> SUFFICES ASSUME NEW j \in Columns, NEW r \in nRows + 2 .. Len(mData'[j])
               PROVE  mData'[j][r] = NaN
    BY <1>1, SameLog DEF Blank
  <2>1. r \in nRows + 1 .. Len(mData'[j])
    BY <1>3, <1>5
  <2>2. r <= Len(mData[j]) => r \in nRows + 2 .. Len(mData[j])
    BY <1>3, <1>5
  <2>3. r <= Len(mData[j]) => mData[j][r] = NaN
    BY <1>3, <2>2 DEF CellInv, Blank
  <2>4. QED
    BY <1>4, <2>1, <2>3
<1>8. \A k \in Written : ~SaidNow(k) /\ ~SaidNow(k)' /\ LastNow(k)' = LastNow(k)
  <2>1. \A k \in Written : ~(k < 1)
    BY OwnColumns
  <2>2. QED
    BY <1>1, <2>1, SameLog DEF SaidNow, LastNow, FreshNow
<1>9. Previous'
  BY <1>1, <1>3, <1>8, SameLog DEF CellInv, Previous
<1>10. Filling'
  <2>1. ASSUME NEW k \in Written PROVE Word(k, Open, Filled(Column(k)))'
    <3>1. PICK j \in Columns : j = Column(k)
      BY OwnColumns
    <3>2. PICK v : v = Filled(j)
      OBVIOUS
    <3>3. PICK S : S = Open
      OBVIOUS
    <3>4. Word(k, S, v)
      BY <1>3, <1>8, <3>1, <3>2, <3>3 DEF CellInv, Filling
    <3>5. Word(k, S, v)' /\ Open' = S /\ Column(k)' = j
      BY <1>1, <3>1, <3>3, <3>4, SameLog
    <3>6. Filled(j)' = v
      BY <1>6, <3>2
    <3>7. Filled(Column(k))' = v
      BY <3>5, <3>6 DEF Filled
    <3>8. QED
      BY <3>5, <3>7 DEF Word
  <2>2. \A j \in Columns : Unwritten(j) => Filled(j) = NaN
    BY <1>3 DEF CellInv, Filling
  <2>3. \A j \in Columns' : Unwritten(j)' => Filled(j)' = NaN
    BY <1>1, <1>6, <2>2, SameLog
  <2>4. QED
    BY <1>1, <1>8, <2>1, <2>3, SameLog DEF Filling
<1>11. QED
  BY <1>1, <1>2, <1>7, <1>9, <1>10 DEF CellInv, Unread

\* Storing a reading changes one cell.
LEMMA StoreCells ==
    ASSUME IInv, pc = "sensors", NEW col \in Columns, NEW v \in Reading, Store(col, v)
    PROVE  /\ mData'[col][nRows + 1] = v
           /\ \A j \in Columns : \A r \in 1 .. Len(mData[j]) :
                 j # col \/ r # nRows + 1 => mData'[j][r] = mData[j][r]
<1>1. Allocated /\ mData \in [Columns -> Seq(Reading)] /\ nRows \in Nat
  BY DEF IInv, Shape, Allocated, Control
<1>2. nRows + 1 \in 1 .. Len(mData[col])
  BY <1>1, ColumnZero DEF IInv, Capacity, Control
<1> DEFINE new == [mData[col] EXCEPT ![nRows + 1] = v]
<1>3. new[nRows + 1] = v /\ \A r \in 1 .. Len(mData[col]) : r # nRows + 1 => new[r] = mData[col][r]
  BY <1>1, <1>2
<1>4. mData' = [mData EXCEPT ![col] = new]
  BY DEF Store
<1> HIDE DEF new
<1>5. QED
  BY <1>1, <1>3, <1>4

\* What one sensor of a cycle does, by its state code.
Remember(col, v) == prevValue' = [prevValue EXCEPT ![col] = v]
Decoded(code, v) ==
    /\ Took(Sample(code, v))
    /\ i \in Written /\ code = 2 => Store(Column(i), Clean(v)) /\ Remember(Column(i), v)
    /\ i \in Written /\ code = 1 =>
          Store(Column(i), Clean(prevValue[Column(i)])) /\ UNCHANGED prevValue
    /\ i \notin Written \/ code = 0 => UNCHANGED <<mData, prevValue>>

\* Every sensor decoded is one of those cases.
LEMMA DecodeCases ==
    ASSUME IInv, DecodeSensor
    PROVE  \E code \in 0 .. 2, v \in Reading : Decoded(code, v)
<1> DEFINE s == layout.sensors[i]
<1>1. i \in Written <=> s.keep
  <2>1. i \in DOMAIN layout.sensors
    BY DEF IInv, Control, LayoutShape, nSensors, DecodeSensor
  <2>2. QED
    BY <2>1 DEF Written
<1>2. s.index = Column(i)
  BY DEF Column
<1>3. CASE NotSampled
  <2>1. Decoded(0, NaN)
    BY <1>3 DEF Decoded, NotSampled
  <2>2. 0 \in 0 .. 2 /\ NaN \in Reading
    BY DEF Reading
  <2>3. QED
    BY <2>1, <2>2
<1>4. CASE RepeatValue(s)
  <2> HIDE DEF s
  <2>1. Decoded(1, NaN)
    BY <1>1, <1>2, <1>4 DEF Decoded, RepeatValue
  <2>2. 1 \in 0 .. 2 /\ NaN \in Reading
    BY DEF Reading
  <2>3. QED
    BY <2>1, <2>2
<1>5. CASE NewValue(s)
  <2> HIDE DEF s
  <2>1. PICK v \in Readable(s.size) :
          /\ Took(Sample(2, v))
          /\ IF s.keep
             THEN /\ Store(s.index, Clean(v))
                  /\ prevValue' = [prevValue EXCEPT ![s.index] = v]
             ELSE UNCHANGED <<mData, prevValue>>
    BY <1>5 DEF NewValue
  <2>2. v \in Reading /\ 2 \in 0 .. 2
    BY DEF Readable, Reading
  <2>3. Decoded(2, v)
    BY <1>1, <1>2, <2>1 DEF Decoded, Remember
  <2>4. QED
    BY <2>2, <2>3
<1>6. QED
  BY <1>3, <1>4, <1>5 DEF DecodeSensor

\* The sample joins the cycle, and speaks for its own sensor only.
LEMMA DecodeSays ==
    ASSUME IInv, Count, DecodeSensor, NEW code \in 0 .. 2, NEW v \in Reading,
           Took(Sample(code, v)), NEW n \in 1 .. nSensors, n = i
    PROVE  /\ \A k \in 1 .. nSensors : k # n =>
                 (SaidNow(k)' <=> SaidNow(k)) /\ LastNow(k)' = LastNow(k)
           /\ ~SaidNow(n)
           /\ SaidNow(n)' <=> code \in {1, 2}
           /\ LastNow(n)' = IF code = 2 THEN v ELSE LastNow(n)
<1>1. /\ pc = "sensors" /\ pc' = "sensors" /\ UNCHANGED <<layout, log>>
      /\ cycle \in Seq([code: 0 .. 2, value: Reading]) /\ Len(cycle) = i - 1
      /\ nSensors \in Nat
  BY DEF DecodeSensor, args, IInv, Stream, Count, Control, LayoutShape, nSensors
<1>3. n \in Nat /\ i' = n + 1 /\ Len(cycle) = n - 1 /\ DOMAIN cycle = 1 .. n - 1
  BY <1>1 DEF DecodeSensor
<1>4. PICK new \in [code: 0 .. 2, value: Reading] : new = Sample(code, v)
  BY DEF Sample
<1>5. cycle' = Append(cycle, new)
  BY <1>4 DEF Took
<1>6. cycle'[n] = new /\ \A k \in 1 .. nSensors : k < n => cycle'[k] = cycle[k]
  <2>1. Len(cycle) + 1 = n /\ \A k \in 1 .. nSensors : k < n => k \in 1 .. Len(cycle)
    BY <1>3
  <2>2. \A k \in 1 .. Len(cycle) : cycle'[k] = cycle[k]
    BY <1>1, <1>5
  <2>3. cycle'[Len(cycle) + 1] = new
    BY <1>1, <1>5
  <2>4. QED
    BY <2>1, <2>2, <2>3
<1>7. new.code = code /\ new.value = v
  BY <1>4 DEF Sample
<1>8. \A k : LastFresh(k, Len(log))' = LastFresh(k, Len(log))
  BY <1>1 DEF LastFresh
<1>9. ASSUME NEW k \in 1 .. nSensors, k # n
      PROVE  (SaidNow(k)' <=> SaidNow(k)) /\ LastNow(k)' = LastNow(k)
  <2>1. k < n + 1 <=> k < n
    BY <1>3, <1>9
  <2>2. SaidNow(k)' <=> SaidNow(k)
    BY <1>1, <1>3, <1>6, <2>1 DEF SaidNow
  <2>3. FreshNow(k)' <=> FreshNow(k)
    BY <1>1, <1>3, <1>6, <2>1 DEF FreshNow
  <2>4. FreshNow(k) => cycle'[k] = cycle[k]
    BY <1>6 DEF FreshNow
  <2>5. QED
    BY <1>8, <2>2, <2>3, <2>4 DEF LastNow
<1>10. ~SaidNow(n) /\ ~FreshNow(n)
  BY <1>3 DEF SaidNow, FreshNow
<1>11. n < n + 1
  BY <1>3
<1>12. SaidNow(n)' <=> code \in {1, 2}
  BY <1>1, <1>3, <1>6, <1>7, <1>11 DEF SaidNow
<1>13. FreshNow(n)' <=> code = 2
  BY <1>1, <1>3, <1>6, <1>7, <1>11 DEF FreshNow
<1>14. LastNow(n)' = IF code = 2 THEN v ELSE LastNow(n)
  BY <1>6, <1>7, <1>8, <1>10, <1>13 DEF LastNow
<1>15. QED
  BY <1>9, <1>10, <1>12, <1>14, Zenon

\* One sensor decoded: its cell and its memory say what the cycle says of it,
\* and the other columns are left alone.
LEMMA DecodedCells ==
    ASSUME IInv, CellInv, Count, DecodeSensor,
           NEW code \in 0 .. 2, NEW v \in Reading, Decoded(code, v),
           NEW n \in 1 .. nSensors, n = i
    PROVE  /\ \A k \in Written : prevValue'[Column(k)] = LastNow(k)'
           /\ \A j \in Columns : (n \notin Written \/ code = 0 \/ j # Column(n)) =>
                 mData'[j] = mData[j] 
           /\ n \in Written /\ code # 0 =>
                 /\ mData'[Column(n)][nRows + 1] = Clean(LastNow(n)')
                 /\ \A r \in nRows + 2 .. Len(mData[Column(n)]) :
                       mData'[Column(n)][r] = mData[Column(n)][r]
<1>1. /\ pc = "sensors" /\ Running /\ Allocated /\ nRows \in Nat
      /\ mData \in [Columns -> Seq(Reading)] /\ prevValue \in [Columns -> Reading]
  BY DEF DecodeSensor, Running, Allocated, IInv, Shape, Control
<1>2. Took(Sample(code, v))
  BY DEF Decoded
<1>3. /\ \A k \in 1 .. nSensors : k # n => LastNow(k)' = LastNow(k)
      /\ LastNow(n)' = IF code = 2 THEN v ELSE LastNow(n)
  BY <1>2, DecodeSays
<1>4. \A k \in Written : prevValue[Column(k)] = LastNow(k)
  BY <1>1 DEF CellInv, Previous
<1>5. ASSUME n \in Written, code # 0
      PROVE  /\ Store(Column(n), Clean(LastNow(n)'))
             /\ IF code = 2 THEN Remember(Column(n), v) ELSE UNCHANGED prevValue
  <2>1. CASE code = 2
    BY <1>3, <1>5, <2>1 DEF Decoded
  <2>2. CASE code = 1
    BY <1>3, <1>4, <1>5, <2>2 DEF Decoded
  <2>3. QED
    BY <1>5, <2>1, <2>2
<1>6. ASSUME n \notin Written \/ code = 0
      PROVE  mData' = mData /\ prevValue' = prevValue
  BY <1>6 DEF Decoded
<1>7. ASSUME NEW k \in Written PROVE prevValue'[Column(k)] = LastNow(k)'
  <2>1. Column(k) \in Columns /\ k \in 1 .. nSensors
    BY OwnColumns
  <2>2. CASE k = n /\ code = 2
    <3>1. Remember(Column(k), v)
      BY <1>5, <1>7, <2>2
    <3>2. prevValue'[Column(k)] = v
      BY <1>1, <2>1, <3>1 DEF Remember
    <3>3. QED
      BY <1>3, <2>2, <3>2
  <2>3. CASE ~(k = n /\ code = 2)
    <3>1. prevValue'[Column(k)] = prevValue[Column(k)]
      <4>1. CASE n \in Written /\ code = 2
        <5>1. Column(k) # Column(n) /\ Remember(Column(n), v)
          BY <1>5, <2>3, <4>1, OwnColumns
        <5>2. QED
          BY <1>1, <2>1, <5>1 DEF Remember
      <4>2. CASE ~(n \in Written /\ code = 2)
        BY <1>5, <1>6, <4>2
      <4>3. QED
        BY <4>1, <4>2
    <3>2. LastNow(k)' = LastNow(k)
      BY <1>3, <2>1, <2>3
    <3>3. QED
      BY <1>4, <3>1, <3>2
  <2>4. QED
    BY <2>2, <2>3
<1>8. ASSUME n \in Written, code # 0
      PROVE  /\ mData'[Column(n)][nRows + 1] = Clean(LastNow(n)')
             /\ \A r \in nRows + 2 .. Len(mData[Column(n)]) :
                   mData'[Column(n)][r] = mData[Column(n)][r]
             /\ \A j \in Columns : j # Column(n) => mData'[j] = mData[j]
  <2>1. PICK col \in Columns : col = Column(n)
    BY <1>8, OwnColumns
  <2>2. LastNow(n)' \in Reading
    <3>1. LastNow(n) \in Reading
      BY <1>1, <1>4, <1>8, <2>1
    <3>2. QED
      BY <1>3, <3>1
  <2>3. PICK w \in Reading : w = Clean(LastNow(n)')
    BY <2>2, CleanReading
  <2>4. Store(col, w)
    BY <1>5, <1>8, <2>1, <2>3
  <2>5. /\ mData'[col][nRows + 1] = w
        /\ \A r \in 1 .. Len(mData[col]) : r # nRows + 1 => mData'[col][r] = mData[col][r]
    BY <1>1, <2>4, StoreCells
  <2>6. \A j \in Columns : j # col => mData'[j] = mData[j]
    BY <1>1, <2>4 DEF Store
  <2>7. \A r \in nRows + 2 .. Len(mData[col]) : r \in 1 .. Len(mData[col]) /\ r # nRows + 1
    BY <1>1
  <2>8. QED
    BY <2>1, <2>3, <2>5, <2>6, <2>7
<1>9. QED
  BY <1>6, <1>7, <1>8

\* One sensor decoded: only its own cell of the row being filled changes.
LEMMA CellDecode ==
    ASSUME IInv, CellInv, Count, [Next]_vars, DecodeSensor
    PROVE  CellInv'
<1>1. /\ UNCHANGED <<layout, log, nRows>> /\ pc = "sensors" /\ pc' = "sensors" /\ Running /\ Running'
      /\ Columns' = Columns /\ nRows \in Nat /\ mData \in [Columns -> Seq(Reading)]
  BY DEF DecodeSensor, args, Running, Columns, IInv, Control, Shape, Allocated
<1>2. OwnIn(layout)' /\ WholeCycles' /\ Committed'
  BY <1>1, RowsKept, RowsStayCommitted
<1>3. PICK n \in 1 .. nSensors : n = i
  BY <1>1 DEF DecodeSensor, IInv, Control
<1>4. PICK code \in 0 .. 2, v \in Reading : Decoded(code, v)
  BY DecodeCases
<1>5. /\ \A k \in Written : prevValue'[Column(k)] = LastNow(k)'
      /\ \A j \in Columns : (n \notin Written \/ code = 0 \/ j # Column(n)) =>
            mData'[j] = mData[j] 
      /\ n \in Written /\ code # 0 =>
            /\ mData'[Column(n)][nRows + 1] = Clean(LastNow(n)')
            /\ \A r \in nRows + 2 .. Len(mData[Column(n)]) :
                  mData'[Column(n)][r] = mData[Column(n)][r]
  BY <1>3, <1>4, DecodedCells
<1>6. /\ \A k \in 1 .. nSensors : k # n =>
            (SaidNow(k)' <=> SaidNow(k)) /\ LastNow(k)' = LastNow(k)
      /\ ~SaidNow(n)
      /\ SaidNow(n)' <=> code \in {1, 2}
      /\ LastNow(n)' = IF code = 2 THEN v ELSE LastNow(n)
  BY <1>3, <1>4, DecodeSays DEF Decoded
<1>7. \A j \in Columns : Len(mData'[j]) = Len(mData[j]) /\ Len(mData[j]) \in Nat
  BY <1>1, SensorFacts
<1>8. \A j \in Columns : nRows < Len(mData[j])
  BY <1>1, ColumnZero DEF IInv, Control, Shape, Capacity, Allocated
<1>9. Previous'
  BY <1>1, <1>5, SameLog DEF Previous
<1>10. Blank'
  <2> SUFFICES ASSUME NEW j \in Columns, NEW r \in nRows + 2 .. Len(mData[j])
               PROVE  mData'[j][r] = NaN
    BY <1>1, <1>7 DEF Blank
  <2>1. mData[j][r] = NaN
    BY <1>1 DEF CellInv, Blank
  <2>2. mData'[j][r] = mData[j][r]
    BY <1>5
  <2>3. QED
    BY <2>1, <2>2
<1>11. Filling'
  <2>1. ASSUME NEW k \in Written, NEW j \in Columns, j = Column(k), SaidNow(k)'
        PROVE  Filled(j)' = Clean(LastNow(k)')
    <3>1. k \in 1 .. nSensors
      BY <2>1, OwnColumns
    <3>2. CASE k = n
      <4>1. code # 0
        BY <1>6, <2>1, <3>2
      <4>2. mData'[j][nRows + 1] = Clean(LastNow(k)')
        BY <1>5, <2>1, <3>2, <4>1
      <4>3. QED
        BY <1>1, <1>7, <1>8, <4>2 DEF Filled
    <3>3. CASE k # n
      <4>1. SaidNow(k) /\ LastNow(k)' = LastNow(k)
        BY <1>6, <2>1, <3>1, <3>3
      <4>2. Filled(j) = Clean(LastNow(k))
        BY <1>1, <2>1, <4>1 DEF CellInv, Filling
      <4>3. mData'[j] = mData[j]
        BY <1>5, <2>1, <3>3, OwnColumns
      <4>4. Filled(j)' = Filled(j)
        BY <1>1, <4>3 DEF Filled
      <4>5. QED
        BY <4>1, <4>2, <4>4
    <3>4. QED
      BY <3>2, <3>3
  <2>2. ASSUME NEW k \in Written, NEW j \in Columns, j = Column(k), ~SaidNow(k)',
               NEW S, S = Open
        PROVE  Word(k, S, Filled(j))'
    <3>1. k \in 1 .. nSensors
      BY <2>2, OwnColumns
    <3>2. ~SaidNow(k) /\ (k # n \/ code = 0)
      BY <1>6, <2>2, <3>1
    <3>3. mData'[j] = mData[j]
      BY <1>5, <2>2, <3>2, OwnColumns
    <3>4. PICK w : w = Filled(j)
      OBVIOUS
    <3>5. Word(k, S, w)
      BY <1>1, <2>2, <3>2, <3>4 DEF CellInv, Filling
    <3>6. Word(k, S, w)'
      BY <1>1, <3>5, SameLog
    <3>7. Filled(j)' = w
      BY <1>1, <3>3, <3>4 DEF Filled
    <3>8. QED
      BY <3>6, <3>7 DEF Word
  <2>3. ASSUME NEW k \in Written
        PROVE  IF SaidNow(k)' THEN Filled(Column(k))' = Clean(LastNow(k))'
               ELSE Word(k, Open, Filled(Column(k)))'
    <3>1. PICK j \in Columns : j = Column(k)
      BY OwnColumns
    <3>2. PICK S : S = Open
      OBVIOUS
    <3>3. Column(k)' = j /\ Open' = S
      BY <1>1, <3>1, <3>2, SameLog
    <3>4. ASSUME SaidNow(k)' PROVE Filled(Column(k))' = Clean(LastNow(k))'
      <4>1. Filled(j)' = Clean(LastNow(k)')
        BY <2>1, <3>1, <3>4
      <4>2. Filled(Column(k))' = Filled(j)'
        BY <3>3 DEF Filled
      <4>3. Clean(LastNow(k))' = Clean(LastNow(k)')
        BY DEF Clean
      <4>4. QED
        BY <4>1, <4>2, <4>3
    <3>5. ASSUME ~SaidNow(k)' PROVE Word(k, Open, Filled(Column(k)))'
      <4>1. Word(k, S, Filled(j))'
        BY <2>2, <3>1, <3>2, <3>5
      <4>2. Filled(Column(k))' = Filled(j)'
        BY <3>3 DEF Filled
      <4>3. QED
        BY <3>3, <4>1, <4>2 DEF Word
    <3>6. QED
      BY <3>4, <3>5
  <2>4. ASSUME NEW j \in Columns, Unwritten(j) PROVE Filled(j)' = NaN
    <3>1. mData'[j] = mData[j]
      BY <1>5, <2>4 DEF Unwritten
    <3>2. Filled(j) = NaN
      BY <1>1, <2>4 DEF CellInv, Filling
    <3>3. QED
      BY <1>1, <3>1, <3>2 DEF Filled
  <2>5. \A j \in Columns' : Unwritten(j)' => Filled(j)' = NaN
    BY <1>1, <2>4, SameLog
  <2>6. \A k \in Written' : k \in Written
    BY <1>1, SameLog
  <2>7. QED
    BY <2>3, <2>5, <2>6 DEF Filling
<1>12. QED
  BY <1>1, <1>2, <1>9, <1>10, <1>11 DEF CellInv, Unread

\* A cycle that ends says what it said sensor by sensor, and leaves the cycles
\* before it as they were.
LEMMA CycleAppended ==
    ASSUME IInv, Count, EndCycle, NEW l \in Nat, l = Len(log), NEW b \in Nat, b = l + 1
    PROVE  /\ Cycles = 1 .. l /\ Cycles' = 1 .. b /\ Len(log') = b
           /\ \A c \in 1 .. l : log'[c] = log[c]
           /\ log'[b] = cycle /\ DOMAIN cycle = 1 .. nSensors /\ Len(cycle) = nSensors
           /\ i = nSensors + 1 /\ nSensors \in Nat
<1>1. /\ log \in Seq(Seq([code: 0 .. 2, value: Reading]))
      /\ cycle \in Seq([code: 0 .. 2, value: Reading])
      /\ log' = Append(log, cycle) /\ Len(cycle) = i - 1
      /\ i > nSensors /\ nSensors \in Nat /\ i \in 1 .. nSensors + 1
  BY DEF IInv, Control, Stream, Count, EndCycle, nSensors, LayoutShape
<1>2. Cycles = 1 .. l /\ Cycles' = 1 .. b /\ Len(log') = b
  BY <1>1 DEF Cycles
<1>3. (\A c \in 1 .. l : log'[c] = log[c]) /\ log'[b] = cycle
  BY <1>1
<1>4. i = nSensors + 1
  BY <1>1
<1>5. Len(cycle) = nSensors
  BY <1>1, <1>4
<1>6. QED
  BY <1>1, <1>2, <1>3, <1>4, <1>5

\* The cycle that ends is kept if a criteria sensor was sampled, and joins the
\* cycles of the row being filled.
LEMMA KeptAfter ==
    ASSUME IInv, Count, EndCycle, NEW l \in Nat, l = Len(log), NEW b \in Nat, b = l + 1
    PROVE  /\ \A c \in 1 .. l : Kept(c)' <=> Kept(c)
           /\ Kept(b)' <=> qKeep
           /\ \A c \in 1 .. l : Since(c)' = Since(c) /\ \A r : RowOf(r, c)' <=> RowOf(r, c)
           /\ Since(b)' = Open \cup {b}
           /\ Open' = IF qKeep THEN {} ELSE Open \cup {b}
<1>1. /\ Cycles = 1 .. l /\ Cycles' = 1 .. b /\ Len(log') = b
      /\ \A c \in 1 .. l : log'[c] = log[c]
      /\ log'[b] = cycle
  BY CycleAppended
<1>2. layout' = layout /\ (qKeep <=> MeetsCriteria(cycle)) /\ qKeep \in BOOLEAN
  BY DEF EndCycle, args, Count, IInv, Control
<1>3. \A c \in 1 .. l : Kept(c)' <=> Kept(c)
  BY <1>1, <1>2 DEF Kept, Sampled
<1>4. Kept(b)' <=> qKeep
  BY <1>1, <1>2 DEF Kept, Sampled, MeetsCriteria
<1>5. ASSUME NEW c \in 1 .. l
      PROVE  Since(c)' = Since(c) /\ \A r : RowOf(r, c)' <=> RowOf(r, c)
  <2>1. \A d \in 1 .. c : d \in 1 .. l
    OBVIOUS
  <2>2. \A d \in 1 .. c : \A e \in d .. c - 1 : e \in 1 .. l
    OBVIOUS
  <2>3. Since(c)' = Since(c)
    BY <1>3, <2>2 DEF Since
  <2>4. KeptUpTo(c)' = KeptUpTo(c)
    BY <1>3, <2>1 DEF KeptUpTo
  <2>5. QED
    BY <1>3, <2>3, <2>4 DEF RowOf
<1>6. \A d : d \in Open <=> d \in 1 .. l /\ \A e \in d .. l : ~Kept(e)
  BY <1>1 DEF Open
<1>7. \A d \in 1 .. l : \A e \in d .. l : e \in 1 .. l
  OBVIOUS
<1>8. b - 1 = l /\ (\A d : d \in 1 .. b <=> d \in 1 .. l \/ d = b)
  OBVIOUS
<1>9. Since(b)' = Open \cup {b}
  <2>1. \A d : d \in Since(b)' <=> d \in 1 .. b /\ \A e \in d .. l : ~Kept(e)'
    BY <1>8 DEF Since
  <2>2. \A e \in b .. l : FALSE
    OBVIOUS
  <2>3. QED
    BY <1>3, <1>6, <1>7, <1>8, <2>1, <2>2
<1>10. Open' = IF qKeep THEN {} ELSE Open \cup {b}
  <2>1. \A d : d \in Open' <=> d \in 1 .. b /\ \A e \in d .. b : ~Kept(e)'
    BY <1>1 DEF Open
  <2>2. \A d \in 1 .. b : b \in d .. b /\ \A e \in d .. b : e \in d .. l \/ e = b
    OBVIOUS
  <2>3. \A d \in 1 .. b : \A e \in d .. l : e \in d .. b
    OBVIOUS
  <2>4. CASE qKeep
    BY <1>4, <2>1, <2>2, <2>4
  <2>5. CASE ~qKeep
    <3>1. \A d : d \in Open' <=> d \in 1 .. b /\ \A e \in d .. l : ~Kept(e)'
      BY <1>4, <2>1, <2>2, <2>3, <2>5
    <3>2. \A e \in b .. l : FALSE
      OBVIOUS
    <3>3. QED
      BY <1>3, <1>6, <1>7, <1>8, <2>5, <3>1, <3>2
  <2>6. QED
    BY <2>4, <2>5
<1>11. QED
  BY <1>3, <1>4, <1>5, <1>9, <1>10

\* What the cycle said while it was decoded is what the log says of it.
LEMMA SaidAfter ==
    ASSUME IInv, Count, EndCycle, NEW l \in Nat, l = Len(log), NEW b \in Nat, b = l + 1
    PROVE  /\ \A k : \A c \in 1 .. l : (Sampled(k, c)' <=> Sampled(k, c)) /\ Says(k, c)' = Says(k, c)
           /\ \A k \in 1 .. nSensors : /\ Sampled(k, b)' <=> SaidNow(k)
                                       /\ LastFresh(k, b)' = LastNow(k)
                                       /\ SaidNow(k) => Says(k, b)' = Clean(LastNow(k))
<1>1. /\ \A c \in 1 .. l : log'[c] = log[c]
      /\ log'[b] = cycle /\ i = nSensors + 1 /\ nSensors \in Nat
      /\ pc = "sensors"
  BY CycleAppended DEF EndCycle
<1>2. ASSUME NEW k, NEW c \in 0 .. l PROVE LastFresh(k, c)' = LastFresh(k, c)
  <2>1. \A d \in 1 .. c : log'[d] = log[d]
    BY <1>1
  <2>2. Freshest(log', k, c) = Freshest(log, k, c)
    BY <2>1, FreshestSame
  <2>3. QED
    BY <2>2, LastFreshIs
<1>3. \A k : \A c \in 1 .. l : (Sampled(k, c)' <=> Sampled(k, c)) /\ Says(k, c)' = Says(k, c)
  <2>1. TAKE k
  <2>2. TAKE c \in 1 .. l
  <2>3. Sampled(k, c)' <=> Sampled(k, c)
    BY <1>1 DEF Sampled
  <2>4. LastFresh(k, c)' = LastFresh(k, c)
    BY <1>2
  <2>5. QED
    BY <2>3, <2>4 DEF Says, Clean
<1>4. ASSUME NEW k \in 1 .. nSensors
      PROVE  /\ Sampled(k, b)' <=> SaidNow(k)
             /\ LastFresh(k, b)' = LastNow(k)
             /\ SaidNow(k) => Says(k, b)' = Clean(LastNow(k))
  <2>1. k < i
    BY <1>1
  <2>2. Sampled(k, b)' <=> SaidNow(k)
    BY <1>1, <2>1 DEF Sampled, SaidNow
  <2>3. LastFresh(k, b)' = LastNow(k)
    <3>1. Freshest(log', k, l + 1) =
             IF log'[l + 1][k].code = 2 THEN log'[l + 1][k].value ELSE Freshest(log', k, l)
      BY FreshestNext
    <3>2. Freshest(log', k, b) = IF cycle[k].code = 2 THEN cycle[k].value ELSE Freshest(log', k, l)
      BY <1>1, <3>1
    <3>3. Freshest(log', k, l) = LastFresh(k, Len(log))
      BY <1>1, FreshestSame, LastFreshIs
    <3>4. FreshNow(k) <=> cycle[k].code = 2
      BY <1>1, <2>1 DEF FreshNow
    <3>5. QED
      BY <3>2, <3>3, <3>4, LastFreshIs DEF LastNow
  <2>4. QED
    BY <2>2, <2>3 DEF Says, Clean
<1>5. QED
  BY <1>3, <1>4

\* The row being filled holds the last word since the row before, the cycle
\* that ends included.
LEMMA WordAfter ==
    ASSUME IInv, CellInv, Count, EndCycle, NEW l \in Nat, l = Len(log), NEW b \in Nat, b = l + 1
    PROVE  /\ \A k, v : \A S \in SUBSET (1 .. l) : Word(k, S, v)' <=> Word(k, S, v)
           /\ \A k \in Written : \A S, v : S = Open /\ v = Filled(Column(k)) => Word(k, S \cup {b}, v)'
<1>1. \A k : \A c \in 1 .. l : (Sampled(k, c)' <=> Sampled(k, c)) /\ Says(k, c)' = Says(k, c)
  BY SaidAfter
<1>2. \A k, v : \A S \in SUBSET (1 .. l) : Word(k, S, v)' <=> Word(k, S, v)
  BY <1>1 DEF Word
<1>3. ASSUME NEW k \in Written, NEW S, S = Open, NEW v, v = Filled(Column(k))
      PROVE  Word(k, S \cup {b}, v)'
  <2>1. k \in 1 .. nSensors /\ S \in SUBSET (1 .. l) /\ Running
    BY <1>3, OwnColumns, CycleAppended DEF Open, EndCycle, Running
  <2>2. \A c \in S : c < b /\ c \in 1 .. l
    BY <2>1
  <2>3. /\ Sampled(k, b)' <=> SaidNow(k)
        /\ SaidNow(k) => Says(k, b)' = Clean(LastNow(k))
    BY <2>1, SaidAfter
  <2>5. IF SaidNow(k) THEN v = Clean(LastNow(k)) ELSE Word(k, S, v)
    BY <1>3, <2>1 DEF CellInv, Filling
  <2>6. Word(k, S \cup {b}, v)'
    <3>1. CASE SaidNow(k)
      <4>1. Sampled(k, b)' /\ v = Says(k, b)' /\ b \in S \cup {b}
        BY <2>3, <2>5, <3>1
      <4>2. \A d \in S \cup {b} : ~(d > b)
        BY <2>2
      <4>3. QED
        BY <4>1, <4>2 DEF Word
    <3>2. CASE ~SaidNow(k)
      <4>1. Word(k, S, v)' /\ ~Sampled(k, b)'
        BY <1>2, <2>1, <2>3, <2>5, <3>2
      <4>2. QED
        BY <4>1 DEF Word
    <3>3. QED
      BY <3>1, <3>2
  <2>7. QED
    BY <2>6
<1>4. QED
  BY <1>2, <1>3

\* The row being filled becomes row nRows + 1, or waits for the next cycle.
LEMMA CellEndCycle ==
    ASSUME IInv, CellInv, Count, EndCycle
    PROVE  CellInv'
<1>1. PICK l \in Nat : l = Len(log)
  BY DEF IInv, Stream
<1>2. PICK b \in Nat : b = l + 1
  BY <1>1
<1>3. /\ pc = "sensors" /\ pc' = "tag" /\ Running /\ nRows \in Nat
      /\ nRows' = IF qKeep THEN nRows + 1 ELSE nRows
      /\ layout' = layout /\ Written' = Written /\ Columns' = Columns /\ nSensors' = nSensors
      /\ UNCHANGED <<mData, prevValue>>
      /\ mData \in [Columns -> Seq(Reading)] /\ qKeep \in BOOLEAN
      /\ \A k : Column(k)' = Column(k)
      /\ \A j : Unwritten(j)' <=> Unwritten(j)
  BY DEF EndCycle, args, Running, Written, Columns, IInv, Control, Shape, Allocated, nSensors,
         Column, Unwritten
<1>4. /\ Cycles = 1 .. l /\ Cycles' = 1 .. b /\ Len(log') = b
      /\ \A c \in 1 .. l : log'[c] = log[c]
      /\ log'[b] = cycle /\ Len(cycle) = nSensors
  BY <1>1, <1>2, CycleAppended
<1>5. /\ Kept(b)' <=> qKeep
      /\ \A c \in 1 .. l : Since(c)' = Since(c) /\ \A r : RowOf(r, c)' <=> RowOf(r, c)
      /\ Since(b)' = Open \cup {b}
      /\ Open' = IF qKeep THEN {} ELSE Open \cup {b}
  BY <1>1, <1>2, KeptAfter
<1>6. /\ \A k, v : \A S \in SUBSET (1 .. l) : Word(k, S, v)' <=> Word(k, S, v)
      /\ \A k \in Written : \A S, v : S = Open /\ v = Filled(Column(k)) => Word(k, S \cup {b}, v)'
  BY <1>1, <1>2, WordAfter
<1>7. \A j \in Columns : nRows < Len(mData[j]) /\ Len(mData[j]) \in Nat
  BY <1>3, ColumnZero DEF IInv, Control, Shape, Capacity, Allocated
<1>8. \A j \in Columns : Filled(j) = mData[j][nRows + 1]
  BY <1>7 DEF Filled
<1>9. OwnIn(layout)' /\ WholeCycles'
  <2>1. OwnIn(layout)'
    BY <1>3 DEF CellInv, OwnIn
  <2>2. \A c \in 1 .. b : c \in 1 .. l \/ c = b
    BY <1>2
  <2>3. \A c \in 1 .. l : Len(log[c]) = nSensors
    BY <1>4 DEF CellInv, WholeCycles
  <2>4. \A c \in 1 .. b : Len(log'[c]) = nSensors
    BY <1>4, <2>2, <2>3
  <2>5. QED
    BY <1>3, <1>4, <2>1, <2>4 DEF WholeCycles
<1>10. \A k : ~SaidNow(k)' /\ ~FreshNow(k)'
  BY <1>3 DEF SaidNow, FreshNow
<1>11. Previous'
  <2>1. \A k \in Written : prevValue[Column(k)] = LastNow(k) /\ k \in 1 .. nSensors
    BY <1>3, OwnColumns DEF CellInv, Previous
  <2>2. \A k \in 1 .. nSensors : LastFresh(k, b)' = LastNow(k)
    BY <1>1, <1>2, SaidAfter
  <2>3. \A k : LastNow(k)' = LastFresh(k, b)'
    BY <1>4, <1>10 DEF LastNow, LastFresh
  <2>4. QED
    BY <1>3, <2>1, <2>2, <2>3 DEF Previous
<1>12. ASSUME NEW j \in Columns, NEW r \in nRows + 2 .. Len(mData[j]) PROVE mData[j][r] = NaN
  BY <1>3 DEF CellInv, Blank
<1>13. Blank'
  <2>1. ASSUME NEW j \in Columns, NEW r \in nRows' + 2 .. Len(mData[j]) PROVE mData[j][r] = NaN
    <3>1. r \in nRows + 2 .. Len(mData[j])
      BY <1>3
    <3>2. QED
      BY <1>12, <3>1
  <2>2. QED
    BY <1>3, <2>1 DEF Blank
<1>14. \A j \in Columns : Unwritten(j) => Filled(j) = NaN
  BY <1>3 DEF CellInv, Filling
<1>15. Filling'
  <2>1. CASE qKeep
    <3>1. ASSUME NEW j \in Columns PROVE Filled(j)' = NaN
      <4>1. CASE nRows + 1 < Len(mData[j])
        <5>1. nRows + 2 \in nRows + 2 .. Len(mData[j])
          BY <1>3, <1>7, <4>1
        <5>2. mData[j][nRows + 2] = NaN
          BY <1>12, <5>1
        <5>3. nRows' + 1 = nRows + 2
          BY <1>3, <2>1
        <5>4. QED
          BY <1>3, <5>2, <5>3 DEF Filled
      <4>2. CASE ~(nRows + 1 < Len(mData[j]))
        BY <1>3, <2>1, <4>2 DEF Filled
      <4>3. QED
        BY <4>1, <4>2
    <3>2. ASSUME NEW k \in Written PROVE Word(k, Open, Filled(Column(k)))'
      <4>1. PICK j \in Columns : j = Column(k)
        BY OwnColumns
      <4>2. Column(k)' = j /\ Filled(j)' = NaN
        BY <1>3, <3>1, <4>1
      <4>3. Filled(Column(k))' = NaN
        BY <4>2 DEF Filled
      <4>4. QED
        BY <1>5, <2>1, <4>3 DEF Word
    <3>3. QED
      BY <1>3, <1>10, <3>1, <3>2 DEF Filling
  <2>2. CASE ~qKeep
    <3>1. \A j : Filled(j)' = Filled(j)
      BY <1>3, <2>2 DEF Filled
    <3>2. ASSUME NEW k \in Written PROVE Word(k, Open, Filled(Column(k)))'
      <4>1. PICK j : j = Column(k)
        OBVIOUS
      <4>2. PICK v : v = Filled(j)
        OBVIOUS
      <4>3. PICK S : S = Open
        OBVIOUS
      <4>4. Word(k, S \cup {b}, v)'
        BY <1>6, <4>1, <4>2, <4>3
      <4>5. Filled(j)' = v /\ Column(k)' = j /\ Open' = S \cup {b}
        BY <1>3, <1>5, <2>2, <3>1, <4>1, <4>2, <4>3
      <4>6. Filled(Column(k))' = v
        BY <4>5 DEF Filled
      <4>7. QED
        BY <4>4, <4>5, <4>6 DEF Word
    <3>3. \A j \in Columns : Unwritten(j) => Filled(j)' = NaN
      BY <1>14, <3>1
    <3>4. QED
      BY <1>3, <1>10, <3>2, <3>3 DEF Filling
  <2>3. QED
    BY <2>1, <2>2
<1>16. ASSUME NEW r \in 1 .. nRows'
       PROVE  (\E c \in Cycles :
                 /\ RowOf(r, c)
                 /\ \A k \in Written : Word(k, Since(c), mData[Column(k)][r])
                 /\ \A j \in Columns : Unwritten(j) => mData[j][r] = NaN)'
  <2>1. CASE r \in 1 .. nRows
    <3>1. PICK c \in Cycles :
            /\ RowOf(r, c)
            /\ \A k \in Written : Word(k, Since(c), mData[Column(k)][r])
            /\ \A j \in Columns : Unwritten(j) => mData[j][r] = NaN
      BY <2>1 DEF CellInv, Committed
    <3>2. c \in 1 .. l /\ c \in 1 .. b /\ Since(c) \in SUBSET (1 .. l)
      BY <1>2, <1>4 DEF Since
    <3>3. RowOf(r, c)' /\ c \in Cycles'
      BY <1>4, <1>5, <3>1, <3>2
    <3>4. ASSUME NEW k \in Written PROVE Word(k, Since(c), mData[Column(k)][r])'
      <4>1. PICK v : v = mData[Column(k)][r]
        OBVIOUS
      <4>2. PICK S \in SUBSET (1 .. l) : S = Since(c)
        BY <3>2
      <4>3. Word(k, S, v)'
        BY <1>6, <3>1, <4>1, <4>2
      <4>4. mData'[Column(k)'][r] = v /\ Since(c)' = S
        BY <1>3, <1>5, <3>2, <4>1, <4>2
      <4>5. QED
        BY <4>3, <4>4 DEF Word
    <3>5. QED
      BY <1>3, <3>1, <3>3, <3>4
  <2>2. CASE r \notin 1 .. nRows
    <3>1. qKeep /\ r = nRows + 1
      BY <1>3, <2>2
    <3>2. RowOf(r, b)'
      <4>1. Cardinality(KeptCycles)' = nRows' /\ nRows' = r
        BY <1>3, <3>1, CountEndCycle DEF Count
      <4>2. KeptCycles' = KeptUpTo(b)'
        BY <1>4 DEF KeptCycles, KeptUpTo
      <4>3. QED
        BY <1>5, <3>1, <4>1, <4>2 DEF RowOf
    <3>3. b \in Cycles'
      BY <1>2, <1>4
    <3>4. ASSUME NEW k \in Written PROVE Word(k, Since(b), mData[Column(k)][r])'
      <4>1. PICK j \in Columns : j = Column(k)
        BY OwnColumns
      <4>2. PICK v : v = Filled(j)
        OBVIOUS
      <4>3. PICK S : S = Open
        OBVIOUS
      <4>4. Word(k, S \cup {b}, v)'
        BY <1>6, <4>1, <4>2, <4>3
      <4>5. mData'[Column(k)'][r] = v /\ Since(b)' = S \cup {b}
        BY <1>3, <1>5, <1>8, <3>1, <4>1, <4>2, <4>3
      <4>6. QED
        BY <4>4, <4>5 DEF Word
    <3>5. \A j \in Columns' : Unwritten(j)' => mData'[j][r] = NaN
      BY <1>3, <1>8, <1>14, <3>1
    <3>6. QED
      BY <1>3, <3>2, <3>3, <3>4, <3>5
  <2>3. QED
    BY <2>1, <2>2
<1>17. Committed'
  BY <1>16 DEF Committed
<1>18. QED
  BY <1>3, <1>9, <1>11, <1>13, <1>15, <1>17 DEF CellInv, Unread

\* Before the first cycle there is no cell to speak of.
LEMMA CellInit == DistinctColumns => (Init => CellInv)
<1> SUFFICES ASSUME DistinctColumns, Init PROVE CellInv
  OBVIOUS
<1>1. OwnIn(layout) /\ log = << >> /\ pc = "start" /\ nRows = 0
  BY DEF DistinctColumns, Init
<1>2. QED
  BY <1>1 DEF CellInv, Unread, WholeCycles, Cycles, Previous, Blank, Filling, Running, Committed

\* Every step of load keeps the cells right.
LEMMA CellNext == IInv /\ CellInv /\ Count /\ [Next]_vars => CellInv'
<1> SUFFICES ASSUME IInv, CellInv, Count, [Next]_vars PROVE CellInv'
  OBVIOUS
<1>1. CASE EndCycle
  BY <1>1, CellEndCycle
<1>2. CASE DecodeSensor
  BY <1>2, CellDecode
<1>3. CASE ReadBits
  BY <1>3, CellReadBits
<1>4. CASE Allocate
  BY <1>4, CellAllocate
<1>5. CASE DataTag \/ BadTag \/ ScanOther \/ ScanFound
  <2>1. /\ UNCHANGED <<layout, log, nRows, mData, prevValue>>
        /\ pc \in {"tag", "scan"} /\ pc' \in {"tag", "scan", "bits"}
    BY <1>5 DEF DataTag, BadTag, ScanOther, ScanFound, args, stream
  <2>2. QED
    BY <2>1, CellQuiet DEF Running
<1>6. CASE NothingToStore \/ EndOfData \/ ScanFailed \/ BitsCutShort \/ SensorFails
  <2>1. UNCHANGED <<layout, log, nRows>> /\ pc' \in {"returned", "threw"}
    BY <1>6 DEF NothingToStore, EndOfData, ScanFailed, BitsCutShort, SensorFails, args, stream
  <2>2. QED
    BY <2>1, CellExits DEF Running
<1>7. CASE UNCHANGED vars
  <2>1. UNCHANGED <<layout, log, nRows, pc, mData, prevValue, i, cycle>>
    BY <1>7 DEF vars
  <2>2. QED
    BY <2>1, CellQuiet DEF Running
<1>8. QED
  BY <1>1, <1>2, <1>3, <1>4, <1>5, <1>6, <1>7 DEF Next, Returned

\* The cycle that ended a row is the only one, and the row is made of the
\* cycles since the one that ended the row before.
LEMMA RowCycles ==
    ASSUME log \in Seq(Seq([code: 0 .. 2, value: Reading])),
           NEW r, NEW c \in Cycles, RowOf(r, c)
    PROVE  CycleOfRow(r) = c /\ CyclesOfRow(r) = Since(c)
<1>1. Cycles \subseteq Nat /\ c \in Nat /\ r \in Nat
  <2>1. Cycles \subseteq Nat
    BY DEF Cycles
  <2>2. QED
    BY <2>1, KeptCount DEF RowOf
<1>2. CycleOfRow(r) = c
  <2>1. \A d \in Cycles : Kept(d) /\ Cardinality(KeptUpTo(d)) = r => d = c
    <3> SUFFICES ASSUME NEW d \in Cycles, RowOf(r, d) PROVE d = c
      BY DEF RowOf
    <3>1. d \in Nat
      BY <1>1
    <3>2. ASSUME d < c PROVE FALSE
      <4>1. \E e \in d + 1 .. c : Kept(e)
        BY <1>1, <3>1, <3>2 DEF RowOf
      <4>2. Cardinality(KeptUpTo(d)) < Cardinality(KeptUpTo(c))
        BY <1>1, <3>1, <3>2, <4>1, KeptCount
      <4>3. QED
        BY <1>1, <4>2 DEF RowOf
    <3>3. ASSUME c < d PROVE FALSE
      <4>1. \E e \in c + 1 .. d : Kept(e)
        BY <1>1, <3>1, <3>3 DEF RowOf
      <4>2. Cardinality(KeptUpTo(c)) < Cardinality(KeptUpTo(d))
        BY <1>1, <3>1, <3>3, <4>1, KeptCount
      <4>3. QED
        BY <1>1, <4>2 DEF RowOf
    <3>4. QED
      BY <1>1, <3>1, <3>2, <3>3
  <2>2. QED
    BY <2>1 DEF CycleOfRow, RowOf
<1>3. ASSUME NEW d \in 1 .. c
      PROVE  Cardinality(KeptUpTo(d)) >= r - 1 /\ (Kept(d) => d = c)
                <=> \A e \in d .. c - 1 : ~Kept(e)
  <2>1. d \in Nat /\ Cardinality(KeptUpTo(d)) \in Nat
    <3>1. d \in Nat /\ d <= d
      BY <1>1
    <3>2. QED
      BY ONLY <3>1, KeptCount
  <2>2. ASSUME \A e \in d .. c - 1 : ~Kept(e)
        PROVE  Cardinality(KeptUpTo(d)) >= r - 1 /\ (Kept(d) => d = c)
    <3>1. Kept(d) => d = c
      <4>1. d # c => d \in d .. c - 1
        BY <1>1, <2>1
      <4>2. QED
        BY <2>2, <4>1
    <3>2. CASE d = c
      BY <1>1, <3>2 DEF RowOf
    <3>3. CASE d # c
      <4>1. c \notin KeptUpTo(d) /\ \A e \in 1 .. c : Kept(e) => e \in 1 .. d \/ e = c
        <5>1. c \notin 1 .. d
          BY <1>1, <2>1, <3>3
        <5>2. \A e \in 1 .. c : e \in 1 .. d \/ e \in d .. c - 1 \/ e = c
          BY <1>1, <2>1
        <5>3. QED
          BY <2>2, <5>1, <5>2 DEF KeptUpTo
      <4>2. \A e \in 1 .. d : e \in 1 .. c
        BY <1>1, <2>1
      <4>3. c \in 1 .. c
        BY <1>1
      <4>4. KeptUpTo(c) = KeptUpTo(d) \cup {c}
        BY <4>1, <4>2, <4>3 DEF RowOf, KeptUpTo
      <4>5. IsFiniteSet(KeptUpTo(d))
        <5>1. IsFiniteSet(1 .. d) /\ KeptUpTo(d) \subseteq 1 .. d
          BY <2>1, FS_Interval DEF KeptUpTo
        <5>2. QED
          BY <5>1, FS_Subset
      <4>6. r = Cardinality(KeptUpTo(d)) + 1
        BY <4>1, <4>4, <4>5, FS_AddElement DEF RowOf
      <4>7. QED
        BY <2>1, <3>1, <4>6
    <3>4. QED
      BY <3>2, <3>3
  <2>3. ASSUME Cardinality(KeptUpTo(d)) >= r - 1, Kept(d) => d = c,
               NEW e \in d .. c - 1, Kept(e)
        PROVE  FALSE
    <3>1. d # c /\ e # d /\ e \in Nat /\ d <= e /\ e <= c /\ e \in d + 1 .. e /\ c \in e + 1 .. c
      BY <1>1, <2>1, <2>3
    <3>2. Cardinality(KeptUpTo(d)) < Cardinality(KeptUpTo(e))
      BY <2>1, <2>3, <3>1, KeptCount
    <3>3. Cardinality(KeptUpTo(e)) < r
      BY <1>1, <3>1, KeptCount DEF RowOf
    <3>4. Cardinality(KeptUpTo(e)) \in Nat
      BY <3>1, KeptCount
    <3>5. QED
      BY <1>1, <2>1, <2>3, <3>2, <3>3, <3>4
  <2>4. QED
    BY <2>2, <2>3
<1>4. CyclesOfRow(r) = Since(c)
  BY <1>2, <1>3 DEF CyclesOfRow, Since
<1>5. QED
  BY <1>2, <1>4

\* What the invariant says of committed rows, in the words of the log.
LEMMA RecentFromCells == IInv /\ CellInv => CellsAreRecent
<1> SUFFICES ASSUME IInv, CellInv, NEW j \in Columns, NEW r \in 1 .. nRows
             PROVE  LET said == {p \in Written \X CyclesOfRow(r) :
                                   layout.sensors[p[1]].index = j /\ Sampled(p[1], p[2])}
                    IN  mData[j][r] =
                          IF said = {} THEN NaN
                          ELSE LET last == CHOOSE p \in said : \A q \in said : q[2] <= p[2]
                               IN  Says(last[1], last[2])
  BY DEF CellsAreRecent
<1> DEFINE said == {p \in Written \X CyclesOfRow(r) :
                       layout.sensors[p[1]].index = j /\ Sampled(p[1], p[2])}
           last == CHOOSE p \in said : \A q \in said : q[2] <= p[2]
<1>1. PICK c \in Cycles :
        /\ RowOf(r, c)
        /\ \A k \in Written : Word(k, Since(c), mData[Column(k)][r])
        /\ \A m \in Columns : Unwritten(m) => mData[m][r] = NaN
  BY DEF CellInv, Committed
<1>2. CyclesOfRow(r) = Since(c) /\ Since(c) \subseteq Nat
  BY <1>1, RowCycles DEF IInv, Stream, Since
<1>3. \A p \in said : p = <<p[1], p[2]>> /\ p[1] \in Written /\ p[2] \in Since(c)
                      /\ Column(p[1]) = j /\ Sampled(p[1], p[2])
  BY <1>2 DEF Column
<1>4. \A k \in Written, d \in Since(c) : Column(k) = j /\ Sampled(k, d) => <<k, d>> \in said
  BY <1>2 DEF Column
<1>5. mData[j][r] = IF said = {} THEN NaN ELSE Says(last[1], last[2])
  <2>1. CASE Unwritten(j)
    <3>1. said = {}
      BY <1>3, <2>1 DEF Unwritten
    <3>2. QED
      BY <1>1, <2>1, <3>1
  <2>2. ASSUME NEW k \in Written, Column(k) = j
        PROVE  mData[j][r] = IF said = {} THEN NaN ELSE Says(last[1], last[2])
    <3>1. \A p \in said : p[1] = k
      BY <1>3, <2>2, OwnColumns
    <3>2. Word(k, Since(c), mData[j][r])
      BY <1>1, <2>2
    <3>3. CASE \A d \in Since(c) : ~Sampled(k, d)
      <4>1. said = {}
        BY <1>3, <3>1, <3>3
      <4>2. mData[j][r] = NaN
        BY <3>2, <3>3 DEF Word
      <4>3. QED
        BY <4>1, <4>2
    <3>4. CASE \E d \in Since(c) : Sampled(k, d)
      <4>1. PICK d \in Since(c) : Sampled(k, d) /\ (\A e \in Since(c) : e > d => ~Sampled(k, e))
                                  /\ mData[j][r] = Says(k, d)
        BY <3>2, <3>4 DEF Word
      <4>2. <<k, d>> \in said
        BY <1>4, <2>2, <4>1
      <4>3. \A q \in said : q[2] <= d
        <5>1. TAKE q \in said
        <5>2. q[2] \in Since(c) /\ Sampled(k, q[2])
          BY <1>3, <3>1
        <5>3. q[2] \in Nat /\ d \in Nat /\ ~(q[2] > d)
          BY <1>2, <4>1, <5>2
        <5>4. QED
          BY <5>3
      <4> HIDE DEF said
      <4>4. last \in said /\ \A q \in said : q[2] <= last[2]
        <5>1. \E p \in said : \A q \in said : q[2] <= p[2]
          BY <4>2, <4>3
        <5>2. QED
          BY <5>1
      <4> HIDE DEF last
      <4>5. last[1] = k /\ last[2] = d
        <5>1. last[1] = k /\ last[2] \in Nat /\ d \in Nat
          BY <1>2, <1>3, <3>1, <4>4
        <5>2. d <= last[2] /\ last[2] <= d
          BY <4>2, <4>3, <4>4
        <5>3. QED
          BY <5>1, <5>2
      <4>6. QED
        BY <4>1, <4>2, <4>5
    <3>5. QED
      BY <3>3, <3>4
  <2>3. QED
    BY <2>1, <2>2 DEF Unwritten
<1>6. QED
  BY <1>5

\* When every sensor written is a criterion, a row is made of one cycle.
LEMMA OneCycleFromCells == IInv /\ CellInv => UnfilteredRowsHoldOneCycle
<1> SUFFICES ASSUME IInv, CellInv, Unfiltered, NEW k \in Written, NEW r \in 1 .. nRows
             PROVE  mData[Column(k)][r] = Says(k, CycleOfRow(r))
  BY DEF UnfilteredRowsHoldOneCycle, RowsHoldOneCycle, Column
<1>1. PICK c \in Cycles : RowOf(r, c) /\ Word(k, Since(c), mData[Column(k)][r])
  BY DEF CellInv, Committed
<1>2. CycleOfRow(r) = c
  BY <1>1, RowCycles DEF IInv, Stream
<1>3. log \in Seq(Seq([code: 0 .. 2, value: Reading])) /\ c \in Nat /\ c \in 1 .. c
      /\ \A d \in 1 .. c : d \in Cycles
  BY DEF IInv, Stream, Cycles
<1>4. c \in Since(c)
  BY <1>3 DEF Since
<1>5. ASSUME NEW d \in Since(c), Sampled(k, d) PROVE d = c
  <2>1. d \in 1 .. c /\ \A e \in d .. c - 1 : ~Kept(e)
    BY DEF Since
  <2>2. k \in DOMAIN log[d]
    <3>1. Len(log[d]) = nSensors /\ log[d] \in Seq([code: 0 .. 2, value: Reading])
      BY <1>3, <2>1 DEF CellInv, WholeCycles, Cycles
    <3>2. QED
      BY <3>1, OwnColumns
  <2>3. Kept(d)
    BY <1>5, <2>2 DEF Kept, Unfiltered
  <2>4. d # c => d \in d .. c - 1
    BY <1>3, <2>1
  <2>5. QED
    BY <2>1, <2>3, <2>4
<1>6. QED
  BY <1>1, <1>2, <1>4, <1>5 DEF Word, Says

\* The cells stay right as long as load runs, and after.
LEMMA CellInvariance == DistinctColumns => (Spec => [](IInv /\ CellInv))
<1>1. Spec => [](IInv /\ Count)
  BY InitInv, NextInv, CountInit, CountNext, PTL DEF Spec
<1>2. QED
  BY <1>1, CellInit, CellNext, PTL DEF Spec

\* A cell shows the last word of its own sensor since the row before, and a
\* column no sensor writes stays empty: whatever the order of state codes, of
\* growth and of reused rows (Data.C:167-204).
THEOREM CellsRecent == DistinctColumns => (Spec => []CellsAreRecent)
BY CellInvariance, RecentFromCells, PTL

\* Without a selection narrower than the output, each row holds its own cycle
\* and nothing of an earlier one (Data.C:178-204).
THEOREM RowsOfOneCycle == DistinctColumns => (Spec => []UnfilteredRowsHoldOneCycle)
BY CellInvariance, OneCycleFromCells, PTL

=============================================================================
