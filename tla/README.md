# A TLA+ model of dbd2netCDF

dbd2netCDF turns the binary data files of Slocum gliders (Dinkum binary data)
into NetCDF.  This directory holds its specification: TLA+ modules translated
from `src/src/*.C`, TLC configurations that check them on small instances, and
proofs checked by TLAPS.  `PROJECT.json` maps every definition to the lines it
models, and lists the runs, the mutants that show each property can fail, the
hazards of the code, the findings and the theorems.

## 1. The system

### Components, their state and their operations

| component | state | operations | what makes it correct |
|---|---|---|---|
| Data decoder (`Data.C`) | columns, capacity, `prevValue`, committed rows | `load` | rows are whole, final, in bounds; a cell holds the reading of its own sensor; a corrupt file keeps the rows before the damage |
| known bytes, sensor reads (`KnownBytes.C`, `Sensor.C`) | byte order | `read8` to `read64`, `Sensor::read`, `procLine`, `dump` | a value has the bytes of the file in the host's order; a width is 1, 2, 4 or 8; a line that does not parse is refused |
| sensor cache (`Sensors.C`) | a directory of `<crc>.cac` files shared by processes | `dump`, `load`, `mkFilename` | the name stands for a whole list or for nothing; a list once there stays |
| sensor lists, common columns (`SensorsMap.C`, `Sensors.C`) | `mMap`: CRC to list, `mAllSensors` | `insert`, `find`, `qKeep`, `qCriteria`, `setUpForData` | all lists agree on one set of columns; the output has what was asked |
| driver (`dbd2netCDF.C`) | accepted files, row and header offsets, batch | two passes over the files | the output is the concatenation of the files, and each header row points at its own rows |
| NetCDF wrapper (`MyNetCDF.C`) | the open file and its definitions | open, create, dims, vars, chunks, puts, close | nothing written by an earlier run or batch is lost; a value goes only to a variable of its type |
| header (`Header.C`) | records of the ASCII header | parse, mission filter, open time | the binary part starts where the header ends |
| decompression (`Decompress.C`) | the get area, `mPos` | `underflow`, `seekoff` | the stream is the concatenation of the blocks |
| `decompressTWR.C` | a temporary file | copy, close, test, rename | a name stands for a whole file or for what was there |
| PD0 (`PD0.C`, `pd02netCDF.C`) | the sections of an ensemble, their flags, the union of a 24-bit value | scan, load, dump | a row is its own ensemble, decoded with its own leader, and fits the dimension |
| `dbd2csv.C`, `dbdSensors.C` | accepted files, their times and sizes | first pass, sort, second pass | each record once, in order, under its own columns |
| `mkOne.py` | - | runs the programs, several at once on one cache | what they share is the cache |

### How they interact

The driver reads every file twice.  The **first pass** opens each file, parses
its header, and calls `SensorsMap::insert`.  A CRC met for the first time gives
a list from the header (which is then dumped to the cache) or, for a factored
file, from the cache.  Then the filters `-k` (what is written) and `-c` (what
makes a cycle worth a row) run over all the lists, and `setUpForData` gives each
sensor name its output column.  The **second pass** opens each accepted file
again, finds its list, checks the known-bytes cycle, and decodes it with
`Data::load`; the rows are appended to the NetCDF output at `indexOffset`, and a
header row is written at the file's position.  The output is closed and reopened
between batches.  Everything in a process is one thread.  Processes meet in the
cache directory only: `mkOne.py` starts one `dbd2netCDF` per kind of file, in
threads, on one directory, and nothing is locked.

### What is hard

* **Interleaving**: check, create, write, close and rename of a cache file are
  separate steps of unlocked processes, and a process may die between any two.
* **Stale state**: a list is read once per run, its indices are rewritten, and a
  list that comes later is not; the columns of a dropped cycle are reused.
* **Partial failure**: a file is written by some dozens of calls, any of which
  may throw; there is no transaction.
* **Boundaries**: columns grow from a guess by unsigned arithmetic; batches of
  0, files of one record with one to skip, no column at all, empty blocks in a
  compressed file, files without a row.
* **Damaged input**: files come over a satellite link.  Truncated and corrupt
  ones are the normal case, and every reader must say where the good part ends.

## 2. Modules

| module | models | extends |
|---|---|---|
| `DataLoad` | `Data::load` | - |
| `SharedFacts` | what the proofs share: induction, least elements, `FlattenSeq`, and what the operators of `SensorLists` do | `SensorLists`, `TLAPS` |
| `DataLoadProofs` | theorems on it | `DataLoad`, `SharedFacts` |
| `SensorLists` | the pure operations on sensor lists: filters, common columns | - |
| `SensorsMap` | both passes as far as sensor lists go, with other processes publishing lists | `SensorLists` |
| `SensorsMapProofs` | theorems on both | `SensorsMap`, `SharedFacts` |
| `CacheStore` | what the cache promises, abstractly | - |
| `SensorCache` | `Sensors::dump` and `load` by several processes; implements `CacheStore` | - |
| `SensorCacheProofs` | theorems on it, the refinement among them | `SensorCache`, `TLAPS` |
| `NetCDFSchema` | the definitions of a NetCDF file: made, or found and checked; chunk sizes | - |
| `Dbd2netCDF` | the second pass: batches, definitions, offsets, writes | `NetCDFSchema` |
| `Dbd2netCDFProofs` | theorems on it | `Dbd2netCDF`, `SharedFacts` |
| `Decompress` | the stream buffer over the blocks of a file | - |
| `DecompressTWR` | `decompressTWR`: copying, publishing, failures, kills | `Decompress` |
| `DecompressTWRProofs` | theorems on both | `DecompressTWR`, `SharedFacts` |
| `DbdFile` | a file up to its data: header, sensor lines, known bytes and byte order | - |
| `Dbd2csv` | `dbd2csv` and `dbdSensors`: first pass, sort, second pass | `DbdFile`, `SensorLists` |
| `Dbd2csvProofs` | theorems on both | `Dbd2csv`, `SharedFacts` |
| `Pd0` | `pd02netCDF` and its reader | `NetCDFSchema` |
| `Pd0Proofs` | theorems on it | `Pd0`, `SharedFacts` |
| `MC...` | the instances | each its module |

`MCDataLoad` does not invent the lists it decodes with: it computes them with the
operators of `SensorLists`, so `Data::load` is checked on what `setUpForData`
really hands it, with its odd cases (a sensor left out by `-k` whose index
is out of range or is that of another column).

### `DataLoad`

One action per stretch of the loop: `DataTag`, `EndOfData`, `BadTag` with the
repair scan (`ScanOther`, `ScanFound`, `ScanFailed`), `ReadBits` (with the
growth of the columns), one `DecodeSensor` step per sensor (`NotSampled`,
`RepeatValue`, `NewValue`) or `SensorFails`, `EndCycle`.  `PruneColumns` is part
of every exit, as in the code.  The input is lazy: a step picks the next tag,
code and value, so the model ranges over all files of at most `MaxCycles`
cycles, those cut short or corrupt anywhere included.  Values are the members
of `Finite`, `Inf` and `NaN`.  `log` is what was read, which the program does
not keep; the properties compare the columns with it.  A column's length is its
capacity.  Byte order, the exact bytes of a value and the text of messages are
left out, and so is the `offIndex` test, which never fires (theorem
`OffIndexInRange`).

### `SensorLists`, `SensorsMap`

A sensor is `[name, size, index, keep, crit]`.  `Raw` is a list as a header or
a cache file gives it; `Keep`, `Select`, `CommonList`, `SizesAgree`, `Reindexed`
are `qKeep`, `qCriteria` and the parts of `setUpForData`; `Visited` is the order in
which it meets the sensors, `Meet` what it does with one, `Common` a recursive
function over them.  The state machine has
a first-pass step per file (`Discover`, or `DiscoverSkips` for a header or cache
that fails; `Dump` may leave the list in the cache or not), `SetUp` or `SetUpFails`, a second-pass step per accepted file
(`Decode`, `DecodeLate`, and `DecodeUnknown` for a list that is not there, or is
corrupt, by then), and `Published`, by which another
process adds a list to the cache at any moment.  The `std::map` is walked in
the order `CrcOrder`, given as a constant that lists each CRC once
(`OrderAssumption`), and `Lower` is `crcLower`: two CRCs that differ in case share a
cache name.

### `CacheStore`, `SensorCache`

Names and files are kept apart.  `names` is what each name (a temporary one per
suffix, and `final`) stands for, `files` the content of each file, `fd` the file
a process has open: a rename moves a name while a reader keeps its file.  A file
holds a number of whole lines and how the last one was cut: inside its unit it
still parses, before it does not.  A dumper goes through `DirThere` or
`DirMissing` and `MakeDir` or `MakeDirFails`, `CheckExists`, `OpenTemp`, `WriteSome`, `WriteAll`,
`CloseTemp`, `RenameTemp`, with the failures `OpenTempFails`, `WriteFails`,
`RenameFails`; a loader through `OpenList`, `ReadLine`, `ReadEnd`; any process may
`Crash`.  The refinement mapping takes the content behind `final` for what is
published, and the lines a loader took for what it got.

### `NetCDFSchema`

A schema is the lengths of the dimensions, the type and the dimensions of the
variables, and whether the global attributes are there.  `MaybeCreateDim` and
`MaybeCreateVar` are the calls `dbd2netCDF` makes (keep what is there if it fits),
`CreateDim` and `CreateVar` those of `pd02netCDF`; `DimRefused` and `VarRefused` are
the tests that throw.  `Chunks` is the computation of `createVar`, from the last
dimension to the first for what is defined and back for what is not.  On an
append, `nc_inq_dimlen` gives the present length of the unlimited dimension, so
a new column gets a chunk as long as the file has rows: `Chunks` takes lengths as
it finds them, and only `Pd0`, whose file is new, has a bound on the result.

### `Dbd2netCDF`

`Data::load` is abstracted to what the driver sees of it: it threw, kept nothing,
or kept some records, a record being `<<file, k>>`.  Each batch goes through
`OpenBatch`, then `Define` once per entry of `defs` (the dimensions, the columns,
the header variables, in the order of the code), or `DefineStops`, then `Defined`,
which fixes the offsets in the first batch.  What is there under the output's
name is the `base` of the option record.  `todo` holds the writes of the file at
hand in the order of the code (the header variables, start, stop, count, then
column by column); each may fail.  Columns and header rows are sequences along
the unlimited dimensions, a gap being filled with `Fill`.  `Fatal` stands for the
exits outside the inner `try`.

### `Decompress`, `DecompressTWR`

The buffer is a record of the blocks not read, the get area, `mPos` and the end
of the stream; a byte is `<<block, i>>`, so that a byte lost, repeated or moved
shows.  `Underflow` is one turn of the loop of `underflow`.  `DecompressTWR` reads through
it as `istream::read` does (`FillBuffer`, `TakeBytes`), writes what it got
(`WriteChunk`, `WriteShort`), then `CloseTemp`, `Publish` or `GiveUp`, or with `-p`
`PipedAll`; `Kill` may come between any two.  `taken` is not kept by the program.

### `DbdFile`, `Dbd2csv`

A file is a stream of lines, the binary part one last line.  `Header` goes over them
with the line count and the limit `num_ascii_tags` moves, `HeaderLine` being one turn
of its loop: it counts lines, not records, since a key may repeat.  `SensorsOf` and
`PastSensors` are the two ways on to the data, by parsing the list and by
skipping as many lines as the header announces; `Flip` is what the known bytes
say, and `ReadBytes` what `read16` to `read64` make of a value.  `Dbd2csv` accepts,
rejects or passes over each file (`Accept`, `Reject`, `PassOver`, with `SizeThrows`
for the `filesystem_error` nothing catches), sorts in any order that `std::sort`
may leave, and converts file by file.  Data::load is the number of records it
retains.  `dbdSensors` shares the first pass; `ListFile` and `ListEmpty` are its second.  `WellFormed` says what a file as a
glider writes it looks like, without the operators that read one: header lines,
then sensor lines, then the data; the number of header lines told in one of the
first 14, unless there are 14; the number of sensor lines told; a CRC; known bytes.

### `Pd0`

The scan (`ScanFile`) and `SetUp` fix the dimension of the depth cells before
anything is decoded.  An ensemble is loaded section by section (`LoadSection`, in
the order of its offset table) and dumped section by section (`DumpSection`, in the
order of `dumpBlock`).  `value` and `qSet` are the sections and their flags: values
live on, as in the one `PD0` object of the program.  A value names the ensemble
it was read in, and its `n` is the number of cells of a section that has some,
or the melded field of one that has one, on `Low` values instead of 2^16.
Checksums and cuts are outcomes (`Ends`).

## 3. Runs

All bounds are in the cfg files.

| run | checks | bounds, and why they are enough |
|---|---|---|
| `data_load` | types, bounds of writes, whole rows on exit, recent cells, unfiltered rows, final rows | 3 cycles: enough for two growths from a column of one cell (files of size 0 or 2), and for a repeat across a dropped cycle; 2 sensors, 7 lists; 2 finite readings, Inf, NaN; a scan of at most 1 byte, so that its limit is met |
| `data_load_selected` | finding 1 | the same, one list |
| `sensor_cache` | whole, published once, temporaries owned; refinement; liveness | 2 dumpers, 2 loaders, 2 suffixes, a list of 2 lines: two writers race, a reader holds a file that is replaced |
| `sensor_cache_close` | finding 3 | the same with `CloseMayFail`; symmetric in processes and suffixes |
| `sensors_map` | common columns, their order, their set, one full file is enough | every command line of 2 files and the 3-file ones where a factored file is followed by a full one; 4 CRCs (two sharing a cache key, one with another size for a sensor), with and without `-k` and `-c`, every initial cache |
| `sensors_map_keep` | finding 2 | the same, smaller |
| `dbd2netcdf` | concatenation, header rows, earlier runs, the schema of every write, no mismatch after a write; termination | 3 files of at most 2 records, so that a batch boundary falls before, between and after; batches of 0 (all), 1 and 2; 2 columns, so that a failure falls between them; the output missing, the same, lacking a column, with another one, with another type, another dimension, or a fixed dimension; a sensor of 3 bytes |
| `dbd2netcdf_toss` | finding 4 | the same, one option record |
| `decompress_twr` | the stream, no partial output, what success means, no temporary left | inputs of at most 3 blocks of 0 to 2 bytes, whole, corrupt or cut, then one of two files, under one output name or two; reads of 3 bytes, so that one ends inside, at and behind a block and spans an empty one; with and without `-p`, on a fresh or an older output |
| `decompress_twr_short` | finding 5 | one input of at most 2 blocks |
| `dbd2csv` | concatenation, the order and the sizes of the files, no well-formed file refused | all pairs of 10 files and triples of 7: both byte orders, one list in two of them, factored ones with a list, with none and with an empty one, a header without `num_ascii_tags`, repeated keys, 4 that are broken; every sort, skip and mission option that tells them apart; both programs |
| `pd0` | rows, cells, the 24-bit field, header rows, chunks | a file of at most 2 ensembles, ended in the 4 ways, then one of at most 1, of 6 kinds: leader first, after the velocities, or none, an unknown section, no section at all, 0 to 255 cells; fields of 4 values, so that an unmasked rest shows |

**Fairness.**  Two runs check liveness.  `sensor_cache` assumes weak fairness of
each process: the operating system runs every process that is not dead, and
`WriteSome` cannot repeat for ever since each makes the file longer.
`dbd2netcdf` assumes weak fairness of the one thread.  No strong fairness is
assumed, and none of the failures is assumed to stop.

**Deadlock** is checked in all runs: the exits stutter explicitly
(`Returned`, `AllDone`, `Ended`, `Stay`, `Exited`).

## 4. What the runs found

1. **Dropped cycles leak into rows** (`RowsHoldOneCycle`).  With `-c`, the cells
   a dropped cycle stored stay in the row being filled and are written
   out with the next kept cycle.  What does hold is stated next to it: a cell is
   the last word of its own sensor since the row before (`CellsAreRecent`), and
   without a narrower `-c` each row is its own cycle.
2. **`-k` and the index check** (`IndicesAreNormalized`).  Sensors left out by
   `-k` keep the index of their file; `Data::load` checks it against the number
   of output columns, and refuses the file at the first cycle that samples such
   a sensor.  Seen in the program: two sensors of `test/test.sbd` give no record.
3. **Unchecked close** (`PublishedIsWhole` with `CloseMayFail`).
4. **Tossed files keep their header row** (`TossedFilesAreTossed`).
5. **`decompressTWR` publishes what it could read of a damaged file**
   (`DamagedInputsAreRefused`): `underflow` reports a corrupt or a cut block as
   the end of the file, and the copy loop has no other way to know.

Each is a run whose expected outcome is a violation; `PROJECT.json` quotes the
line of the code or manual it disagrees with.

Seen while modelling, and part of the models, with no run of their own:

* A list published by another process between the passes is used with the
  indices of its own file, unfiltered (`DecodeLate` of `SensorsMap`).
* The order of the columns depends on the cache, through the lists that are known.
  From a factored file of A1 and a full one of B2, an empty cache gives the sensors of
  B2 only; with the list of A1 cached, those of A1 come before them.
  `ColumnsFollowTheMap` is about the order among the lists known.
* A `.cac` file without a sensor in use is no list to `SensorsMap::insert` and one to
  `find`: `dbdSensors` ends with 1 over it (`ListEmpty` of `Dbd2csv`), `dbd2csv` gives
  up the file.
* A `--strict` run that stops leaves the files written before (`OutputIsConcatenation`
  says what is there, at that exit too), although its help text promises no partial results
  (dbd2netCDF.C:81); so does `dbd2csv`, which never tests its output stream.
* A run whose definitions do not fit the output it appends to stops before it
  writes a row (`MismatchStopsAtOnce`), but the columns defined before that stay
  in the file.  Without `--append` the old output is gone by then.
* `--append` to an output that is not there makes it without the global
  attributes.
* A section of a PD0 ensemble that comes before its fixed leader, or has none, is
  read with the cell count of an earlier ensemble, if need be of an earlier file.
* A PD0 file cut in a body ends quietly; cut in a header or a checksum it ends
  the run, and the rows of that file stay without a header row.

## 5. What is proved

TLAPS checks eight modules of proofs.  Nothing in them is taken on trust: the
assumptions are the named `ASSUME`s of the modules they extend, which TLC
evaluates in the runs, and two hypotheses that theorems state, `World` and
`DistinctColumns`.  Each invariant has one lemma per action.

**`SharedFacts`** has what the others share: induction over the natural numbers
with a set in place of the operator that the library's theorems take
(`InductionOverNat`), the least and the greatest natural of a set, and
`FlattenSeq`.  Its definition is recursive, so the facts come in this order: that
the function it chooses exists and is unique (`FlattenExists`, `FlattenUnique`),
what one sequence more adds (`FlattenExtend`), what of it is a prefix
(`FlattenPrefix`), what a changed element in front of empty ones adds
(`FlattenFill`), and where each element comes from (`FlattenPlaces`).  Its second
half is about `setUpForData` and the filters, which two programs run (`SensorsMapProofs`
and `Dbd2csvProofs` rest on it).  `CommonIs`: after n sensors the columns are those of
the first of each name kept among them, in order (`ColumnsOf`, by induction over n; that
the recursive function exists is `CommonExists`).  From it, `ReindexedIs`: every
sensor kept gets the column of its name, whose size agrees because `SizesAgree` was
tested.  And `ColumnNames`: the columns are those of the sensors kept.  `RawIs`, `KeepIs`
and `SelectIs` say what is read and what `-k` and `-c` leave.

**`DataLoadProofs`**, for every sensor list (`Layouts`), file size, set of
readings, scan limit and number of cycles.  Except in the last two theorems it
assumes of `Layouts` only that it holds lists of sensors, of any index and size:
what is proved does not rest on `setUpForData`.

| theorem | states |
|---|---|
| `TypeCorrect` | `TypeOK` |
| `WritesInBounds` | `RoomForRow`: no write of the sensor loop is outside its column |
| `RowsFinal` | `RowsAreFinal`: a counted row never changes |
| `WholeRows` | `ExitsWithWholeRows`: both exits leave columns of one length, the number of cycles that met the criteria |
| `OffIndexInRange` | every state code lies in the header bytes read, so the model may leave out the test of Data.C:168 |
| `CellsRecent` | `CellsAreRecent`, under `DistinctColumns`: a cell is the last word of its own sensor since the row before |
| `RowsOfOneCycle` | `UnfilteredRowsHoldOneCycle`, under `DistinctColumns` |

`RoomForRow` is not inductive: it speaks of the sensor loop, and the room is made
a step earlier, by a test of the first column only, and growth is by the length
of each.  The invariant `IInv` therefore has four parts: `Control` and
`Stream` (types of the control variables and of what was read), `Shape` (the
columns exist exactly from the allocation on) and `Capacity` (all columns have one
length; the rows are behind it, strictly so in the sensor loop; it is positive
at the tag, without which growing could not make room; at the exit it is the
number of rows).  `WholeRows` adds `Count`: the
rows are the kept cycles of `log`, and `qKeep` says whether the samples taken so
far include one of the criteria; its two hard lemmas are that a cycle that ends
adds itself or nothing to the kept ones, and that a sensor decoded is one chance more.

The cells need a third invariant, `CellInv`, relative to `IInv`.  `Previous`:
`prevValue` of a column is the last fresh reading of its sensor, that of the
cycle at hand included.  `Filling`: the row being filled holds, for a sensor
already decoded, what this cycle said, and for the others the last word of the
cycles dropped since the row before, which is what leaks in finding 1.  `Blank`:
what lies behind that row is empty, also after growth.  `Committed`: each counted
row was ended by one kept cycle and holds the last words since the one before.
None of this holds when two written sensors share a column, so the theorems
assume `DistinctColumns`; `ColumnsDiffer` of `SensorsMapProofs` shows that
`setUpForData` makes such lists of those that name no sensor twice, and the lists
of the run `data_load` satisfy it.

**`SensorCacheProofs`**, for any number of dumpers, loaders and suffixes and any
length of the list, under `World == SuffixesDistinct /\ ~CloseMayFail`.  The run
`sensor_cache_close` shows that the second half of `World` is needed: the code
does not ensure it (finding 3).

| theorem | states |
|---|---|
| `TypesHold` | `TypeOK` |
| `NameIsWhole` | `PublishedIsWhole`: the .cac name never stands for a list cut short |
| `SuccessIsPublished` | `DumpedMeansPublished` |
| `Refinement` | `StoreSpec`: the cache implements `CacheStore` |
| `TempsHaveOwners` | `TempsAreOwned`, without `World` |

That the name stands for a whole list follows from what the rename moves, so the
invariant must say what a temporary name stands for while others run.
`OwnTemp`: a running dumper's suffix is its own and names the file it writes.
`OneName`: no file has two names, so that truncating or writing under a temporary
name cannot reach a published file.  `Complete`: what is about to be renamed is
whole, and so is what is published.  `Readers`: the file a loader reads is whole
and has no temporary name any more, so no writer can reach it; this is what makes
a replaced file harmless to its reader.  `Dumped`: success implies a published
list.  For the refinement, a step changes what `final` stands for only by
publishing (`FinalStays`), and a loader's last step gets what is published at
that moment (`LoaderGets`), even when its file was replaced since.
`TempsHaveOwners` has an invariant of its own, `OwnerInv`, which needs neither
distinct suffixes nor a close that loses nothing: two dumpers may then own one
name, and the first to fail removes it for both.

**`Dbd2netCDFProofs`**, for any number of files, records and columns, any batch
size, every command line and every schema of the output appended to.  It
assumes that the columns are finitely many, that the counts are positive, and that
the command lines are well-formed (`IsOption`).

| theorem | states |
|---|---|
| `TypeCorrect` | `TypeOK` |
| `OnlyFittingWrites` | `WritesFitTheSchema`: a value goes only to a variable of its type, along its dimension |
| `NoLateMismatch` | `MismatchStopsAtOnce`: a run that stops over the definitions has written nothing |
| `EarlierRunsStay` | `AppendKeepsEarlierRuns`: no batch and no failure touches the rows of an earlier run |
| `RowsAreTheFiles` | `OutputIsConcatenation`: the rows are those of the earlier run and of each file written to its end, in order |
| `HeadersPoint` | `HeadersOfWrittenFilesPoint`: the header row of such a file points at its rows |

A mismatch can only be met in the first batch because what the first batch
defined or found is what the later ones ask for.  `Defining` says so: while a batch
is being defined, each definition asked for is there as asked or still to be
made; from the end of the first batch on, all are there.  `Making` is its step:
what `maybeCreateDim` and `maybeCreateVar` add, and that they change nothing.
`Untouched` says what the output holds until then, from which the offsets of the
run follow (`FirstOffsets`: the longest column has the rows of the earlier run).
`Kept` is the invariant of appending: the earlier rows are there, and this run's
offsets lie behind them; that a write at such an offset leaves them alone are
the lemmas `Overwriting` and `SettingHeader`.

What the rows hold is the second invariant, `JInv`, relative to `IInv`.  `Rows`: in
every column the rows below `indexOffset` are those wanted so far, a row behind
the end of a column being as good as filled; that is what makes a file given up
on half-way harmless, since its cells lie at or behind `indexOffset` and the next
file writes over all of them.  `Written`: each write of the file at hand is made, or
still in `todo`, so that when `todo` is empty the rows of the file are complete
and `indexOffset` may pass them.  `Headers`: the header row of a file written to
its end points at rows below `indexOffset`, which no later write reaches.  The
concatenation grows by one file at that moment (`FlattenFill`).

**`DecompressTWRProofs`**, for every list of inputs, every cutting of a file into
blocks, empty, corrupt or cut ones included, every size of a read and any outputs.
It assumes that the inputs are such lists and that the read is not of size 0.

| theorem | states |
|---|---|
| `TypesHold` | `TypeOK` |
| `StreamIsTheFile` | `StreamIsConcatenation`: what was handed out and the get area are the blocks in order, and `tellg` counts the bytes handed out |
| `OutputsAreWhole` | `OutputsAreNeverPartial` |
| `SuccessDelivers` | `SuccessMeansDelivered` |
| `NoTempIsLeft` | `TempsAreRemoved` |

The heart is `Serves`, what a buffer owes its readers: it stands behind a number of
whole blocks, whose bytes were given or are in the get area, or the stream has
ended and all that can be read was given; `tellg` is right in both.  `Underflow`
and the reads keep it, whatever block comes next.  The program's invariant says
where the bytes taken are: in the temporary file or about to be written (`Beside`),
behind the inputs before this one on the standard output (`Piped`), unless a
write failed; and that a name stands for the last input so far that goes to it
(`Published`).  The end of the stream is the end of the blocks or the first
damaged one, which is why finding 5 does not contradict `OutputsAreWhole`.

**`Pd0Proofs`**, for every list of files, every sequence of sections in an
ensemble, every number of cells up to 255, every `Low` above 1 and every `ChunkSize` of
at least 1020.

| theorem | states |
|---|---|
| `TypesHold` | `TypeOK` |
| `RowsAreEnsembles` | `RowsAreTheirEnsembles`: rows and ensembles with something to write correspond in order; a row shows a section only if its own ensemble has it, with that ensemble's values |
| `CellsOfTheLeader` | `CellsAreTheLeaders` |
| `ScanFits` | `CellsFit`: no section is wider than the dimension the scan made |
| `MeldedAreOwn` | `MeldedFieldsAreOwn` |
| `HeadersTile` | `HeaderRowsTile` |
| `ChunksFitTheSize` | `ChunksAreBounded`: no chunk is empty, and none has more than `ChunkSize` cells |

The sections live on in memory from one ensemble to the next, so each property
depends on when a flag is set and reset.  `Loading`: the flags of the ensemble at
hand are those of the sections read so far, and a section whose flag is set holds
this ensemble's values, its cells those of the leader if that came before.
`Dumping`: the row being written has the sections put so far and is filled
elsewhere.  `Progress` ties the number of rows to the ensembles that deserve one:
these are counted, by the cardinality of those before, instead of listed.
`Scanned` says that all the scan saw, and any leader still in memory from an earlier
ensemble or file, is within the dimension.  `Tiles` has the header rows.

`ChunksFitTheSize` rests on `ChunksFit`, which is about `createVar` alone: whatever the
lengths and the limits of the dimensions, if one cell of each unlimited one and all
of the others fit a chunk, so does the chunk made.  `AvailableFits`: dividing by the
lengths one by one leaves what their product leaves (`DivisionOfProduct`).  `Given`: what the
first n dimensions have, times what is still to be given, is within the size; a
chunk that takes its limit leaves a quotient, and one that takes all leaves none
(`AssignGives`).  That 255 cells of four beams fit is what `SizesAssumption` says; the
code has 5000, and nothing calls the setter.

**`SensorsMapProofs`**, for every command line, every set of lists, every `-k` and
`-c`, every initial cache, and other processes publishing lists at any moment.  It
assumes that the order of the map lists each CRC once and that a list is not empty.

| theorem | states |
|---|---|
| `TypesHold` | `TypeOK` |
| `ListsAreCommon` | `KnownListsAreCommon`: every written sensor of a list of the first pass is at the common column of its name and size, also when it is handed on |
| `ColumnsInOrder` | `ColumnsFollowTheMap`: one column per name, in the order of first meeting among the known lists |
| `NamesAreThoseAsked` | `OutputIsWhatWasAsked` |
| `FullFilesAreKnown` | `OneFullFileIsEnough` |
| `ColumnsDiffer` | sensors of different names in one list have different columns (no run: it is what links the lists to `DistinctColumns`) |

The first half adds to `SharedFacts` the order of the columns.  `VisitedInOrder`: the
sensors are visited list by list in the order of the CRCs, each once (from
`FlattenPlaces`), and so `ColumnOrder`.  `KeptByName` is what the order needs of the
filters: a name decides what is kept, so the first of a name kept is the first of
that name.  The second half is the invariant of the run.  `AsRead`: until `setUpForData`
the lists are as read, all kept, and none is late.  `Placed`: from then on the lists
of the first pass, `KnownOf(map, late)`, stay as it left them, which a list met
late does not change.  `Handed`: what `Data::load` got of them is one of these.

**`Dbd2csvProofs`**, for any files (any streams of lines, broken in any way), every
command line of any number of them, any cache and every order the sort may leave.
It assumes that an open time that parses is a time_t, that the command lines are
well-formed (`IsCommand`), that a sensor line gives a name and a size, and that
the order of the map has the CRC of every file, once each.  A list in the cache may be
empty.  `CsvConcatenated` alone rests on `ListsAssumption` as well: a CRC, which is a
checksum of the list, tells the list.

| theorem | states |
|---|---|
| `TypesHold` | `TypeOK` |
| `FilesInOrder` | `FilesComeInOrder`: after the sort no file asked for is missing, none comes twice, they are in the order asked for, and each is decoded with its own size |
| `WellFormedAreRead` | `WellFormedFilesAreRead`: a file as a glider writes it is refused only for a list that nothing has, but for an empty one in the cache |
| `CsvConcatenated` | `CsvIsConcatenation`: the rows are the records of the files in their order, but those `-s` and `-A` leave out, every value under the column of its own sensor and in the order of bytes of the host |

`HeaderEnds` is the lemma on the header: if n lines come before the first sensor line
and one of the first 14 tells n, or n is 14, the loop stops behind line n.  Its
induction (`LineAfter`) has to know why the loop does not stop earlier: until the
line that tells is met the limit is 14, and that line is still to come.  `KindsInOrder`
gives the positions of the three kinds of lines; with it `WellFormedReads` shows
that the list parses, that the data is where the first pass left the stream or where
the second one skips to, and that an unfactored file brings a list of its own.  The
invariant of the run has eight parts.  `Vectors` and `Unsorted`: the three vectors
go together, and until the sort they are in the order of the command line.  `Sorted`
and `Complete`: after it they are in the order asked for, and still all there, since
an injection of 1 .. n into itself is onto (`OrdersReachAll`).  `Known`: an accepted file
that has a list, or for whose CRC the cache has one that is not empty, has one in the
map, which nothing removes.  `Excused`: a well-formed file refused was accepted and has
no list in the map; with `Known` this is the theorem.

`CsvConcatenated` has an invariant of its own on top of that one, `JInv`.  `AsRead`: in the
first pass every list in the map is as some accepted file, or the cache, gave it,
all its sensors kept.  `LaidOut`: in the second pass the sensors of a list that are kept
are those of `-k`, each at the column of its name, and no two columns have one name
(`SetUpLays`, from `ReindexedIs` and `ColumnNames`).  The rows are the flattening of those
of the files converted, which one file more extends (`FlattenExtend`).  That a row
has each value once and under its own name is `RecordIs`: the last sensor of the list
at a column is the only one there.  `FieldBytes` is the order of bytes: the known-bytes
cycle tells whether to turn each value round, and what is turned twice is as it was
(`FlippedTwice`).

Only model-checked: liveness (`DumpersPublish`, `Terminates`), which is out of the
prover's reach; and what operators that fold with a `LAMBDA` compute for every input
(`Readable` on damaged blocks beyond what `Serves` says), on the inputs of the runs.

## 6. Not modelled

* The choice `mkFilename` makes when several files of one CRC exist, `.ccc` files,
  and `safeCRC`.
* Two running dumpers that draw one suffix of 900000 (`SuffixesDistinct`).
* Two lists of one CRC: a CRC stands for its list (`ListsAssumption` of `Dbd2csv` says it
  of unfactored files, which bring theirs).  In `SensorsMap` the list of a CRC is the
  same whole one wherever it is taken from; an empty one in the cache is in `Dbd2csv`.
* What LZ4 and NetCDF do inside a call: a block is whole or not, a call succeeds or
  fails.  Compression and fill attributes are left out, and with them that the
  fill values of byte and short columns (-127, -32768) are also readings.
* A big-endian host, where `ntohs` is the identity and the known bytes of files of
  the other order are refused.
* Two fixed leaders in one PD0 ensemble, of which the scan takes the first and the
  loader the last.  An output of `decompressTWR` that is its own input; a
  temporary file that cannot be removed.
* How `toStr` prints a number, file names and their suffixes, the option parsers,
  `loadNames`, logging.
* `mkOne.py`: it starts the programs in threads and looks at no exit code; what
  its processes share is the cache, which `SensorCache` covers.
* `lz4.c` (vendored), packaging, tests.

## 7. Plan

The modules of the first plan are written: `DataLoad`, `SensorLists`, `SensorsMap`,
`SensorCache`, `Dbd2netCDF`, `Decompress` with `DecompressTWR`, `DbdFile` with
`Dbd2csv`, `Pd0`, `NetCDFSchema`; every safety invariant that a run
checks is stated by a theorem.
