----------------------------- MODULE Dbd2netCDF -----------------------------
(* The second pass of dbd2netCDF (src/src/dbd2netCDF.C:206-386): the files   *)
(* accepted by the first pass, in order and in batches, are decoded and      *)
(* appended to the output.  Data rows are shared by all columns along the    *)
(* unlimited dimension i; each file has one row of hdr_ variables along j,   *)
(* which says where its data rows are.  What Data::load does with a file is  *)
(* abstracted to the number of records it retains and whether it threw; a    *)
(* record is <<file, k>>.  Reading and writing may fail at every call.       *)
(* Each batch opens the output and defines what it needs, or finds it there, *)
(* which with --append is what another run has left.                         *)
EXTENDS NetCDFSchema

CONSTANTS
    NFiles,       \* accepted files
    MaxRecords,   \* bound: records in one file
    Columns,      \* output variables of this run
    OldColumns,   \* others that an earlier output has
    Options,      \* the command lines: see IsOption
    BaseRows,     \* data rows of the output of an earlier run, for --append
    Fill          \* a cell never written

AllColumns == Columns \cup OldColumns

VarNames == AllColumns \cup {"name", "start", "stop", "count"}
DimNames == {"i", "j", "k4"}
TypeNames == {"int8", "int16", "float", "double", "uint", "string"}
IsSchema(s) ==
    /\ s = [dims |-> s.dims, vars |-> s.vars, atts |-> s.atts]
    /\ DOMAIN s.dims \subseteq DimNames /\ s.dims \in [DOMAIN s.dims -> Nat]
    /\ DOMAIN s.vars \subseteq VarNames
    /\ s.vars \in [DOMAIN s.vars -> [type: TypeNames, dims: Seq(DimNames)]]
    /\ s.atts \in BOOLEAN

\* `base` is the schema of what is there under the output's name, NewFile for
\* nothing; `size` the size of each sensor in bytes.
IsOption(o) ==
    /\ DOMAIN o = {"append", "skip", "strict", "batch", "size", "base"}
    /\ o.append \in BOOLEAN /\ o.strict \in BOOLEAN /\ o.batch \in Nat
    /\ o.skip \in {"no", "first", "all"}
    /\ o.size \in [Columns -> Nat]
    /\ IsSchema(o.base)

ASSUME ColumnsAssumption == IsFiniteSet(Columns)
ASSUME FilesAssumption == NFiles \in Nat \ {0}
ASSUME OptionsAssumption == \A o \in Options : IsOption(o)
ASSUME RowsAssumption == MaxRecords \in Nat \ {0} /\ BaseRows \in Nat \ {0}

Files == 1 .. NFiles
NoHeader == [name |-> Fill, start |-> Fill, stop |-> Fill, count |-> Fill]

\* The earlier run converted one file, called 0.
BaseRecords == [k \in 1 .. BaseRows |-> <<0, k - 1>>]
BaseHeaders == <<[name |-> 0, start |-> 0, stop |-> BaseRows - 1, count |-> BaseRows]>>

VARIABLES
    opt,          \* the options
    pc,           \* where the run is; exits: "done", "refused" (1), "failed" (2)
    schema,       \* the definitions of the output
    defs,         \* the definitions the batch still has to make
    column,       \* column -> the cells along i
    hdr,          \* the hdr_ variables along j
    indexOffset,  \* the next data row
    jOffset,      \* header rows of earlier runs
    ii,           \* the file at hand
    batchStart,   \* the first file of the batch
    todo,         \* the writes of the file at hand still to be made
    n, kStart,    \* its records, and how many of them are skipped
    result        \* file -> the records it retained, when its writes all
                  \* succeeded: what the properties compare the output with

vars == <<opt, pc, schema, defs, column, hdr, indexOffset, jOffset, ii, batchStart,
          todo, n, kStart, result>>

output == <<schema, column, hdr>>
place == <<indexOffset, jOffset>>
current == <<todo, n, kStart>>

\* The output of the earlier run has rows in the columns it knew.
BaseColumn(c) == IF c \in DOMAIN opt.base.vars THEN BaseRecords ELSE << >>

Init ==
    /\ opt \in Options
    /\ pc = "open"
    /\ schema = opt.base
    /\ defs = << >>
    /\ column = [c \in AllColumns |-> BaseColumn(c)]
    /\ hdr = IF opt.base = NewFile THEN << >> ELSE BaseHeaders
    /\ indexOffset = 0 /\ jOffset = 0
    /\ ii = 1 /\ batchStart = 1
    /\ todo = << >> /\ n = 0 /\ kStart = 0
    /\ result = [j \in Files |-> 0]

-----------------------------------------------------------------------------
(* A batch *)

\* Batch size 0 means all files at once.
FilesPerBatchRaw == opt.batch
FilesPerBatch == IF opt.batch > 0 THEN opt.batch ELSE NFiles
BatchEnd == LET e == batchStart + FilesPerBatch
            IN  IF e < NFiles + 1 THEN e ELSE NFiles + 1

Longest(m) == Max({0} \cup {Len(m[c]) : c \in DOMAIN m})

\* NetCDF opens the output to append or in a later batch, if it is there, and
\* replaces it otherwise.
ReopenOnlyToAppend == opt.append /\ schema # NewFile
Reopen == (opt.append \/ batchStart > 1) /\ schema # NewFile

\* The columns by the size of their sensors.
TypeOf(size) ==
    CASE size = 1 -> "int8" [] size = 2 -> "int16" [] size = 4 -> "float" [] size = 8 -> "double"
      [] OTHER -> "none"

ColumnDef(c) == [name |-> c, type |-> TypeOf(opt.size[c]), dim |-> "i"]
HeaderDef(name, type) == [name |-> name, type |-> type, dim |-> "j"]
Definitions ==
    <<[name |-> "i", type |-> "dim", dim |-> "i"], [name |-> "j", type |-> "dim", dim |-> "j"]>>
    \o [k \in DOMAIN SetToSeq(Columns) |-> ColumnDef(SetToSeq(Columns)[k])]
    \o <<HeaderDef("name", "string"), HeaderDef("start", "uint"), HeaderDef("stop", "uint"),
         HeaderDef("count", "uint")>>

OpenBatch ==
    /\ pc = "open"
    /\ schema' = [(IF Reopen THEN schema ELSE NewFile) EXCEPT
                    !.atts = @ \/ (batchStart = 1 /\ ~opt.append)]
    /\ column' = IF Reopen THEN column ELSE [c \in AllColumns |-> << >>]
    /\ hdr' = IF Reopen THEN hdr ELSE << >>
    /\ defs' = Definitions
    /\ pc' = "define"
    /\ UNCHANGED <<opt, place, ii, batchStart, current, result>>

Refused(d) ==
    IF d.type = "dim" THEN DimRefused(schema, d.name)
    ELSE d.type # "none" /\ VarRefused(schema, d.name, d.type, d.dim)

\* maybeCreateDim and maybeCreateVar, in the order of the code.
Define ==
    /\ pc = "define"
    /\ defs # << >>
    /\ LET d == Head(defs)
       IN  /\ d.type # "none" /\ ~Refused(d)
           /\ schema' = IF d.type = "dim" THEN MaybeCreateDim(schema, d.name)
                        ELSE MaybeCreateVar(schema, d.name, d.type, d.dim)
    /\ defs' = Tail(defs)
    /\ UNCHANGED <<opt, pc, column, hdr, place, ii, batchStart, current, result>>

\* A size no type stands for ends the run with 1, a definition that does not
\* fit what is there with 2; those made before it stay.
DefineStops ==
    /\ pc = "define"
    /\ defs # << >>
    /\ \/ Head(defs).type = "none" /\ pc' = "badsize"
       \/ Refused(Head(defs)) /\ pc' = "mismatch"
    /\ UNCHANGED <<opt, output, defs, place, ii, batchStart, current, result>>

\* The first batch decides where this run's rows go.
OffsetsEveryBatch ==
    /\ indexOffset' = IF opt.append THEN Longest(column) ELSE 0
    /\ jOffset' = IF opt.append THEN Len(hdr) ELSE 0
Offsets ==
    IF batchStart = 1
    THEN /\ indexOffset' = IF opt.append THEN Longest(column) ELSE 0
         /\ jOffset' = IF opt.append THEN Len(hdr) ELSE 0
    ELSE UNCHANGED place

Defined ==
    /\ pc = "define"
    /\ defs = << >>
    /\ Offsets
    /\ pc' = "file"
    /\ UNCHANGED <<opt, output, defs, ii, batchStart, current, result>>

\* The loop over the files of a batch ends: close and go on, or end.
CloseBatch ==
    /\ pc = "file"
    /\ ii >= BatchEnd
    /\ batchStart' = batchStart + FilesPerBatch
    /\ pc' = IF batchStart' <= NFiles THEN "open" ELSE "done"
    /\ UNCHANGED <<opt, defs, output, place, ii, current, result>>

\* Opening the output, making its variables, or closing it fails: exit 2, in
\* strict mode or not.  So does, with exit 1 or 2, an input that cannot be
\* opened, or whose header no longer parses: both are outside the inner try.
Fatal ==
    /\ pc \in {"open", "define", "file"}
    /\ pc' = "failed"
    /\ UNCHANGED <<opt, defs, output, place, ii, batchStart, current, result>>

-----------------------------------------------------------------------------
(* A file *)

InFile == pc = "file" /\ ii < BatchEnd

NextFile == ii' = ii + 1

\* -s skips the first record of every file but the first, -A of every file.
SkippedInBatch ==
    CASE opt.skip = "all" -> 1
      [] opt.skip = "first" -> IF ii = batchStart THEN 0 ELSE 1
      [] OTHER -> 0
Skipped ==
    CASE opt.skip = "all" -> 1
      [] opt.skip = "first" -> IF ii = 1 THEN 0 ELSE 1
      [] OTHER -> 0

\* A file error: the end in strict mode, the next file otherwise.  The writes
\* already made stay, and indexOffset does not move.
GiveUp ==
    /\ IF opt.strict THEN pc' = "refused" /\ UNCHANGED ii
                     ELSE pc' = "file" /\ NextFile
    /\ todo' = << >> /\ n' = 0 /\ kStart' = 0

\* No list for its CRC, or no known-bytes cycle: the file is given up.
Unreadable ==
    /\ InFile
    /\ GiveUp
    /\ UNCHANGED <<opt, defs, output, place, batchStart, result>>

\* The decoder threw, in strict mode.
LoadThrows ==
    /\ InFile
    /\ opt.strict
    /\ pc' = "refused"
    /\ UNCHANGED <<opt, defs, output, place, ii, batchStart, current, result>>

\* No record retained: no header row either, a gap along j.
LoadEmpty ==
    /\ InFile
    /\ NextFile
    /\ UNCHANGED <<opt, pc, defs, output, place, batchStart, current, result>>

\* The writes a file asks for: its header row, then column after column.
Writes(m, skip) ==
    <<"name">> \o (IF m > skip THEN <<"start", "stop">> ELSE << >>) \o <<"count">>
    \o (IF m > skip THEN SetToSeq(Columns) ELSE << >>)

\* Some records, all of them or those before a corrupt cycle.
LoadRecords ==
    /\ InFile
    /\ n' \in 1 .. MaxRecords
    /\ kStart' = Skipped
    /\ todo' = Writes(n', Skipped)
    /\ pc' = "write"
    /\ UNCHANGED <<opt, defs, output, place, ii, batchStart, result>>

\* Writing past the end of an unlimited dimension fills the gap.
Extend(s, len, v) == [k \in 1 .. (IF Len(s) < len THEN len ELSE Len(s)) |->
                        IF k <= Len(s) THEN s[k] ELSE v]
Overwrite(s, offset, t) ==
    [k \in DOMAIN Extend(s, offset + Len(t), Fill) |->
        IF offset < k /\ k <= offset + Len(t) THEN t[k - offset]
        ELSE Extend(s, offset + Len(t), Fill)[k]]

SetHeaderUnshifted(field, v) ==
    hdr' = [Extend(hdr, ii, NoHeader) EXCEPT ![ii][field] = v]
SetHeader(field, v) ==
    hdr' = [Extend(hdr, ii + jOffset, NoHeader) EXCEPT ![ii + jOffset][field] = v]

Records == [k \in 1 .. n - kStart |-> <<ii, kStart + k - 1>>]

\* putVar and putVara, in the order of the code; start and stop are unsigned
\* 32-bit row numbers, far from their limit here.
Write ==
    /\ pc = "write"
    /\ todo # << >>
    /\ LET w == Head(todo)
       IN  IF w \in Columns
           THEN /\ column' = [column EXCEPT ![w] = Overwrite(@, indexOffset, Records)]
                /\ UNCHANGED hdr
           ELSE /\ SetHeader(w, CASE w = "name"  -> ii
                                  [] w = "start" -> indexOffset
                                  [] w = "stop"  -> indexOffset + n - kStart - 1
                                  [] w = "count" -> n - kStart)
                /\ UNCHANGED column
    /\ todo' = Tail(todo)
    /\ UNCHANGED <<opt, pc, schema, defs, place, ii, batchStart, n, kStart, result>>

WriteFails ==
    /\ pc = "write"
    /\ todo # << >>
    /\ GiveUp
    /\ UNCHANGED <<opt, defs, output, place, batchStart, result>>

\* All written: the next file starts behind this one's rows.
Advance ==
    /\ pc = "write"
    /\ todo = << >>
    /\ indexOffset' = indexOffset + (n - kStart)
    /\ result' = [result EXCEPT ![ii] = n]
    /\ pc' = "file"
    /\ NextFile
    /\ n' = 0 /\ kStart' = 0
    /\ UNCHANGED <<opt, defs, output, jOffset, batchStart, todo>>

-----------------------------------------------------------------------------

Exited == pc \in {"done", "refused", "failed", "badsize", "mismatch"}
Stay == Exited /\ UNCHANGED vars

Next ==
    \/ OpenBatch \/ Define \/ DefineStops \/ Defined \/ CloseBatch \/ Fatal
    \/ Unreadable \/ LoadThrows \/ LoadEmpty \/ LoadRecords
    \/ Write \/ WriteFails \/ Advance
    \/ Stay

Spec == Init /\ [][Next]_vars

\* One thread, which the system keeps running.
FairSpec == Spec /\ WF_vars(Next)

-----------------------------------------------------------------------------
(* Properties *)

Cell == {<<j, k>> : j \in 0 .. NFiles, k \in 0 .. MaxRecords + BaseRows} \cup {Fill}

\* The types of the run's state (dbd2netCDF.C:206-376).
TypeOK ==
    /\ opt \in Options
    /\ pc \in {"open", "define", "file", "write", "done", "refused", "failed", "badsize", "mismatch"}
    /\ IsSchema(schema)
    /\ \A c \in AllColumns : \A r \in DOMAIN column[c] : column[c][r] \in Cell
    /\ \A j \in DOMAIN hdr : DOMAIN hdr[j] = {"name", "start", "stop", "count"}
    /\ indexOffset \in Nat /\ jOffset \in 0 .. 1
    /\ ii \in 1 .. NFiles + 1 /\ batchStart \in Nat
    /\ n \in 0 .. MaxRecords /\ kStart \in 0 .. 1 /\ kStart <= n + 1
    /\ result \in [Files -> 0 .. MaxRecords]

\* The records the options ask of a file that retained m of them, from the
\* manual: -A drops the first of every file, -s of every file but the first.
Wanted(j) ==
    LET drop == IF opt.skip = "all" \/ (opt.skip = "first" /\ j # 1) THEN 1 ELSE 0
        m == result[j] - drop
    IN  [k \in 1 .. (IF m > 0 THEN m ELSE 0) |-> <<j, drop + k - 1>>]

\* What the rows before this run's show: the records of the earlier run, or
\* nothing in a column that is new.  An earlier run without a column left none.
Appends == opt.append /\ opt.base # NewFile
EarlierRows ==
    IF Appends /\ \E c \in AllColumns : c \in DOMAIN opt.base.vars THEN BaseRows ELSE 0
Before(c) ==
    [k \in 1 .. EarlierRows |-> IF c \in DOMAIN opt.base.vars THEN BaseRecords[k] ELSE Fill]
WantedRows(c) == Before(c) \o FlattenSeq([j \in Files |-> Wanted(j)])

\* Whatever the batches and the failures, the rows before indexOffset are, in
\* every column alike, the rows of the earlier run and then the wanted records
\* of each file that was written to its end, in order, none lost, repeated or
\* overwritten: at the exit of strict mode too (dbd2netCDF.C:287-376).
OutputIsConcatenation ==
    pc \in {"file", "write", "refused", "done"} =>
        \A c \in Columns :
            /\ indexOffset = Len(WantedRows(c))
            /\ Extend(column[c], indexOffset, Fill) = WantedRows(c) \o
                 SubSeq(column[c], indexOffset + 1, Len(column[c]))

\* The rows a header row points at are the records of its file, in every column.
PointsAtItsRows(h) ==
    h.count \notin {Fill, 0} =>
        /\ h.stop - h.start + 1 = h.count
        /\ \A c \in Columns : \A r \in h.start .. h.stop :
              r + 1 <= Len(column[c]) /\ column[c][r + 1][1] = h.name

\* The header row of a file written to its end points at that file's rows,
\* and stays so whatever fails later (dbd2netCDF.C:323-363).
HeadersOfWrittenFilesPoint ==
    pc \in {"file", "write", "refused", "done"} =>
        \A j \in Files : result[j] > 0 =>
            /\ j + jOffset <= Len(hdr)
            /\ LET h == hdr[j + jOffset]
               IN  h.name = j /\ h.count = Len(Wanted(j)) /\ PointsAtItsRows(h)

\* A file given up on leaves no header row that points into another file's
\* rows: "Catch my exceptions, where I toss the whole file" (dbd2netCDF.C:366).
TossedFilesAreTossed ==
    pc \in {"file", "done"} => \A j \in DOMAIN hdr : PointsAtItsRows(hdr[j])

\* Appending never touches what the earlier runs left (dbd2netCDF.C:243, 288-289).
AppendKeepsEarlierRuns ==
    Appends =>
        /\ hdr[1] = BaseHeaders[1]
        /\ \A c \in AllColumns : c \in DOMAIN opt.base.vars =>
              SubSeq(column[c], 1, BaseRows) = BaseRecords

\* Whatever is there under the output's name, a value is written only to a
\* variable of the type and along the dimension its sensor calls for
\* (MyNetCDF.C:77-103, 139-191, dbd2netCDF.C:252-285).
WritesFitTheSchema ==
    pc \in {"file", "write", "done"} =>
        /\ schema.dims["i"] = 0 /\ schema.dims["j"] = 0
        /\ \A c \in Columns :
              schema.vars[c] = [type |-> TypeOf(opt.size[c]), dims |-> <<"i">>]
        /\ \A v \in {"name", "start", "stop", "count"} : schema.vars[v].dims = <<"j">>

\* A run that stops over the definitions does so before it has written a row,
\* in its first batch, and the rows of the earlier runs are as they were
\* (MyNetCDF.C:149-186, dbd2netCDF.C:240-290).
MismatchStopsAtOnce ==
    pc \in {"mismatch", "badsize"} =>
        /\ batchStart = 1 /\ \A j \in Files : result[j] = 0
        /\ Appends => hdr = BaseHeaders /\ column = [c \in AllColumns |-> BaseColumn(c)]

\* The run comes to an end for every batch size, 0 included
\* (dbd2netCDF.C:237-241).
Terminates == <>Exited

=============================================================================
