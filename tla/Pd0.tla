-------------------------------- MODULE Pd0 --------------------------------
(* pd02netCDF: the reader of ADCP files (src/src/PD0.C) and its driver       *)
(* (src/src/pd02netCDF.C).  A first scan of all the files finds the largest  *)
(* number of depth cells, which sizes the output; then each file is read     *)
(* ensemble by ensemble, and each ensemble is written as one row.  The       *)
(* sections of an ensemble live in one PD0 object for the whole run: only    *)
(* their flags are cleared, so what an earlier ensemble, or an earlier file, *)
(* left in them is there to be used.                                         *)
EXTENDS NetCDFSchema

CONSTANTS
    Inputs,     \* the command lines: see FileShape
    Low,        \* the values of a 16-bit field
    ChunkSize,  \* mChunkSize
    Fill        \* a cell never written

\* The sections, in the order dumpBlock writes them; Cellwise are sized by the
\* number of depth cells, Melded have a field widened by a byte of its own.
Order == <<"fixed", "variable", "velocity", "correlation", "echo",
           "percent_good", "bottom_track", "vmdas">>
Sections == ToSet(Order)
Cellwise == {"velocity", "correlation", "echo", "percent_good"}
Melded == {"variable", "bottom_track"}

\* An ensemble: the types of its sections in the order of its offset table,
\* the cells its fixed leader declares, and the two parts of the melded field.
EnsembleShape == [types: Seq(Sections \cup {"other"}), cells: 0 .. 255,
                  low: 0 .. Low - 1, msb: 0 .. Low - 1]
\* How a file ends: at an ensemble boundary; at a byte that starts no ensemble;
\* inside the body of one; with one whose size, checksum or sections are wrong
\* or cut.  `scanned` is the cells the scan finds in what is not an ensemble.
Ends == {"boundary", "other", "body", "bad"}
FileShape == [ensembles: Seq(EnsembleShape), end: Ends, scanned: 0 .. 255]

ASSUME InputsAssumption == Inputs \subseteq Seq(FileShape)
\* mChunkSize is 5000, and nothing calls its setter: a row of the widest
\* ensemble, of 255 cells of four beams, fits a chunk.
ASSUME SizesAssumption ==
    Low \in Nat \ {0, 1} /\ ChunkSize \in Nat /\ ChunkSize >= 4 * 255

\* What a section holds: the ensemble it was read from, and its cells or the
\* value of its melded field.
ValueShape == [of: Nat \X Nat, n: Nat]
ASSUME FillAssumption == Fill \notin ValueShape

VARIABLES
    input,      \* the files
    pc,         \* where the run is; exits: "done", "failed" (2)
    f, e,       \* the file and the ensemble at hand
    maxCells,   \* mMaxNumberOfCells
    schema,     \* the definitions of the output
    chunks,     \* the chunk sizes of its multidimensional variables
    value,      \* section -> what was last read into it
    qSet,       \* section -> mqSet
    k,          \* the next type to dispatch, or the next section to dump
    out,        \* the rows of the output: section -> what was written, or Fill
    index,      \* the row of the ensemble at hand
    sIndex,     \* the row of the first ensemble of the file
    hdr         \* the hdr_ variables along h

vars == <<input, pc, f, e, maxCells, schema, chunks, value, qSet, k, out, index, sIndex, hdr>>

scan == <<maxCells, schema, chunks>>
rows == <<out, index, sIndex>>
NoFlags == [s \in Sections |-> FALSE]

Init ==
    /\ input \in Inputs
    /\ pc = "scan"
    /\ f = 1 /\ e = 1 /\ k = 1
    /\ maxCells = 0
    /\ schema = NewFile /\ chunks = << >>
    /\ value = [s \in Sections |-> [of |-> <<0, 0>>, n |-> 0]]
    /\ qSet = NoFlags
    /\ out = << >> /\ index = 0 /\ sIndex = 0 /\ hdr = << >>

File == input[f]
Ensemble == File.ensembles[e]

-----------------------------------------------------------------------------
(* The scan *)

Greater(a, b) == IF a >= b THEN a ELSE b

\* maxNumberOfCells: the fixed leader of each ensemble counts, whatever its
\* checksum.  An ensemble has at most one here; of two, only the first would
\* count, and the last be used.
HasLeader(ens) == "fixed" \in ToSet(ens.types)
LeaderCells(file) ==
    {file.ensembles[j].cells : j \in {i \in DOMAIN file.ensembles : HasLeader(file.ensembles[i])}}
FirstNumberOfCells(file) ==
    LET S == SelectSeq(file.ensembles, HasLeader)
    IN  IF S = << >> THEN file.scanned ELSE S[1].cells
MaxNumberOfCells(file) == Max(LeaderCells(file) \cup {file.scanned})

ScanFile ==
    /\ pc = "scan"
    /\ f <= Len(input)
    /\ maxCells' = Greater(maxCells, MaxNumberOfCells(File))
    /\ f' = f + 1
    /\ UNCHANGED <<input, pc, e, schema, chunks, value, qSet, k, rows, hdr>>

-----------------------------------------------------------------------------
(* The output *)

\* setupNetCDFVars: j is fixed at the largest number of cells, or unlimited if
\* no leader was found.
Dimensions == [h |-> 0, i |-> 0, j |-> maxCells, k4 |-> 4, k8 |-> 8]

\* One variable of each shape: of the header, of scalar items, of items with
\* several values, and of the sections with cells.
Variables ==
    [hdr |-> <<"h">>, scalar |-> <<"i">>, spare |-> <<"i", "k8">>,
     beams |-> <<"i", "k4">>, cells |-> <<"i", "j", "k4">>]

\* mDimensionLimits: the length of a fixed one, 128 for j when it is unlimited.
Limit(d) == IF d = "j" /\ Dimensions[d] = 0 THEN 128 ELSE Dimensions[d]
ChunksOf(dims) ==
    Chunks([d \in DOMAIN dims |-> Dimensions[dims[d]]],
           [d \in DOMAIN dims |-> Limit(dims[d])], ChunkSize)

SetUp ==
    /\ pc = "scan"
    /\ f > Len(input)
    /\ schema' = [dims |-> Dimensions, atts |-> FALSE,
                  vars |-> [v \in DOMAIN Variables |->
                              [type |-> "number", dims |-> Variables[v]]]]
    /\ chunks' = [v \in DOMAIN Variables |-> ChunksOf(Variables[v])]
    /\ f' = 1
    /\ pc' = "file"
    /\ UNCHANGED <<input, e, maxCells, value, qSet, k, rows, hdr>>

-----------------------------------------------------------------------------
(* loadBlock *)

\* load by filename clears the flags; reading starts at the first ensemble.
OpenFile ==
    /\ pc = "file"
    /\ f <= Len(input)
    /\ qSet' = NoFlags
    /\ sIndex' = index
    /\ e' = 1
    /\ pc' = "header"
    /\ UNCHANGED <<input, f, scan, value, k, out, index, hdr>>

\* The header, body and checksum of a whole ensemble: the flags are cleared
\* again, the values are not.
BeginEnsembleUncleared ==
    /\ pc = "header"
    /\ e <= Len(File.ensembles)
    /\ k' = 1
    /\ pc' = "sections"
    /\ UNCHANGED <<input, f, e, scan, value, qSet, rows, hdr>>
BeginEnsemble ==
    /\ pc = "header"
    /\ e <= Len(File.ensembles)
    /\ qSet' = NoFlags
    /\ k' = 1
    /\ pc' = "sections"
    /\ UNCHANGED <<input, f, e, scan, value, rows, hdr>>

\* The number of cells is that of the fixed leader last read.
CellsNow == value["fixed"].n

\* The narrow field is read over the low half of its union, and the byte that
\* widens it replaces the high half.
MeldUnmasked(union, low, msb) == ((union \div Low) * Low + low) + msb * Low
Meld(union, low, msb) == (((union \div Low) * Low + low) % Low) + msb * Low

LoadedGrowing(s) ==
    [of |-> <<f, e>>,
     n |-> CASE s = "fixed"    -> Ensemble.cells
             [] s \in Cellwise -> Greater(value[s].n, CellsNow)
             [] s \in Melded   -> Meld(value[s].n, Ensemble.low, Ensemble.msb)
             [] OTHER          -> 0]
Loaded(s) ==
    [of |-> <<f, e>>,
     n |-> CASE s = "fixed"    -> Ensemble.cells
             [] s \in Cellwise -> CellsNow
             [] s \in Melded   -> Meld(value[s].n, Ensemble.low, Ensemble.msb)
             [] OTHER          -> 0]

\* One entry of the offset table; a type that is not supported is warned of.
LoadSection ==
    /\ pc = "sections"
    /\ k <= Len(Ensemble.types)
    /\ LET s == Ensemble.types[k]
       IN  IF s \in Sections
           THEN value' = [value EXCEPT ![s] = Loaded(s)] /\ qSet' = [qSet EXCEPT ![s] = TRUE]
           ELSE UNCHANGED <<value, qSet>>
    /\ k' = k + 1
    /\ UNCHANGED <<input, pc, f, e, scan, rows, hdr>>

SectionsLoaded ==
    /\ pc = "sections"
    /\ k > Len(Ensemble.types)
    /\ k' = 1
    /\ pc' = "dump"
    /\ UNCHANGED <<input, f, e, scan, value, qSet, rows, hdr>>

\* The end of the file, a byte that starts no ensemble, and a body cut short
\* end the file quietly.
EndOfEnsembles ==
    /\ pc = "header"
    /\ e > Len(File.ensembles)
    /\ File.end # "bad"
    /\ pc' = "close"
    /\ UNCHANGED <<input, f, e, scan, value, qSet, k, rows, hdr>>

\* A bad header, checksum or section throws, and what that ensemble left in
\* memory dies with the run; so may opening a file, and defining or closing
\* the output.
Throws ==
    /\ \/ pc = "header" /\ e > Len(File.ensembles) /\ File.end = "bad"
       \/ pc \in {"scan", "file"}
    /\ pc' = "failed"
    /\ UNCHANGED <<input, f, e, scan, value, qSet, k, rows, hdr>>

-----------------------------------------------------------------------------
(* dumpBlock *)

\* NetCDF refuses a write past the end of a fixed dimension, and writes
\* nothing for a section of no cells.
TooWide(s) == s \in Cellwise /\ schema.dims["j"] # 0 /\ value[s].n > schema.dims["j"]
NothingToPut(s) == ~qSet[s] \/ (s \in Cellwise /\ value[s].n = 0)

NoRow == [s \in Sections |-> Fill]
Row(r) == IF r <= Len(out) THEN out[r] ELSE NoRow
PutSection(s) ==
    out' = [r \in 1 .. index + 1 |->
              IF r = index + 1 THEN [Row(r) EXCEPT ![s] = value[s]] ELSE Row(r)]

DumpSection ==
    /\ pc = "dump"
    /\ k <= Len(Order)
    /\ IF NothingToPut(Order[k]) THEN UNCHANGED out
       ELSE ~TooWide(Order[k]) /\ PutSection(Order[k])
    /\ k' = k + 1
    /\ UNCHANGED <<input, pc, f, e, scan, value, qSet, index, sIndex, hdr>>

\* The write is refused, or fails for any other reason: exit 2.
DumpFails ==
    /\ pc = "dump"
    /\ k <= Len(Order)
    /\ qSet[Order[k]]
    /\ pc' = "failed"
    /\ UNCHANGED <<input, f, e, scan, value, qSet, k, rows, hdr>>

\* The row counts if any section was there.
EnsembleDumped ==
    /\ pc = "dump"
    /\ k > Len(Order)
    /\ index' = IF \E s \in Sections : qSet[s] THEN index + 1 ELSE index
    /\ e' = e + 1
    /\ pc' = "header"
    /\ UNCHANGED <<input, f, scan, value, qSet, k, out, sIndex, hdr>>

-----------------------------------------------------------------------------
(* The end of a file *)

\* A file with a row gets a header row, at the next position of its own.
CloseFileByPosition ==
    /\ pc = "close"
    /\ hdr' = IF index = sIndex THEN hdr
              ELSE Append(hdr, [file |-> f, start |-> sIndex, stop |-> index])
    /\ f' = f + 1
    /\ pc' = "file"
    /\ UNCHANGED <<input, e, scan, value, qSet, k, rows>>
CloseFile ==
    /\ pc = "close"
    /\ hdr' = IF index = sIndex THEN hdr
              ELSE Append(hdr, [file |-> f, start |-> sIndex, stop |-> index - 1])
    /\ f' = f + 1
    /\ pc' = "file"
    /\ UNCHANGED <<input, e, scan, value, qSet, k, rows>>

Finish ==
    /\ pc = "file"
    /\ f > Len(input)
    /\ pc' = "done"
    /\ UNCHANGED <<input, f, e, scan, value, qSet, k, rows, hdr>>

Exited == pc \in {"done", "failed"}
Stay == Exited /\ UNCHANGED vars

Next ==
    \/ ScanFile \/ SetUp
    \/ OpenFile \/ BeginEnsemble \/ LoadSection \/ SectionsLoaded \/ EndOfEnsembles \/ Throws
    \/ DumpSection \/ DumpFails \/ EnsembleDumped
    \/ CloseFile \/ Finish \/ Stay

Spec == Init /\ [][Next]_vars

-----------------------------------------------------------------------------
(* Properties *)

HeaderShape == [file: Nat, start: Nat, stop: Nat]

\* The types of the run's state (PD0.H:26-135, pd02netCDF.C:62-100).
TypeOK ==
    /\ input \in Inputs
    /\ pc \in {"scan", "file", "header", "sections", "dump", "close", "done", "failed"}
    /\ f \in 1 .. Len(input) + 1
    /\ maxCells \in 0 .. 255
    /\ value \in [Sections -> ValueShape]
    /\ \A s \in Melded : value[s].n < Low * Low
    /\ qSet \in [Sections -> BOOLEAN]
    /\ k \in Nat /\ e \in Nat
    /\ out \in Seq([Sections -> ValueShape \cup {Fill}])
    /\ index \in Nat /\ sIndex \in 0 .. index
    /\ hdr \in Seq(HeaderShape)

\* The ensembles that deserve a row, in the order of the files.
Deserves(ens) == ToSet(ens.types) \cap Sections # {}
Deserving ==
    UNION {{j} \X {i \in DOMAIN input[j].ensembles : Deserves(input[j].ensembles[i])} :
              j \in DOMAIN input}
Precedes(q, p) == q[1] < p[1] \/ (q[1] = p[1] /\ q[2] < p[2])
Earlier(p) == {q \in Deserving : Precedes(q, p)}
Wanted ==
    [r \in 1 .. Cardinality(Deserving) |->
        CHOOSE p \in Deserving : Cardinality(Earlier(p)) = r - 1]
EnsembleAt(r) == input[Wanted[r][1]].ensembles[Wanted[r][2]]

\* Each row is one ensemble, in order and without a gap: it shows a section only
\* if its own ensemble has it, with the values of that ensemble, although the
\* sections live on from one ensemble and one file to the next; and a run that
\* ends well has a row for each (PD0.C:111-122, 183-230).
RowsAreTheirEnsembles ==
    /\ index <= Len(Wanted)
    /\ pc = "done" => index = Len(Wanted)
    /\ \A r \in 1 .. index : \A s \in Sections :
          IF s \in ToSet(EnsembleAt(r).types)
          THEN IF Row(r)[s] = Fill THEN s \in Cellwise ELSE Row(r)[s].of = Wanted[r]
          ELSE Row(r)[s] = Fill

Position(ens, s) == CHOOSE i \in DOMAIN ens.types : ens.types[i] = s
LeaderBefore(ens, s) ==
    {"fixed", s} \subseteq ToSet(ens.types) /\ Position(ens, "fixed") < Position(ens, s)

\* A section with cells that comes behind the fixed leader of its ensemble is
\* decoded and written with the number of cells of that leader, whatever the
\* ensembles before it had (PD0.C:599-610).
CellsAreTheLeaders ==
    \A r \in 1 .. index : \A s \in Cellwise :
        LeaderBefore(EnsembleAt(r), s) =>
            LET cells == EnsembleAt(r).cells
            IN  IF cells = 0 THEN Row(r)[s] = Fill ELSE Row(r)[s].n = cells

\* The scan and the decoder agree: no section is wider than the dimension the
\* scan gave it, also when it is read with a leader of an earlier ensemble or
\* file (PD0.C:753-807, pd02netCDF.C:63-79).
CellsFit == pc = "dump" => \A s \in Sections : qSet[s] => ~TooWide(s)

\* A field of 24 bits is put together from the two parts of the ensemble it was
\* read in: what an earlier one left in the union is gone (PD0.C:335-379).
MeldedFieldsAreOwn ==
    \A r \in 1 .. index : \A s \in Melded : Row(r)[s] # Fill =>
        LET own == input[Row(r)[s].of[1]].ensembles[Row(r)[s].of[2]]
        IN  Row(r)[s].n = own.msb * Low + own.low

\* The header rows tile the rows of the files finished, each with the rows of
\* its file, and a file without rows has none (pd02netCDF.C:84-100).
HeaderRowsTile ==
    pc \in {"file", "done"} =>
        /\ \A j \in DOMAIN hdr :
              /\ hdr[j].start = IF j = 1 THEN 0 ELSE hdr[j - 1].stop + 1
              /\ hdr[j].stop >= hdr[j].start
              /\ \A r \in hdr[j].start .. hdr[j].stop :
                    r < Len(Wanted) /\ Wanted[r + 1][1] = hdr[j].file
        /\ index = IF hdr = << >> THEN 0 ELSE hdr[Len(hdr)].stop + 1

Product(s) ==
    LET product[n \in 0 .. Len(s)] ==
            IF n = 0 THEN 1 ELSE product[n - 1] * s[Len(s) + 1 - n]
    IN  product[Len(s)]

\* The chunk of a variable is never empty and never more than ChunkSize cells,
\* whatever number of cells the scan found (MyNetCDF.C:215-280).
ChunksAreBounded ==
    \A v \in DOMAIN chunks :
        /\ \A d \in DOMAIN chunks[v] : chunks[v][d] >= 1
        /\ Product(chunks[v]) <= ChunkSize
=============================================================================
