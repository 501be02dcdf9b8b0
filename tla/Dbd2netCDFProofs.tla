-------------------------- MODULE Dbd2netCDFProofs --------------------------
(* For any number of files, records and columns, any batch size and any      *)
(* output to append to: the rows are those of the earlier runs, never        *)
(* touched, and then the wanted records of each file written to its end, in  *)
(* order; its header row points at exactly them; a value is written only to  *)
(* a variable of its type; and a run that stops over the definitions stops   *)
(* before it has written a row.  IInv is the invariant of the definitions    *)
(* and of the earlier rows, JInv, relative to it, that of this run's rows.   *)
EXTENDS Dbd2netCDF, SharedFacts, FiniteSetTheorems, TLAPS

HeaderFields == {"name", "start", "stop", "count"}
HeaderRow == [name: Nat \cup {Fill}, start: Nat \cup {Fill},
              stop: Int \cup {Fill}, count: Int \cup {Fill}]

\* The definitions a batch asks for, as a set.
DimDefs == {[name |-> d, type |-> "dim", dim |-> d] : d \in {"i", "j"}}
HeaderDefs == {HeaderDef("name", "string"), HeaderDef("start", "uint"),
               HeaderDef("stop", "uint"), HeaderDef("count", "uint")}
VarDefs == {ColumnDef(c) : c \in Columns} \cup HeaderDefs
AskedDefs == DimDefs \cup VarDefs

\* A definition is there, as it was asked for.
Fits(d) ==
    /\ d.type # "none"
    /\ IF d.type = "dim" THEN d.name \in DOMAIN schema.dims /\ schema.dims[d.name] = 0
       ELSE d.name \in DOMAIN schema.vars /\ schema.vars[d.name] = [type |-> d.type, dims |-> <<d.dim>>]
AllFit == \A d \in AskedDefs : Fits(d)

\* The types, the writes still to be made included.
Types ==
    /\ opt \in Options
    /\ pc \in {"open", "define", "file", "write", "done", "refused", "failed", "badsize", "mismatch"}
    /\ IsSchema(schema)
    /\ column \in [AllColumns -> Seq(Cell)]
    /\ hdr \in Seq(HeaderRow)
    /\ indexOffset \in Nat /\ jOffset \in 0 .. 1
    /\ ii \in 1 .. NFiles + 1 /\ batchStart \in Nat \ {0}
    /\ n \in 0 .. MaxRecords /\ kStart \in 0 .. 1 /\ kStart <= n + 1
    /\ todo \in Seq(Columns \cup HeaderFields)
    /\ result \in [Files -> 0 .. MaxRecords]
    /\ pc = "write" => ii \in Files /\ kStart <= n

\* Before the definitions of the first batch are made, the output has what the
\* earlier run left, or nothing.
Untouched ==
    batchStart = 1 /\ pc \in {"open", "define", "mismatch", "badsize"} =>
        /\ result = [j \in Files |-> 0]
        /\ hdr \in {<< >>, BaseHeaders}
        /\ column \in {[c \in AllColumns |-> << >>], [c \in AllColumns |-> BaseColumn(c)]}
        /\ Appends => hdr = BaseHeaders /\ column = [c \in AllColumns |-> BaseColumn(c)]
        /\ pc = "open" => schema = opt.base

\* The definitions made so far fit, and all of them from then on, so that no
\* later batch can be refused.
Defining ==
    /\ pc = "define" =>
          /\ defs \in Seq(AskedDefs)
          /\ \A d \in AskedDefs : Fits(d) \/ d \in ToSet(defs)
    /\ pc \in {"file", "write", "done"} => AllFit
    /\ pc \in {"open", "define"} /\ batchStart > 1 => AllFit
    /\ pc \in {"mismatch", "badsize"} => batchStart = 1

\* The rows of the earlier run are there, and this run's go behind them.
Old(c) == c \in AllColumns /\ c \in DOMAIN opt.base.vars
Kept ==
    Appends =>
        /\ hdr # << >> /\ hdr[1] = BaseHeaders[1]
        /\ \A c \in AllColumns : Old(c) =>
              /\ Len(column[c]) >= BaseRows
              /\ \A k \in 1 .. BaseRows : column[c][k] = BaseRecords[k]
        /\ batchStart > 1 \/ pc \in {"file", "write"} =>
              /\ jOffset >= 1
              /\ \A c \in AllColumns : Old(c) => indexOffset >= BaseRows

IInv == Types /\ Untouched /\ Defining /\ Kept

-----------------------------------------------------------------------------
(* Sequences, and the operators the model is built from *)

\* SetToSeq lists a finite set.
LEMMA Listing ==
    /\ SetToSeq(Columns) \in Seq(Columns)
    /\ \A c \in Columns : \E k \in DOMAIN SetToSeq(Columns) : SetToSeq(Columns)[k] = c
<1>1. Cardinality(Columns) \in Nat /\ ExistsBijection(1 .. Cardinality(Columns), Columns)
    BY ColumnsAssumption, FS_CardinalityType
<1> DEFINE m == Cardinality(Columns)
<1>2. \E f \in [1 .. m -> Columns] : IsInjective(f)
    BY <1>1 DEF ExistsBijection, Bijection, Injection
<1>3. SetToSeq(Columns) \in [1 .. m -> Columns] /\ IsInjective(SetToSeq(Columns))
    BY <1>2, Zenon DEF SetToSeq
<1>4. SetToSeq(Columns) \in Injection(1 .. m, Columns)
    BY <1>3 DEF Injection
<1>5. IsFiniteSet(1 .. m) /\ Cardinality(1 .. m) = m
    <2>1. 1 \in Int /\ m \in Int
        BY <1>1
    <2>2. QED
        BY <2>1, <1>1, FS_Interval
<1>6. SetToSeq(Columns) \in Surjection(1 .. m, Columns)
    BY <1>4, <1>5, ColumnsAssumption, FS_Injection
<1> HIDE DEF m
<1>7. m \in Nat
    BY <1>1 DEF m
<1>8. QED
    BY <1>3, <1>6, <1>7 DEF Surjection

\* What is not the head of a sequence is in its tail.
LEMMA HeadOrTail ==
    ASSUME NEW S, NEW s \in Seq(S), s # << >>
    PROVE  /\ Head(s) \in S /\ Tail(s) \in Seq(S)
           /\ ToSet(s) \subseteq {Head(s)} \cup ToSet(Tail(s))
<1>1. Head(s) \in S /\ Tail(s) \in Seq(S)
    OBVIOUS
<1>2. ASSUME NEW k \in DOMAIN s, k # 1
      PROVE  s[k] \in ToSet(Tail(s))
    <2>1. k - 1 \in DOMAIN Tail(s) /\ Tail(s)[k - 1] = s[k]
        BY <1>2
    <2>2. QED
        BY <2>1 DEF ToSet
<1>3. s[1] = Head(s)
    OBVIOUS
<1>4. QED
    BY <1>1, <1>2, <1>3 DEF ToSet

\* The longest of some lengths, none but 0 and b.
LEMMA LongestOf ==
    ASSUME NEW S, NEW b \in Nat, 0 \in S, S \subseteq {0, b}
    PROVE  Max(S) \in S /\ \A y \in S : Max(S) >= y
<1>1. \E x \in S : \A y \in S : x >= y
    OBVIOUS
<1>2. QED
    BY <1>1 DEF Max

\* Extending keeps what is there.
LEMMA Extending ==
    ASSUME NEW S, NEW s \in Seq(S), NEW len \in Nat, NEW v \in S
    PROVE  /\ Extend(s, len, v) \in Seq(S)
           /\ Len(Extend(s, len, v)) >= Len(s) /\ Len(Extend(s, len, v)) >= len
           /\ \A k \in 1 .. Len(s) : Extend(s, len, v)[k] = s[k]
<1> DEFINE m == IF Len(s) < len THEN len ELSE Len(s)
           t == [k \in 1 .. m |-> IF k <= Len(s) THEN s[k] ELSE v]
<1>1. m \in Nat /\ m >= Len(s) /\ m >= len
    OBVIOUS
<1>2. t \in Seq(S) /\ Len(t) = m
    <2>1. \A k \in 1 .. m : (IF k <= Len(s) THEN s[k] ELSE v) \in S
        OBVIOUS
    <2>2. QED
        BY <1>1, <2>1
<1>3. Extend(s, len, v) = t
    BY DEF Extend
<1>4. \A k \in 1 .. Len(s) : t[k] = s[k]
    BY <1>1
<1>5. QED
    BY <1>1, <1>2, <1>3, <1>4

\* Writing behind a row leaves it alone.
LEMMA Overwriting ==
    ASSUME NEW s \in Seq(Cell), NEW t \in Seq(Cell), NEW offset \in Nat
    PROVE  /\ Overwrite(s, offset, t) \in Seq(Cell)
           /\ Len(Overwrite(s, offset, t)) >= Len(s)
           /\ \A k \in 1 .. Len(s) : k <= offset => Overwrite(s, offset, t)[k] = s[k]
<1> DEFINE x == Extend(s, offset + Len(t), Fill)
           y == [k \in DOMAIN x |-> IF offset < k /\ k <= offset + Len(t) THEN t[k - offset] ELSE x[k]]
<1>1. Fill \in Cell
    BY DEF Cell
<1>2. /\ x \in Seq(Cell) /\ Len(x) >= Len(s)
      /\ \A k \in 1 .. Len(s) : x[k] = s[k]
    <2>1. offset + Len(t) \in Nat
        OBVIOUS
    <2>2. QED
        BY ONLY <1>1, <2>1, s \in Seq(Cell), Extending
<1>3. Overwrite(s, offset, t) = y
    BY DEF Overwrite
<1> HIDE DEF x
<1>4. DOMAIN x = 1 .. Len(x) /\ Len(x) \in Nat
    BY <1>2
<1>5. \A k \in 1 .. Len(x) : y[k] \in Cell
    <2>1. TAKE k \in 1 .. Len(x)
    <2>2. CASE offset < k /\ k <= offset + Len(t)
        <3>1. k - offset \in 1 .. Len(t)
            BY <2>2
        <3>2. QED
            BY <2>2, <3>1, <1>4
    <2>3. CASE ~(offset < k /\ k <= offset + Len(t))
        BY <2>3, <1>2, <1>4
    <2>4. QED
        BY <2>2, <2>3
<1>6. y \in Seq(Cell) /\ Len(y) = Len(x)
    <2>1. y = [k \in 1 .. Len(x) |-> y[k]]
        BY <1>4
    <2> HIDE DEF y
    <2>2. QED
        BY <2>1, <1>4, <1>5
<1>7. \A k \in 1 .. Len(s) : k <= offset => y[k] = s[k]
    BY <1>2, <1>4
<1>8. QED
    BY <1>2, <1>3, <1>6, <1>7

-----------------------------------------------------------------------------
(* What a batch defines and a file writes *)

\* The definitions asked for are named and typed as a schema allows.
LEMMA Shapes ==
    ASSUME opt \in Options
    PROVE  /\ IsOption(opt)
           /\ \A d \in AskedDefs : d.dim \in {"i", "j"}
           /\ \A d \in DimDefs : d.type = "dim" /\ d.name \in {"i", "j"}
           /\ \A d \in VarDefs : d.type \in TypeNames \cup {"none"} /\ d.name \in VarNames
<1>1. IsOption(opt)
    BY OptionsAssumption
<1>2. \A c \in Columns : TypeOf(opt.size[c]) \in {"int8", "int16", "float", "double", "none"}
    BY DEF TypeOf
<1>3. \A c \in Columns :
          /\ ColumnDef(c).type \in TypeNames \cup {"none"}
          /\ ColumnDef(c).name \in VarNames /\ ColumnDef(c).dim = "i"
    BY <1>2 DEF ColumnDef, VarNames, AllColumns, TypeNames
<1>4. \A d \in HeaderDefs :
          d.type \in TypeNames /\ d.name \in VarNames /\ d.dim = "j"
    BY DEF HeaderDefs, HeaderDef, VarNames, TypeNames
<1>5. \A d \in DimDefs : d.type = "dim" /\ d.name \in {"i", "j"} /\ d.dim \in {"i", "j"}
    BY DEF DimDefs
<1>6. \A d \in VarDefs : d \in HeaderDefs \/ \E c \in Columns : d = ColumnDef(c)
    BY DEF VarDefs
<1>7. QED
    BY <1>1, <1>3, <1>4, <1>5, <1>6 DEF AskedDefs

\* The list of definitions has all of them.
LEMMA DefinitionsList ==
    Definitions \in Seq(AskedDefs) /\ AskedDefs \subseteq ToSet(Definitions)
<1> DEFINE cols == [k \in DOMAIN SetToSeq(Columns) |-> ColumnDef(SetToSeq(Columns)[k])]
           di == [name |-> "i", type |-> "dim", dim |-> "i"]
           dj == [name |-> "j", type |-> "dim", dim |-> "j"]
           first == <<di, dj>>
           h1 == HeaderDef("name", "string")
           h2 == HeaderDef("start", "uint")
           h3 == HeaderDef("stop", "uint")
           h4 == HeaderDef("count", "uint")
           last == <<h1, h2, h3, h4>>
<1>1. Definitions = first \o cols \o last
    BY DEF Definitions
<1>2. /\ di \in AskedDefs /\ dj \in AskedDefs
      /\ \A c \in Columns : ColumnDef(c) \in AskedDefs
      /\ h1 \in AskedDefs /\ h2 \in AskedDefs /\ h3 \in AskedDefs /\ h4 \in AskedDefs
      /\ \A d \in AskedDefs : d \in {di, dj, h1, h2, h3, h4} \/ \E c \in Columns : d = ColumnDef(c)
    BY DEF AskedDefs, DimDefs, VarDefs, HeaderDefs
<1> HIDE DEF di, dj, h1, h2, h3, h4
<1>3. cols \in Seq(AskedDefs) /\ DOMAIN cols = 1 .. Len(cols) /\ Len(cols) \in Nat
    <2>1. DOMAIN SetToSeq(Columns) = 1 .. Len(SetToSeq(Columns)) /\ Len(SetToSeq(Columns)) \in Nat
        BY Listing
    <2>2. \A k \in DOMAIN SetToSeq(Columns) : cols[k] \in AskedDefs
        BY Listing, <1>2
    <2>3. cols \in Seq(AskedDefs)
        BY <2>1, <2>2
    <2>4. QED
        BY <2>3
<1>4. \A c \in Columns : \E k \in 1 .. Len(cols) : cols[k] = ColumnDef(c)
    BY Listing, <1>3
<1> HIDE DEF cols
<1>5. first \in Seq(AskedDefs) /\ last \in Seq(AskedDefs)
    BY <1>2
<1>6. Definitions \in Seq(AskedDefs) /\ Len(Definitions) = 2 + Len(cols) + 4
    BY <1>1, <1>3, <1>5
<1>7. \A d \in AskedDefs : \E k \in 1 .. Len(Definitions) : Definitions[k] = d
    <2>1. Definitions[1] = di /\ Definitions[2] = dj
        BY <1>1, <1>3, <1>5
    <2>2. \A k \in 1 .. Len(cols) : Definitions[k + 2] = cols[k]
        BY <1>1, <1>3, <1>5
    <2>3. /\ Definitions[Len(cols) + 3] = h1 /\ Definitions[Len(cols) + 4] = h2
          /\ Definitions[Len(cols) + 5] = h3 /\ Definitions[Len(cols) + 6] = h4
        BY <1>1, <1>3, <1>5
    <2>4. ASSUME NEW c \in Columns
          PROVE  \E k \in 1 .. Len(Definitions) : Definitions[k] = ColumnDef(c)
        <3>1. PICK k \in 1 .. Len(cols) : cols[k] = ColumnDef(c)
            BY <1>4
        <3>2. k + 2 \in 1 .. Len(Definitions) /\ Definitions[k + 2] = ColumnDef(c)
            BY <3>1, <2>2, <1>6, <1>3
        <3>3. QED
            BY <3>2
    <2>5. QED
        BY <1>2, <1>3, <1>6, <2>1, <2>3, <2>4
<1>8. QED
    BY <1>6, <1>7 DEF ToSet

\* The writes of a file are to the header variables and the columns.
LEMMA WritesList ==
    ASSUME NEW m \in Nat, NEW skip \in Nat
    PROVE  Writes(m, skip) \in Seq(Columns \cup HeaderFields)
<1>1. SetToSeq(Columns) \in Seq(Columns \cup HeaderFields)
    BY Listing
<1>2. /\ <<"name">> \in Seq(Columns \cup HeaderFields) /\ <<"count">> \in Seq(Columns \cup HeaderFields)
      /\ <<"start", "stop">> \in Seq(Columns \cup HeaderFields)
      /\ << >> \in Seq(Columns \cup HeaderFields)
    BY DEF HeaderFields
<1> DEFINE range == IF m > skip THEN <<"start", "stop">> ELSE << >>
           cells == IF m > skip THEN SetToSeq(Columns) ELSE << >>
<1>3. range \in Seq(Columns \cup HeaderFields) /\ cells \in Seq(Columns \cup HeaderFields)
    BY <1>1, <1>2
<1>4. Writes(m, skip) = <<"name">> \o range \o <<"count">> \o cells
    BY DEF Writes
<1> HIDE DEF range, cells
<1>5. QED
    BY <1>2, <1>3, <1>4

\* A definition that is not refused is there afterwards, and none is changed.
LEMMA Making ==
    ASSUME opt \in Options, UNCHANGED opt, IsSchema(schema),
           NEW d \in AskedDefs, d.type # "none", ~Refused(d),
           schema' = IF d.type = "dim" THEN MaybeCreateDim(schema, d.name)
                     ELSE MaybeCreateVar(schema, d.name, d.type, d.dim)
    PROVE  /\ IsSchema(schema)'
           /\ Fits(d)'
           /\ \A e : Fits(e) => Fits(e)'
<1>1. CASE d.type = "dim"
    <2>1. d.name \in {"i", "j"} /\ d.name \in DimNames
        BY <1>1, Shapes DEF AskedDefs, DimNames, TypeNames
    <2>2. CASE d.name \in DOMAIN schema.dims
        BY <1>1, <2>2 DEF MaybeCreateDim, Refused, DimRefused, Fits, IsSchema
    <2>3. CASE d.name \notin DOMAIN schema.dims
        <3>1. schema' = [dims |-> With(schema.dims, d.name, 0), vars |-> schema.vars, atts |-> schema.atts]
            BY <1>1, <2>3 DEF MaybeCreateDim, CreateDim, IsSchema
        <3>2. /\ DOMAIN schema'.dims = DOMAIN schema.dims \cup {d.name}
              /\ schema'.dims[d.name] = 0
              /\ \A x \in DOMAIN schema.dims : schema'.dims[x] = schema.dims[x]
              /\ schema'.dims \in [DOMAIN schema'.dims -> Nat]
            BY <3>1, <2>3 DEF With, IsSchema
        <3>3. QED
            BY <1>1, <2>1, <2>3, <3>1, <3>2 DEF Fits, IsSchema
    <2>4. QED
        BY <2>2, <2>3
<1>2. CASE d.type # "dim"
    <2>1. d.name \in VarNames /\ d.type \in TypeNames /\ d.dim \in DimNames
        BY <1>2, Shapes DEF AskedDefs, DimNames
    <2>2. CASE d.name \in DOMAIN schema.vars
        <3>1. schema' = schema
            BY <1>2, <2>2 DEF MaybeCreateVar
        <3>2. schema.vars[d.name].type = d.type /\ schema.vars[d.name].dims = <<d.dim>>
            BY <1>2, <2>2 DEF Refused, VarRefused
        <3>3. schema.vars[d.name] \in [type: TypeNames, dims: Seq(DimNames)]
            BY <2>2 DEF IsSchema
        <3>4. schema.vars[d.name] = [type |-> d.type, dims |-> <<d.dim>>]
            BY <3>2, <3>3
        <3>5. QED
            BY <1>2, <2>2, <3>1, <3>4 DEF Fits
    <2>3. CASE d.name \notin DOMAIN schema.vars
        <3> DEFINE v == [type |-> d.type, dims |-> <<d.dim>>]
        <3>1. schema' = [dims |-> schema.dims, vars |-> With(schema.vars, d.name, v), atts |-> schema.atts]
            BY <1>2, <2>3 DEF MaybeCreateVar, CreateVar, IsSchema
        <3>2. v \in [type: TypeNames, dims: Seq(DimNames)]
            BY <2>1
        <3> HIDE DEF v
        <3>3. /\ DOMAIN schema'.vars = DOMAIN schema.vars \cup {d.name}
              /\ schema'.vars[d.name] = v
              /\ \A x \in DOMAIN schema.vars : schema'.vars[x] = schema.vars[x]
              /\ schema'.vars \in [DOMAIN schema'.vars -> [type: TypeNames, dims: Seq(DimNames)]]
            <4>1. schema'.vars = [x \in DOMAIN schema.vars \cup {d.name} |->
                                    IF x = d.name THEN v ELSE schema.vars[x]]
                BY <3>1 DEF With
            <4>2. \A x \in DOMAIN schema.vars : schema.vars[x] \in [type: TypeNames, dims: Seq(DimNames)]
                BY DEF IsSchema
            <4>3. QED
                BY <4>1, <4>2, <3>2, <2>3
        <3>4. QED
            BY <1>2, <2>1, <2>3, <3>1, <3>3 DEF Fits, IsSchema, v
    <2>4. QED
        BY <2>2, <2>3
<1>3. QED
    BY <1>1, <1>2

-----------------------------------------------------------------------------
(* The invariant is inductive *)

USE DEF output, place, current

LEMMA InitHolds == Init => IInv
<1> SUFFICES ASSUME Init PROVE IInv
    OBVIOUS
<1> USE DEF Init
<1>1. IsOption(opt)
    BY Shapes
<1>2. BaseRecords \in Seq(Cell) /\ Len(BaseRecords) = BaseRows
    <2>1. \A k \in 1 .. BaseRows : <<0, k - 1>> \in Cell
        BY FilesAssumption, RowsAssumption DEF Cell
    <2>2. BaseRows \in Nat
        BY RowsAssumption
    <2>3. QED
        BY <2>1, <2>2 DEF BaseRecords
<1>3. BaseHeaders \in Seq(HeaderRow) /\ Len(BaseHeaders) = 1
    BY RowsAssumption DEF BaseHeaders, HeaderRow
<1>4. Types
    <2>1. column \in [AllColumns -> Seq(Cell)]
        BY <1>2 DEF BaseColumn
    <2>2. hdr \in Seq(HeaderRow)
        BY <1>3
    <2>3. QED
        BY <1>1, <2>1, <2>2, FilesAssumption, RowsAssumption DEF Types, IsOption, Files
<1>5. Untouched
    BY DEF Untouched, Appends
<1>6. Defining
    BY DEF Defining
<1>7. Kept
    <2> SUFFICES ASSUME Appends PROVE Kept
        BY DEF Kept
    <2>1. hdr = BaseHeaders
        BY DEF Appends
    <2>2. \A c \in AllColumns : Old(c) => column[c] = BaseRecords
        BY DEF Old, BaseColumn
    <2>3. hdr # << >> /\ hdr[1] = BaseHeaders[1]
        BY ONLY <1>3, <2>1
    <2>4. \A c \in AllColumns : Old(c) =>
              /\ Len(column[c]) >= BaseRows
              /\ \A k \in 1 .. BaseRows : column[c][k] = BaseRecords[k]
        BY <1>2, <2>2, RowsAssumption
    <2>5. ~(batchStart > 1 \/ pc \in {"file", "write"})
        OBVIOUS
    <2>6. QED
        BY <2>3, <2>4, <2>5 DEF Kept
<1>8. QED
    BY <1>4, <1>5, <1>6, <1>7 DEF IInv

\* What the definitions, the rows and the place in the run say does not change
\* while they do not.
LEMMA SameFit ==
    ASSUME UNCHANGED <<opt, schema>>
    PROVE  AskedDefs' = AskedDefs /\ AllFit' = AllFit /\ \A d : Fits(d)' <=> Fits(d)
BY DEF AskedDefs, DimDefs, VarDefs, HeaderDefs, ColumnDef, HeaderDef, AllFit, Fits

\* An output with all the definitions is not a new one.
LEMMA FitIsThere == AllFit => schema # NewFile
<1>1. [name |-> "i", type |-> "dim", dim |-> "i"] \in AskedDefs
    BY DEF AskedDefs, DimDefs
<1>2. AllFit => "i" \in DOMAIN schema.dims
    BY <1>1 DEF AllFit, Fits
<1>3. "i" \notin DOMAIN NewFile.dims
    BY DEF NewFile
<1>4. QED
    BY <1>2, <1>3

LEMMA OpenBatchStep == IInv /\ OpenBatch => IInv'
<1> SUFFICES ASSUME IInv, OpenBatch PROVE IInv'
    OBVIOUS
<1> USE DEF IInv, OpenBatch
<1>1. /\ schema = [dims |-> schema.dims, vars |-> schema.vars, atts |-> schema.atts]
      /\ schema.atts \in BOOLEAN
    BY DEF Types, IsSchema
<1>2. /\ schema'.dims = (IF Reopen THEN schema ELSE NewFile).dims
      /\ schema'.vars = (IF Reopen THEN schema ELSE NewFile).vars
      /\ schema' = [dims |-> schema'.dims, vars |-> schema'.vars, atts |-> schema'.atts]
    BY <1>1 DEF NewFile
<1>3. schema'.atts \in BOOLEAN
    BY <1>1 DEF NewFile, IsOption, Types
<1>4. AskedDefs' = AskedDefs
    BY DEF AskedDefs, DimDefs, VarDefs, HeaderDefs, ColumnDef, HeaderDef
<1>5. IsSchema(schema')
    <2>1. CASE Reopen
        BY <1>2, <1>3, <2>1 DEF Types, IsSchema
    <2>2. CASE ~Reopen
        BY <1>2, <1>3, <2>2 DEF IsSchema, NewFile
    <2>3. QED
        BY <2>1, <2>2
<1>6. Types'
    BY <1>5 DEF Types, IsSchema
<1>7. Appends => Reopen
    <2>1. CASE batchStart = 1
        BY <2>1 DEF Untouched, Appends, Reopen
    <2>2. CASE batchStart # 1
        BY <2>2, FitIsThere DEF Defining, Reopen, Types
    <2>3. QED
        BY <2>1, <2>2
<1>8. Untouched'
    BY <1>7 DEF Untouched, Appends, BaseColumn
<1>9. Defining'
    <2>1. batchStart > 1 => Reopen
        BY FitIsThere DEF Defining, Reopen
    <2>2. batchStart > 1 => \A d \in AskedDefs : Fits(d)'
        BY <1>2, <2>1 DEF Defining, AllFit, Fits
    <2>3. defs' \in Seq(AskedDefs) /\ AskedDefs \subseteq ToSet(defs')
        BY DefinitionsList
    <2>4. QED
        BY <1>4, <2>2, <2>3 DEF Defining, AllFit
<1>10. Kept'
    BY <1>7 DEF Kept, Appends, Old
<1>11. QED
    BY <1>6, <1>8, <1>9, <1>10

LEMMA DefineStep == IInv /\ Define => IInv'
<1> SUFFICES ASSUME IInv, Define PROVE IInv'
    OBVIOUS
<1> USE DEF IInv, Define
<1>1. defs \in Seq(AskedDefs) /\ defs # << >>
    BY DEF Defining
<1>2. PICK d \in AskedDefs : d = Head(defs)
    BY <1>1, HeadOrTail
<1>3. d \in AskedDefs /\ Tail(defs) \in Seq(AskedDefs) /\ ToSet(defs) \subseteq {d} \cup ToSet(Tail(defs))
    BY <1>2, <1>1, HeadOrTail
<1>4. /\ d.type # "none" /\ ~Refused(d)
      /\ schema' = IF d.type = "dim" THEN MaybeCreateDim(schema, d.name)
                   ELSE MaybeCreateVar(schema, d.name, d.type, d.dim)
      /\ opt \in Options /\ UNCHANGED opt /\ IsSchema(schema)
    BY <1>2 DEF Types
<1>5. IsSchema(schema)' /\ Fits(d)' /\ \A e : Fits(e) => Fits(e)'
    BY ONLY <1>3, <1>4, Making
<1>6. AskedDefs' = AskedDefs
    BY DEF AskedDefs, DimDefs, VarDefs, HeaderDefs, ColumnDef, HeaderDef
<1>7. Types'
    BY <1>5 DEF Types
<1>8. Untouched'
    BY DEF Untouched, Appends, BaseColumn
<1>9. Defining'
    <2>1. \A e \in AskedDefs : Fits(e)' \/ e \in ToSet(Tail(defs))
        <3>1. \A e \in AskedDefs : Fits(e) \/ e \in ToSet(defs)
            BY DEF Defining
        <3>2. QED
            BY ONLY <3>1, <1>3, <1>5
    <2>2. batchStart > 1 => \A e \in AskedDefs : Fits(e)'
        BY <1>5 DEF Defining, AllFit
    <2>3. defs' = Tail(defs)
        OBVIOUS
    <2>4. QED
        BY <1>3, <1>6, <2>1, <2>2, <2>3 DEF Defining, AllFit
<1>10. Kept'
    BY DEF Kept, Appends, Old
<1>11. QED
    BY <1>7, <1>8, <1>9, <1>10

LEMMA DefineStopsStep == IInv /\ DefineStops => IInv'
<1> SUFFICES ASSUME IInv, DefineStops PROVE IInv'
    OBVIOUS
<1> USE DEF IInv, DefineStops
<1>1. Types'
    BY DEF Types
<1>2. batchStart = 1
    <2> SUFFICES ASSUME batchStart # 1 PROVE FALSE
        OBVIOUS
    <2>1. AllFit /\ defs \in Seq(AskedDefs) /\ defs # << >>
        BY DEF Types, Defining
    <2>2. PICK d \in AskedDefs : d = Head(defs)
        BY <2>1, HeadOrTail
    <2>3. Fits(d)
        BY <2>1 DEF AllFit
    <2>4. d.type = "none" \/ Refused(d)
        BY <2>2
    <2>5. ~Refused(d)
        BY <2>3 DEF Refused, Fits, DimRefused, VarRefused
    <2>6. QED
        BY <2>3, <2>4, <2>5 DEF Fits
<1>3. Untouched'
    BY DEF Untouched, Appends, BaseColumn
<1>4. Defining'
    BY <1>2 DEF Defining
<1>5. Kept'
    BY <1>2 DEF Kept, Appends, Old
<1>6. QED
    BY <1>1, <1>3, <1>4, <1>5

\* In the first batch the run's rows go behind those of the earlier run.
LEMMA FirstOffsets ==
    ASSUME IInv, pc = "define", batchStart = 1
    PROVE  /\ Longest(column) \in Nat /\ Len(hdr) \in 0 .. 1
           /\ Appends => /\ Len(hdr) = 1
                         /\ \A c \in AllColumns : Old(c) => Longest(column) >= BaseRows
<1>1. /\ hdr \in {<< >>, BaseHeaders}
      /\ column \in {[c \in AllColumns |-> << >>], [c \in AllColumns |-> BaseColumn(c)]}
      /\ Appends => hdr = BaseHeaders /\ column = [c \in AllColumns |-> BaseColumn(c)]
    BY DEF IInv, Untouched
<1>2. Len(BaseHeaders) = 1
    BY DEF BaseHeaders
<1>3. BaseRows \in Nat /\ Len(BaseRecords) = BaseRows
    BY RowsAssumption DEF BaseRecords
<1> DEFINE S == {0} \cup {Len(column[c]) : c \in DOMAIN column}
<1>4. DOMAIN column = AllColumns
    BY DEF IInv, Types
<1>5. \A c \in AllColumns : Len(column[c]) \in {0, BaseRows}
    BY <1>1, <1>3 DEF BaseColumn
<1>6. 0 \in S /\ S \subseteq {0, BaseRows}
    BY <1>4, <1>5
<1>7. Max(S) \in S /\ \A y \in S : Max(S) >= y
    BY ONLY <1>3, <1>6, LongestOf
<1>8. Longest(column) = Max(S)
    BY DEF Longest
<1>9. Longest(column) \in Nat
    BY <1>3, <1>6, <1>7, <1>8
<1>10. Appends => \A c \in AllColumns : Old(c) => Longest(column) >= BaseRows
    <2> SUFFICES ASSUME Appends, NEW c \in AllColumns, Old(c) PROVE Longest(column) >= BaseRows
        OBVIOUS
    <2>1. Len(column[c]) = BaseRows
        BY <1>1, <1>3 DEF BaseColumn, Old
    <2>2. BaseRows \in S
        BY <2>1, <1>4
    <2>3. QED
        BY <2>2, <1>7, <1>8
<1>11. QED
    BY <1>1, <1>2, <1>9, <1>10

LEMMA DefinedStep == IInv /\ Defined => IInv'
<1> SUFFICES ASSUME IInv, Defined PROVE IInv'
    OBVIOUS
<1> USE DEF IInv, Defined, Offsets
<1>1. batchStart = 1 =>
          /\ Longest(column) \in Nat /\ Len(hdr) \in 0 .. 1
          /\ Appends => /\ Len(hdr) = 1
                        /\ \A c \in AllColumns : Old(c) => Longest(column) >= BaseRows
    BY FirstOffsets
<1>2. Types'
    <2>1. CASE batchStart = 1
        <3>1. indexOffset' \in {Longest(column), 0} /\ jOffset' \in {Len(hdr), 0}
            BY <2>1
        <3>2. Longest(column) \in Nat /\ Len(hdr) \in 0 .. 1 /\ 0 \in 0 .. 1
            BY <1>1, <2>1
        <3>3. indexOffset' \in Nat
            BY ONLY <3>1, <3>2
        <3>4. jOffset' \in 0 .. 1
            BY ONLY <3>1, <3>2, Zenon
        <3>5. QED
            BY <3>3, <3>4 DEF Types
    <2>2. CASE batchStart # 1
        BY <2>2 DEF Types
    <2>3. QED
        BY <2>1, <2>2
<1>3. Untouched'
    BY DEF Untouched
<1>4. Defining'
    <2>1. AllFit
        <3>1. ToSet(defs) = {}
            BY DEF ToSet
        <3>2. QED
            BY <3>1 DEF Defining, AllFit
    <2>2. AllFit'
        BY <2>1, SameFit
    <2>3. QED
        BY <2>2 DEF Defining
<1>5. Kept'
    <2> SUFFICES ASSUME Appends' PROVE Kept'
        BY DEF Kept
    <2>1. Appends /\ opt.append
        BY DEF Appends
    <2>2. \A c : Old(c)' <=> Old(c)
        BY DEF Old
    <2>3. jOffset' >= 1 /\ \A c \in AllColumns : Old(c) => indexOffset' >= BaseRows
        BY <1>1, <2>1 DEF Kept, Types
    <2>4. QED
        BY <2>1, <2>2, <2>3 DEF Kept
<1>6. QED
    BY <1>2, <1>3, <1>4, <1>5

LEMMA CloseBatchStep == IInv /\ CloseBatch => IInv'
<1> SUFFICES ASSUME IInv, CloseBatch PROVE IInv'
    OBVIOUS
<1> USE DEF IInv, CloseBatch
<1>1. FilesPerBatch \in Nat \ {0}
    <2>1. IsOption(opt)
        BY Shapes DEF Types
    <2>2. QED
        BY <2>1, FilesAssumption DEF FilesPerBatch, IsOption
<1>2. batchStart' \in Nat \ {0} /\ batchStart' > 1
    BY <1>1 DEF Types
<1>3. Types'
    BY <1>2 DEF Types
<1>4. Untouched'
    BY <1>2 DEF Untouched
<1>5. Defining'
    BY SameFit DEF Defining
<1>6. Kept'
    BY DEF Kept, Appends, Old
<1>7. QED
    BY <1>3, <1>4, <1>5, <1>6

\* Steps that change neither the output nor the place of the rows.
LEMMA QuietStep ==
    ASSUME IInv, UNCHANGED <<opt, defs, schema, column, hdr, indexOffset, jOffset, batchStart, result>>,
           Types', pc' \notin {"open", "define", "mismatch", "badsize"},
           pc' \in {"file", "write", "done"} => pc \in {"file", "write"}
    PROVE  IInv'
<1> USE DEF IInv
<1>1. Untouched'
    BY DEF Untouched
<1>2. Defining'
    BY SameFit DEF Defining
<1>3. Kept'
    <2> SUFFICES ASSUME Appends' PROVE Kept'
        BY DEF Kept
    <2>1. Appends /\ \A c : Old(c)' <=> Old(c)
        BY DEF Appends, Old
    <2>2. batchStart' > 1 \/ pc' \in {"file", "write"} =>
              jOffset >= 1 /\ \A c \in AllColumns : Old(c) => indexOffset >= BaseRows
        BY <2>1 DEF Kept
    <2>3. QED
        BY <2>1, <2>2 DEF Kept
<1>4. QED
    BY <1>1, <1>2, <1>3

LEMMA BatchEnds ==
    ASSUME Types
    PROVE  BatchEnd \in Nat /\ BatchEnd <= NFiles + 1
<1>1. FilesPerBatch \in Nat
    BY Shapes, FilesAssumption DEF Types, FilesPerBatch, IsOption
<1>2. QED
    BY <1>1, FilesAssumption DEF BatchEnd, Types

LEMMA GiveUpTypes ==
    ASSUME IInv, GiveUp, ii \in Files,
           UNCHANGED <<opt, output, place, batchStart, result>>
    PROVE  Types' /\ pc' \in {"refused", "file"}
BY FilesAssumption, RowsAssumption DEF IInv, Types, GiveUp, NextFile, Files

LEMMA InFileFacts ==
    ASSUME IInv, InFile
    PROVE  ii \in Files
BY BatchEnds, FilesAssumption DEF IInv, InFile, Types, Files

LEMMA FatalStep == IInv /\ Fatal => IInv'
<1> SUFFICES ASSUME IInv, Fatal PROVE IInv'
    OBVIOUS
<1>1. Types'
    BY DEF IInv, Types, Fatal
<1>2. QED
    BY <1>1, QuietStep DEF Fatal

LEMMA UnreadableStep == IInv /\ Unreadable => IInv'
<1> SUFFICES ASSUME IInv, Unreadable PROVE IInv'
    OBVIOUS
<1>1. Types' /\ pc' \in {"refused", "file"}
    BY InFileFacts, GiveUpTypes DEF Unreadable
<1>2. QED
    BY <1>1, QuietStep DEF Unreadable, InFile

LEMMA LoadThrowsStep == IInv /\ LoadThrows => IInv'
<1> SUFFICES ASSUME IInv, LoadThrows PROVE IInv'
    OBVIOUS
<1>1. Types'
    BY DEF IInv, Types, LoadThrows
<1>2. QED
    BY <1>1, QuietStep DEF LoadThrows

LEMMA LoadEmptyStep == IInv /\ LoadEmpty => IInv'
<1> SUFFICES ASSUME IInv, LoadEmpty PROVE IInv'
    OBVIOUS
<1>1. Types'
    BY InFileFacts, FilesAssumption DEF IInv, Types, LoadEmpty, NextFile, Files, InFile
<1>2. QED
    BY <1>1, QuietStep DEF LoadEmpty, InFile

LEMMA LoadRecordsStep == IInv /\ LoadRecords => IInv'
<1> SUFFICES ASSUME IInv, LoadRecords PROVE IInv'
    OBVIOUS
<1>1. Skipped \in 0 .. 1
    BY DEF Skipped
<1>2. n' \in 1 .. MaxRecords /\ kStart' = Skipped
    BY DEF LoadRecords
<1>3. todo' \in Seq(Columns \cup HeaderFields)
    <2>1. n' \in Nat /\ Skipped \in Nat
        BY <1>1, <1>2, RowsAssumption
    <2>2. PICK m \in Nat, skip \in Nat : m = n' /\ skip = Skipped
        BY <2>1
    <2>3. todo' = Writes(m, skip)
        BY <2>2 DEF LoadRecords
    <2>4. QED
        BY <2>3, WritesList
<1>4. Types'
    <2>1. n' \in 0 .. MaxRecords /\ kStart' \in 0 .. 1 /\ kStart' <= n' /\ kStart' <= n' + 1
        <3>1. PICK m \in 1 .. MaxRecords, skip \in 0 .. 1 : m = n' /\ skip = kStart'
            BY <1>1, <1>2
        <3>2. m \in 0 .. MaxRecords /\ skip <= m /\ skip <= m + 1
            BY RowsAssumption
        <3>3. QED
            BY <3>1, <3>2
    <2>2. ii' \in Files /\ ii' \in 1 .. NFiles + 1
        BY InFileFacts DEF LoadRecords, IInv, Types
    <2>3. QED
        BY <1>3, <2>1, <2>2 DEF IInv, Types, LoadRecords
<1>5. QED
    BY <1>4, QuietStep DEF LoadRecords, InFile

LEMMA WriteFailsStep == IInv /\ WriteFails => IInv'
<1> SUFFICES ASSUME IInv, WriteFails PROVE IInv'
    OBVIOUS
<1>1. ii \in Files
    BY DEF IInv, Types, WriteFails
<1>2. Types' /\ pc' \in {"refused", "file"}
    BY <1>1, GiveUpTypes DEF WriteFails
<1>3. QED
    BY <1>2, QuietStep DEF WriteFails

LEMMA StayStep == IInv /\ UNCHANGED vars => IInv'
<1> SUFFICES ASSUME IInv, UNCHANGED vars PROVE IInv'
    OBVIOUS
<1> USE DEF vars, IInv
<1>1. Types'
    BY DEF Types
<1>2. Untouched'
    BY DEF Untouched, Appends, BaseColumn
<1>3. Defining'
    BY SameFit DEF Defining
<1>4. Kept'
    BY DEF Kept, Appends, Old
<1>5. QED
    BY <1>1, <1>2, <1>3, <1>4

LEMMA AdvanceStep == IInv /\ Advance => IInv'
<1> SUFFICES ASSUME IInv, Advance PROVE IInv'
    OBVIOUS
<1> USE DEF IInv, Advance
<1>1. Types'
    <2>1. ii \in Files /\ ii + 1 \in 1 .. NFiles + 1
        BY FilesAssumption DEF Types, Files
    <2>2. indexOffset' \in Nat
        BY RowsAssumption DEF Types
    <2>3. result' \in [Files -> 0 .. MaxRecords]
        BY <2>1 DEF Types
    <2>4. QED
        BY <2>1, <2>2, <2>3, RowsAssumption DEF Types, NextFile
<1>2. Untouched'
    BY DEF Untouched
<1>3. Defining'
    BY SameFit DEF Defining
<1>4. Kept'
    <2> SUFFICES ASSUME Appends' PROVE Kept'
        BY DEF Kept
    <2>1. Appends /\ \A c : Old(c)' <=> Old(c)
        BY DEF Appends, Old
    <2>2. indexOffset' >= indexOffset
        BY RowsAssumption DEF Types
    <2>3. \A c \in AllColumns : Old(c) => indexOffset' >= BaseRows
        BY <2>1, <2>2, RowsAssumption DEF Kept, Types
    <2>4. QED
        BY <2>1, <2>3 DEF Kept
<1>5. QED
    BY <1>1, <1>2, <1>3, <1>4

\* A header row set in place.
LEMMA SettingHeader ==
    ASSUME NEW s \in Seq(HeaderRow), NEW j \in Nat \ {0}, NEW w \in HeaderFields, NEW v,
           w \in {"name", "start"} => v \in Nat, w \in {"stop", "count"} => v \in Int
    PROVE  LET t == [Extend(s, j, NoHeader) EXCEPT ![j][w] = v]
           IN  /\ t \in Seq(HeaderRow) /\ t # << >>
               /\ s # << >> /\ j > 1 => t[1] = s[1]
<1> DEFINE x == Extend(s, j, NoHeader)
           row == [x[j] EXCEPT ![w] = v]
           t == [x EXCEPT ![j] = row]
<1>1. NoHeader \in HeaderRow
    BY DEF NoHeader, HeaderRow
<1>2. j \in Nat
    OBVIOUS
<1>3. /\ x \in Seq(HeaderRow) /\ Len(x) >= Len(s) /\ Len(x) >= j
      /\ \A k \in 1 .. Len(s) : x[k] = s[k]
    <2>1. PICK S : S = HeaderRow
      OBVIOUS
    <2>2. s \in Seq(S) /\ NoHeader \in S
      BY <1>1, <2>1
    <2>3. /\ x \in Seq(S) /\ Len(x) >= Len(s) /\ Len(x) >= j
          /\ \A k \in 1 .. Len(s) : x[k] = s[k]
      BY ONLY <1>2, <2>2, Extending, ZenonT(30)
    <2>4. QED
      BY <2>1, <2>3
<1> HIDE DEF x
<1>4. x[j] \in HeaderRow
    BY <1>3
<1>5. row \in HeaderRow
    BY <1>4 DEF HeaderRow, HeaderFields
<1> HIDE DEF row
<1>6. t \in Seq(HeaderRow) /\ Len(t) = Len(x)
    BY <1>3, <1>5
<1>7. t # << >>
    BY <1>3, <1>6
<1>8. s # << >> /\ j > 1 => t[1] = s[1]
    <2> SUFFICES ASSUME s # << >>, j > 1 PROVE t[1] = s[1]
        OBVIOUS
    <2>1. 1 \in 1 .. Len(s)
        OBVIOUS
    <2>2. QED
        BY <1>3, <2>1
<1>9. [Extend(s, j, NoHeader) EXCEPT ![j][w] = v] = t
    BY DEF x, row
<1>10. QED
    BY <1>6, <1>7, <1>8, <1>9

LEMMA RecordsAreCells ==
    ASSUME Types, pc = "write"
    PROVE  Records \in Seq(Cell)
<1>1. n - kStart \in Nat
    BY RowsAssumption DEF Types
<1>2. \A k \in 1 .. n - kStart : <<ii, kStart + k - 1>> \in Cell
    <2>1. TAKE k \in 1 .. n - kStart
    <2>2. ii \in 0 .. NFiles /\ kStart + k - 1 \in 0 .. MaxRecords + BaseRows
        BY FilesAssumption, RowsAssumption DEF Types, Files
    <2>3. QED
        BY <2>2 DEF Cell
<1>3. QED
    BY <1>1, <1>2 DEF Records

LEMMA WriteStep == IInv /\ Write => IInv'
<1> SUFFICES ASSUME IInv, Write PROVE IInv'
    OBVIOUS
<1>1. todo \in Seq(Columns \cup HeaderFields) /\ todo # << >>
    BY DEF IInv, Types, Write
<1>2. PICK w \in Columns \cup HeaderFields : w = Head(todo)
    BY <1>1, HeadOrTail
<1>3. todo' \in Seq(Columns \cup HeaderFields)
    BY <1>1, HeadOrTail DEF Write
<1>4. /\ pc = "write" /\ pc' = "write"
      /\ UNCHANGED <<opt, schema, defs, indexOffset, jOffset, ii, batchStart, n, kStart, result>>
    BY DEF Write
<1>5. Untouched'
    BY <1>4 DEF Untouched
<1>6. Defining'
    BY <1>4, SameFit DEF IInv, Defining
<1>7. /\ Appends' <=> Appends
      /\ \A c : Old(c)' <=> Old(c)
    BY <1>4 DEF Appends, Old
<1>8. Appends => jOffset >= 1 /\ \A c \in AllColumns : Old(c) => indexOffset >= BaseRows
    BY <1>4 DEF IInv, Kept
<1>9. CASE w \in Columns
    <2>1. column' = [column EXCEPT ![w] = Overwrite(@, indexOffset, Records)] /\ hdr' = hdr
        BY <1>2, <1>9 DEF Write
    <2>2. w \in AllColumns /\ column[w] \in Seq(Cell) /\ indexOffset \in Nat
        BY <1>9 DEF AllColumns, IInv, Types
    <2>3. Records \in Seq(Cell)
        BY <1>4, RecordsAreCells DEF IInv
    <2> DEFINE new == Overwrite(column[w], indexOffset, Records)
    <2>4. /\ new \in Seq(Cell) /\ Len(new) >= Len(column[w])
          /\ \A k \in 1 .. Len(column[w]) : k <= indexOffset => new[k] = column[w][k]
        BY ONLY <2>2, <2>3, Overwriting
    <2>5. column' = [column EXCEPT ![w] = new]
        BY <2>1
    <2> HIDE DEF new
    <2>6. column' \in [AllColumns -> Seq(Cell)] /\ column'[w] = new
          /\ \A c \in AllColumns : c # w => column'[c] = column[c]
        BY <2>2, <2>4, <2>5 DEF IInv, Types
    <2>7. Types'
        BY <1>3, <1>4, <2>1, <2>6 DEF IInv, Types
    <2>8. Kept'
        <3> SUFFICES ASSUME Appends PROVE Kept'
            BY <1>7 DEF Kept
        <3>1. /\ hdr # << >> /\ hdr[1] = BaseHeaders[1]
              /\ \A c \in AllColumns : Old(c) =>
                    /\ Len(column[c]) >= BaseRows
                    /\ \A k \in 1 .. BaseRows : column[c][k] = BaseRecords[k]
            BY DEF IInv, Kept
        <3>2. ASSUME Old(w)
              PROVE  Len(new) >= BaseRows /\ \A k \in 1 .. BaseRows : new[k] = BaseRecords[k]
            <4>1. Len(column[w]) >= BaseRows /\ indexOffset >= BaseRows
                  /\ \A k \in 1 .. BaseRows : column[w][k] = BaseRecords[k]
                BY <1>8, <2>2, <3>1, <3>2
            <4>2. Len(new) >= BaseRows
                BY <4>1, <2>2, <2>4, RowsAssumption
            <4>3. \A k \in 1 .. BaseRows : k \in 1 .. Len(column[w]) /\ k <= indexOffset
                BY <4>1, <2>2, RowsAssumption
            <4>4. QED
                BY <4>1, <4>2, <4>3, <2>4
        <3>3. \A c \in AllColumns : Old(c) =>
                  /\ Len(column'[c]) >= BaseRows
                  /\ \A k \in 1 .. BaseRows : column'[c][k] = BaseRecords[k]
            BY <2>6, <3>1, <3>2
        <3>4. QED
            BY <1>4, <1>7, <1>8, <2>1, <3>1, <3>3 DEF Kept
    <2>9. QED
        BY <1>5, <1>6, <2>7, <2>8 DEF IInv
<1>10. CASE w \notin Columns
    <2>1. w \in HeaderFields
        BY <1>10
    <2> DEFINE v == CASE w = "name"  -> ii
                      [] w = "start" -> indexOffset
                      [] w = "stop"  -> indexOffset + n - kStart - 1
                      [] w = "count" -> n - kStart
    <2>2. hdr' = [Extend(hdr, ii + jOffset, NoHeader) EXCEPT ![ii + jOffset][w] = v] /\ column' = column
        BY <1>2, <1>10 DEF Write, SetHeader
    <2>3. /\ w \in {"name", "start"} => v \in Nat
          /\ w \in {"stop", "count"} => v \in Int
        BY <2>1, FilesAssumption, RowsAssumption DEF HeaderFields, IInv, Types
    <2>4. hdr \in Seq(HeaderRow) /\ ii + jOffset \in Nat \ {0}
        BY FilesAssumption DEF IInv, Types
    <2> HIDE DEF v
    <2>5. PICK j \in Nat \ {0}, value \in {v} : j = ii + jOffset
        BY <2>4
    <2>6. hdr' = [Extend(hdr, j, NoHeader) EXCEPT ![j][w] = value]
        BY <2>2, <2>5
    <2>7. /\ w \in {"name", "start"} => value \in Nat
          /\ w \in {"stop", "count"} => value \in Int
        BY <2>3, <2>5
    <2>8. /\ hdr' \in Seq(HeaderRow) /\ hdr' # << >>
          /\ hdr # << >> /\ j > 1 => hdr'[1] = hdr[1]
        <3> DEFINE t == [Extend(hdr, j, NoHeader) EXCEPT ![j][w] = value]
        <3>1. hdr \in Seq(HeaderRow) /\ j \in Nat \ {0}
            BY <2>4
        <3>2. /\ t \in Seq(HeaderRow) /\ t # << >>
              /\ hdr # << >> /\ j > 1 => t[1] = hdr[1]
            BY ONLY <2>1, <2>7, <3>1, SettingHeader, ZenonT(40)
        <3> HIDE DEF t
        <3>3. hdr' = t
            BY <2>6 DEF t
        <3>4. QED
            BY ONLY <3>2, <3>3
    <2>9. Types'
        BY <1>3, <1>4, <2>2, <2>8 DEF IInv, Types
    <2>10. Kept'
        <3> SUFFICES ASSUME Appends PROVE Kept'
            BY <1>7 DEF Kept
        <3>1. j > 1
            BY <1>8, <2>5, FilesAssumption DEF IInv, Types
        <3>2. hdr' # << >> /\ hdr'[1] = BaseHeaders[1]
            BY <2>8, <3>1 DEF IInv, Kept
        <3>3. QED
            BY <1>4, <1>7, <1>8, <2>2, <3>2 DEF IInv, Kept
    <2>11. QED
        BY <1>5, <1>6, <2>9, <2>10 DEF IInv
<1>11. QED
    BY <1>9, <1>10

LEMMA StepHolds == IInv /\ [Next]_vars => IInv'
<1> SUFFICES ASSUME IInv, [Next]_vars PROVE IInv'
    OBVIOUS
<1>1. CASE OpenBatch
    BY <1>1, OpenBatchStep
<1>2. CASE Define
    BY <1>2, DefineStep
<1>3. CASE DefineStops
    BY <1>3, DefineStopsStep
<1>4. CASE Defined
    BY <1>4, DefinedStep
<1>5. CASE CloseBatch
    BY <1>5, CloseBatchStep
<1>6. CASE Fatal
    BY <1>6, FatalStep
<1>7. CASE Unreadable
    BY <1>7, UnreadableStep
<1>8. CASE LoadThrows
    BY <1>8, LoadThrowsStep
<1>9. CASE LoadEmpty
    BY <1>9, LoadEmptyStep
<1>10. CASE LoadRecords
    BY <1>10, LoadRecordsStep
<1>11. CASE Write
    BY <1>11, WriteStep
<1>12. CASE WriteFails
    BY <1>12, WriteFailsStep
<1>13. CASE Advance
    BY <1>13, AdvanceStep
<1>14. CASE Stay
    BY <1>14, StayStep DEF Stay
<1>15. CASE UNCHANGED vars
    BY <1>15, StayStep
<1>16. QED
    BY <1>1, <1>2, <1>3, <1>4, <1>5, <1>6, <1>7, <1>8, <1>9, <1>10, <1>11, <1>12, <1>13,
       <1>14, <1>15 DEF Next

LEMMA Invariance == Spec => []IInv
<1>1. QED
    BY InitHolds, StepHolds, PTL DEF Spec

-----------------------------------------------------------------------------
(* What the rows hold: the second invariant *)

\* The records of m of a file, from number `first` on, are in a column's rows
\* behind `offset`.
Holds(c, offset, j, first, m) ==
    /\ offset + m <= Len(column[c])
    /\ \A k \in 1 .. m : column[c][offset + k] = <<j, first + k - 1>>

\* How many records of a file are dropped.
Drop(j) == IF opt.skip = "all" \/ (opt.skip = "first" /\ j # 1) THEN 1 ELSE 0

Started == batchStart > 1 \/ pc \in {"file", "write", "refused", "done"}

\* What a column shows in a row: a row behind its end is as good as filled.
Shown(c, r) == IF r <= Len(column[c]) THEN column[c][r] ELSE Fill

\* No file at hand or ahead has a result.
Ahead == \A j \in Files : j >= ii => result[j] = 0

Rows ==
    Started => \A c \in Columns :
        /\ Len(WantedRows(c)) = indexOffset
        /\ \A r \in 1 .. indexOffset : Shown(c, r) = WantedRows(c)[r]

\* What the writes of the file at hand put into its header row.
HeaderValue(w) ==
    CASE w = "name"  -> ii
      [] w = "start" -> indexOffset
      [] w = "stop"  -> indexOffset + n - kStart - 1
      [] w = "count" -> n - kStart
HeaderAsked == IF n > kStart THEN HeaderFields ELSE {"name", "count"}

\* Each write of the file at hand is made, or still to be made.
Written ==
    pc = "write" =>
        /\ kStart = Drop(ii)
        /\ \A w \in HeaderAsked : w \in ToSet(todo) \/
              (ii + jOffset <= Len(hdr) /\ hdr[ii + jOffset][w] = HeaderValue(w))
        /\ n > kStart => \A c \in Columns : c \in ToSet(todo) \/
              Holds(c, indexOffset, ii, kStart, n - kStart)

\* The header row of a file written to its end, and its rows below indexOffset.
Points(j, h) ==
    LET m == Len(Wanted(j))
    IN  /\ h.name = j /\ h.count = m
        /\ m > 0 => /\ h.start \in Nat /\ h.stop = h.start + m - 1
                    /\ h.start + m <= indexOffset
                    /\ \A c \in Columns : Holds(c, h.start, j, Drop(j), m)
Headers ==
    Started => \A j \in Files : result[j] > 0 =>
        j + jOffset <= Len(hdr) /\ Points(j, hdr[j + jOffset])

JInv == Ahead /\ Rows /\ Written /\ Headers

-----------------------------------------------------------------------------
(* Writing *)

\* The definitions made fit the columns and the header variables.
LEMMA Fitting == IInv => WritesFitTheSchema
<1> SUFFICES ASSUME IInv, pc \in {"file", "write", "done"}
             PROVE  /\ schema.dims["i"] = 0 /\ schema.dims["j"] = 0
                    /\ \A c \in Columns :
                          schema.vars[c] = [type |-> TypeOf(opt.size[c]), dims |-> <<"i">>]
                    /\ \A v \in {"name", "start", "stop", "count"} : schema.vars[v].dims = <<"j">>
    BY DEF WritesFitTheSchema
<1>1. \A d \in AskedDefs : Fits(d)
    BY DEF IInv, Defining, AllFit
<1>2. \A d \in DimDefs : schema.dims[d.name] = 0
    BY <1>1, Shapes DEF AskedDefs, Fits, IInv, Types
<1>3. \A d \in VarDefs : schema.vars[d.name] = [type |-> d.type, dims |-> <<d.dim>>]
    BY <1>1, Shapes DEF AskedDefs, Fits, IInv, Types, TypeNames
<1>4. schema.dims["i"] = 0 /\ schema.dims["j"] = 0
    <2>1. /\ [name |-> "i", type |-> "dim", dim |-> "i"] \in DimDefs
          /\ [name |-> "j", type |-> "dim", dim |-> "j"] \in DimDefs
        BY DEF DimDefs
    <2>2. QED
        BY <1>2, <2>1
<1>5. ASSUME NEW c \in Columns
      PROVE  schema.vars[c] = [type |-> TypeOf(opt.size[c]), dims |-> <<"i">>]
    <2>1. ColumnDef(c) \in VarDefs /\ ColumnDef(c) = [name |-> c, type |-> TypeOf(opt.size[c]), dim |-> "i"]
        BY DEF VarDefs, ColumnDef
    <2>2. QED
        BY <1>3, <2>1
<1>6. ASSUME NEW v \in {"name", "start", "stop", "count"}
      PROVE  schema.vars[v].dims = <<"j">>
    <2>1. PICK d \in HeaderDefs : d.name = v /\ d.dim = "j"
        BY DEF HeaderDefs, HeaderDef
    <2>2. d \in VarDefs
        BY DEF VarDefs
    <2>3. schema.vars[v] = [type |-> d.type, dims |-> <<"j">>]
        BY <1>3, <2>1, <2>2
    <2>4. QED
        BY <2>3
<1>7. QED
    BY <1>4, <1>5, <1>6

LEMMA ListedInBoth ==
    ASSUME NEW S, NEW s \in Seq(S), NEW t \in Seq(S)
    PROVE  s \o t \in Seq(S) /\ ToSet(s) \cup ToSet(t) \subseteq ToSet(s \o t)
<1>1. s \o t \in Seq(S) /\ Len(s \o t) = Len(s) + Len(t)
    OBVIOUS
<1>2. \A k \in DOMAIN s : k \in DOMAIN (s \o t) /\ (s \o t)[k] = s[k]
    OBVIOUS
<1>3. \A k \in DOMAIN t : Len(s) + k \in DOMAIN (s \o t) /\ (s \o t)[Len(s) + k] = t[k]
    OBVIOUS
<1>4. QED
    BY <1>1, <1>2, <1>3 DEF ToSet

\* A file's writes are to all that is asked of it.
LEMMA WritesAll ==
    ASSUME NEW m \in Nat, NEW skip \in Nat
    PROVE  /\ {"name", "count"} \subseteq ToSet(Writes(m, skip))
           /\ m > skip => HeaderFields \cup Columns \subseteq ToSet(Writes(m, skip))
<1> DEFINE all == Columns \cup HeaderFields
           range == IF m > skip THEN <<"start", "stop">> ELSE << >>
           cells == IF m > skip THEN SetToSeq(Columns) ELSE << >>
<1>1. SetToSeq(Columns) \in Seq(all) /\ Columns \subseteq ToSet(SetToSeq(Columns))
    BY Listing DEF ToSet
<1>2. /\ <<"name">> \in Seq(all) /\ <<"count">> \in Seq(all)
      /\ <<"start", "stop">> \in Seq(all) /\ << >> \in Seq(all)
    BY DEF HeaderFields
<1>3. /\ "name" \in ToSet(<<"name">>) /\ "count" \in ToSet(<<"count">>)
      /\ {"start", "stop"} \subseteq ToSet(<<"start", "stop">>)
    <2>1. /\ 1 \in DOMAIN <<"name">> /\ <<"name">>[1] = "name"
          /\ 1 \in DOMAIN <<"count">> /\ <<"count">>[1] = "count"
          /\ 1 \in DOMAIN <<"start", "stop">> /\ <<"start", "stop">>[1] = "start"
          /\ 2 \in DOMAIN <<"start", "stop">> /\ <<"start", "stop">>[2] = "stop"
        OBVIOUS
    <2>2. QED
        BY <2>1 DEF ToSet
<1>4. /\ range \in Seq(all) /\ cells \in Seq(all)
      /\ m > skip => {"start", "stop"} \subseteq ToSet(range) /\ Columns \subseteq ToSet(cells)
    BY <1>1, <1>2, <1>3
<1>5. Writes(m, skip) = <<"name">> \o range \o <<"count">> \o cells
    BY DEF Writes
<1> HIDE DEF all, range, cells
<1> DEFINE first == <<"name">> \o range
           second == first \o <<"count">>
<1>6. first \in Seq(all) /\ ToSet(<<"name">>) \cup ToSet(range) \subseteq ToSet(first)
    BY <1>2, <1>4, ListedInBoth
<1> HIDE DEF first
<1>7. second \in Seq(all) /\ ToSet(first) \cup ToSet(<<"count">>) \subseteq ToSet(second)
    BY <1>2, <1>6, ListedInBoth
<1> HIDE DEF second
<1>8. ToSet(second) \cup ToSet(cells) \subseteq ToSet(second \o cells)
    BY <1>4, <1>7, ListedInBoth
<1>9. Writes(m, skip) = second \o cells
    BY <1>5 DEF first, second
<1>10. QED
    BY <1>3, <1>4, <1>6, <1>7, <1>8, <1>9 DEF HeaderFields

\* No column is named like a header variable: the definitions would not fit.
LEMMA NamesDiffer ==
    ASSUME IInv, pc = "write", NEW c \in Columns
    PROVE  c \notin HeaderFields
<1>1. schema.vars[c].dims = <<"i">> /\ \A v \in HeaderFields : schema.vars[v].dims = <<"j">>
    <2>1. WritesFitTheSchema /\ pc \in {"file", "write", "done"}
        BY Fitting
    <2>2. schema.vars[c] = [type |-> TypeOf(opt.size[c]), dims |-> <<"i">>]
        BY <2>1 DEF WritesFitTheSchema
    <2>3. \A v \in HeaderFields : schema.vars[v].dims = <<"j">>
        BY <2>1 DEF WritesFitTheSchema, HeaderFields
    <2>4. QED
        BY <2>2, <2>3
<1>2. <<"i">>[1] # <<"j">>[1]
    OBVIOUS
<1>3. QED
    BY <1>1, <1>2

\* What a write leaves in the rows it covers and in those below.
LEMMA Overwritten ==
    ASSUME NEW s \in Seq(Cell), NEW t \in Seq(Cell), NEW offset \in Nat
    PROVE  /\ Len(Overwrite(s, offset, t)) >= offset + Len(t)
           /\ \A k \in 1 .. Len(t) : Overwrite(s, offset, t)[offset + k] = t[k]
           /\ \A r \in 1 .. offset : r <= Len(Overwrite(s, offset, t)) =>
                 Overwrite(s, offset, t)[r] = IF r <= Len(s) THEN s[r] ELSE Fill
<1> DEFINE m == IF Len(s) < offset + Len(t) THEN offset + Len(t) ELSE Len(s)
           x == [k \in 1 .. m |-> IF k <= Len(s) THEN s[k] ELSE Fill]
           y == [k \in 1 .. m |-> IF offset < k /\ k <= offset + Len(t) THEN t[k - offset] ELSE x[k]]
<1>1. m \in Nat /\ m >= offset + Len(t)
    OBVIOUS
<1>2. Overwrite(s, offset, t) = y
    <2>1. Extend(s, offset + Len(t), Fill) = x /\ DOMAIN x = 1 .. m
        BY DEF Extend
    <2> HIDE DEF x, m
    <2>2. QED
        BY <2>1 DEF Overwrite
<1>3. Len(y) = m
    <2> DEFINE cell(k) == IF offset < k /\ k <= offset + Len(t) THEN t[k - offset] ELSE x[k]
    <2>1. y = [k \in 1 .. m |-> cell(k)]
        OBVIOUS
    <2> HIDE DEF cell, m, y
    <2>2. QED
        BY <1>1, <2>1
<1>4. \A k \in 1 .. Len(t) : y[offset + k] = t[k]
    <2>1. TAKE k \in 1 .. Len(t)
    <2>2. offset + k \in 1 .. m /\ offset < offset + k /\ offset + k <= offset + Len(t) /\ offset + k - offset = k
        BY <1>1
    <2> HIDE DEF m
    <2>3. QED
        BY <2>2
<1>5. \A r \in 1 .. offset : r <= m => y[r] = IF r <= Len(s) THEN s[r] ELSE Fill
    BY <1>1
<1> HIDE DEF y, m
<1>6. QED
    BY <1>1, <1>2, <1>3, <1>4, <1>5

SetField(s, j, w, v) == [Extend(s, j, NoHeader) EXCEPT ![j][w] = v]

\* A field of a header row set: the other fields and rows are as they were.
LEMMA HeaderSet ==
    ASSUME NEW s \in Seq(HeaderRow), NEW j \in Nat \ {0}, NEW w \in HeaderFields, NEW v
    PROVE  LET t == SetField(s, j, w, v)
           IN  /\ Len(t) >= Len(s) /\ Len(t) >= j
               /\ \A k \in 1 .. Len(s) : k # j => t[k] = s[k]
               /\ t[j][w] = v
               /\ j <= Len(s) => \A f \in HeaderFields : f # w => t[j][f] = s[j][f]
<1> DEFINE x == Extend(s, j, NoHeader)
           row == [x[j] EXCEPT ![w] = v]
           t == [x EXCEPT ![j] = row]
<1>1. NoHeader \in HeaderRow
    BY DEF NoHeader, HeaderRow
<1>2. j \in Nat
    OBVIOUS
<1>3. /\ x \in Seq(HeaderRow) /\ Len(x) >= Len(s) /\ Len(x) >= j
      /\ \A k \in 1 .. Len(s) : x[k] = s[k]
    <2>1. PICK S : S = HeaderRow
      OBVIOUS
    <2>2. s \in Seq(S) /\ NoHeader \in S
      BY <1>1, <2>1
    <2>3. /\ x \in Seq(S) /\ Len(x) >= Len(s) /\ Len(x) >= j
          /\ \A k \in 1 .. Len(s) : x[k] = s[k]
      BY ONLY <1>2, <2>2, Extending, ZenonT(30)
    <2>4. QED
      BY <2>1, <2>3
<1> HIDE DEF x
<1>4. x[j] \in HeaderRow
    BY <1>3
<1>5. row[w] = v /\ \A f \in HeaderFields : f # w => row[f] = x[j][f]
    BY <1>4 DEF HeaderRow, HeaderFields
<1> HIDE DEF row
<1>6. DOMAIN t = DOMAIN x /\ t[j] = row /\ \A k \in 1 .. Len(x) : k # j => t[k] = x[k]
    BY <1>3
<1>7. Len(t) = Len(x)
    BY <1>3
<1> HIDE DEF t
<1>8. \A k \in 1 .. Len(s) : k # j => t[k] = s[k]
    BY <1>3, <1>6
<1>9. j <= Len(s) => \A f \in HeaderFields : f # w => t[j][f] = s[j][f]
    BY <1>3, <1>5, <1>6
<1>10. SetField(s, j, w, v) = t
    BY DEF x, row, t, SetField
<1>11. QED
    BY <1>3, <1>5, <1>6, <1>7, <1>8, <1>9, <1>10

-----------------------------------------------------------------------------
(* Rows *)

LEMMA BeforeFacts ==
    ASSUME opt \in Options, NEW c \in Columns
    PROVE  /\ EarlierRows \in Nat
           /\ Before(c) \in Seq(Cell) /\ Len(Before(c)) = EarlierRows
           /\ \A r \in 1 .. EarlierRows :
                 Before(c)[r] = IF c \in DOMAIN opt.base.vars THEN BaseRecords[r] ELSE Fill
<1>1. EarlierRows \in {0, BaseRows} /\ BaseRows \in Nat
    BY RowsAssumption DEF EarlierRows
<1>2. \A r \in 1 .. EarlierRows : <<0, r - 1>> \in Cell /\ BaseRecords[r] = <<0, r - 1>> /\ Fill \in Cell
    <2>1. TAKE r \in 1 .. EarlierRows
    <2>2. r \in 1 .. BaseRows
        BY <1>1
    <2>3. BaseRecords[r] = <<0, r - 1>>
        BY <2>2 DEF BaseRecords
    <2>4. 0 \in 0 .. NFiles /\ r - 1 \in 0 .. MaxRecords + BaseRows
        BY <1>1, <2>2, FilesAssumption, RowsAssumption
    <2>5. QED
        BY <2>3, <2>4 DEF Cell
<1> DEFINE row(r) == IF c \in DOMAIN opt.base.vars THEN BaseRecords[r] ELSE Fill
<1>3. \A r \in 1 .. EarlierRows : row(r) \in Cell
    BY <1>2
<1>4. Before(c) = [r \in 1 .. EarlierRows |-> row(r)]
    BY DEF Before
<1> HIDE DEF row
<1>5. Before(c) \in Seq(Cell) /\ Len(Before(c)) = EarlierRows
    BY <1>1, <1>3, <1>4
<1>6. QED
    BY <1>1, <1>4, <1>5 DEF row

LEMMA DropFacts ==
    ASSUME opt \in Options
    PROVE  Skipped = Drop(ii) /\ \A j : Drop(j) \in 0 .. 1
<1>1. opt.skip \in {"no", "first", "all"}
    BY Shapes DEF IsOption
<1>2. Skipped = Drop(ii)
    BY <1>1 DEF Skipped, Drop
<1>3. QED
    BY <1>2 DEF Drop

\* The wanted records of a file: none, or all but those dropped.
LEMMA WantedFacts ==
    ASSUME Types, NEW j \in Files
    PROVE  /\ Wanted(j) \in Seq(Cell)
           /\ result[j] <= Drop(j) => Wanted(j) = << >>
           /\ result[j] > Drop(j) => Len(Wanted(j)) = result[j] - Drop(j)
           /\ Len(Wanted(j)) \in Nat
           /\ \A k \in 1 .. Len(Wanted(j)) : Wanted(j)[k] = <<j, Drop(j) + k - 1>>
<1> DEFINE m == result[j] - Drop(j)
           len == IF m > 0 THEN m ELSE 0
<1>1. Drop(j) \in 0 .. 1 /\ result[j] \in 0 .. MaxRecords /\ MaxRecords \in Nat
    BY DropFacts, RowsAssumption DEF Types
<1>2. len \in Nat
    BY <1>1
<1>3. Wanted(j) = [k \in 1 .. len |-> <<j, Drop(j) + k - 1>>]
    BY DEF Wanted, Drop
<1>4. ASSUME NEW k \in 1 .. len PROVE <<j, Drop(j) + k - 1>> \in Cell
    <2>1. m > 0 /\ k <= m
        BY <1>1, <1>4
    <2>2. Drop(j) + k - 1 \in 0 .. MaxRecords + BaseRows
        BY <1>1, <2>1, RowsAssumption
    <2>3. j \in 0 .. NFiles
        BY FilesAssumption DEF Files
    <2>4. QED
        BY <2>2, <2>3 DEF Cell
<1>5. Wanted(j) \in Seq(Cell) /\ Len(Wanted(j)) = len
    <2> HIDE DEF len
    <2>1. QED
        BY <1>2, <1>3, <1>4
<1>6. result[j] <= Drop(j) => len = 0
    BY <1>1
<1>7. result[j] <= Drop(j) => Wanted(j) = << >>
    BY <1>5, <1>6
<1>8. result[j] > Drop(j) => len = result[j] - Drop(j)
    BY <1>1
<1>9. \A k \in 1 .. Len(Wanted(j)) : Wanted(j)[k] = <<j, Drop(j) + k - 1>>
    BY <1>3, <1>5
<1> HIDE DEF len
<1>10. QED
    BY <1>2, <1>5, <1>7, <1>8, <1>9

WantedList == [j \in Files |-> Wanted(j)]

LEMMA WantedListFacts ==
    ASSUME Types
    PROVE  WantedList \in Seq(Seq(Cell)) /\ Len(WantedList) = NFiles
<1>1. \A j \in Files : Wanted(j) \in Seq(Cell)
    BY WantedFacts
<1>2. WantedList \in [1 .. NFiles -> Seq(Cell)]
    BY <1>1 DEF WantedList, Files
<1>3. QED
    BY <1>2, FilesAssumption

LEMMA WantedRowsFacts ==
    ASSUME Types, NEW c \in Columns
    PROVE  /\ WantedRows(c) = Before(c) \o FlattenSeq(WantedList)
           /\ FlattenSeq(WantedList) \in Seq(Cell)
           /\ WantedRows(c) \in Seq(Cell)
<1>1. WantedRows(c) = Before(c) \o FlattenSeq(WantedList)
    BY DEF WantedRows, WantedList
<1>2. FlattenSeq(WantedList) \in Seq(Cell)
    BY WantedListFacts, FlattenType
<1>3. Before(c) \in Seq(Cell)
    BY BeforeFacts DEF Types
<1>4. QED
    BY <1>1, <1>2, <1>3

\* Before a file is written to its end, only the earlier run's rows are wanted.
LEMMA NothingWanted ==
    ASSUME Types, \A j \in Files : result[j] = 0, NEW c \in Columns
    PROVE  WantedRows(c) = Before(c)
<1>1. \A j \in Files : Wanted(j) = << >>
    <2>1. \A j \in Files : result[j] <= Drop(j)
        BY DropFacts DEF Types
    <2>2. QED
        BY <2>1, WantedFacts
<1>2. PICK tt \in Seq(Seq(Cell)) : tt = WantedList
    BY WantedListFacts
<1>3. EmptyBehind(tt, 0)
    <2>1. Len(tt) = NFiles /\ 0 + 1 = 1
        BY <1>2, WantedListFacts
    <2>2. \A j \in 1 .. NFiles : WantedList[j] = << >>
        BY <1>1 DEF WantedList, Files
    <2>3. \A j \in 0 + 1 .. Len(tt) : tt[j] = << >>
        BY <1>2, <2>1, <2>2
    <2>4. QED
        BY <2>3 DEF EmptyBehind
<1>4. FlattenSeq(WantedList) = << >>
    BY <1>2, <1>3, FlattenAllEmpty
<1>5. Before(c) \in Seq(Cell)
    BY BeforeFacts DEF Types
<1>6. QED
    BY <1>4, <1>5, WantedRowsFacts, ConcatEmptySeq

\* Steps that leave the rows and what is wanted alone.
LEMMA QuietRows ==
    ASSUME IInv, JInv, UNCHANGED <<opt, column, hdr, indexOffset, jOffset, result>>,
           Types', ii' >= ii, Started' => Started
    PROVE  Ahead' /\ Rows' /\ Headers'
<1>1. Ahead'
    BY DEF JInv, Ahead, IInv, Types, Files
<1>2. \A c : WantedRows(c)' = WantedRows(c) /\ \A r : Shown(c, r)' = Shown(c, r)
    BY DEF WantedRows, Wanted, Before, EarlierRows, Appends, Shown
<1>3. Rows'
    BY <1>2 DEF JInv, Rows
<1>4. \A j, h : Points(j, h)' <=> Points(j, h)
    BY DEF Points, Wanted, Drop, Holds
<1>5. Headers'
    BY <1>4 DEF JInv, Headers
<1>6. QED
    BY <1>1, <1>3, <1>5

-----------------------------------------------------------------------------
(* The invariant of the rows is inductive *)

LEMMA RowsInit == Init => JInv
<1> SUFFICES ASSUME Init PROVE JInv
    OBVIOUS
<1>1. ~Started /\ pc # "write"
    BY DEF Init, Started
<1>2. Ahead
    BY DEF Init, Ahead
<1>3. QED
    BY <1>1, <1>2 DEF JInv, Rows, Written, Headers

\* The steps that write nothing.
LEMMA RowsQuietSteps ==
    ASSUME IInv, JInv, IInv',
           \/ OpenBatch /\ batchStart > 1
           \/ Defined /\ batchStart > 1
           \/ Define \/ DefineStops \/ CloseBatch \/ Fatal
           \/ Unreadable \/ LoadThrows \/ LoadEmpty \/ WriteFails
    PROVE  JInv'
<1>1. OpenBatch /\ batchStart > 1 => Reopen
    BY FitIsThere DEF IInv, Defining, Reopen, OpenBatch
<1>2. UNCHANGED <<opt, column, hdr, indexOffset, jOffset, result>>
    <2>1. CASE OpenBatch /\ batchStart > 1
        BY <1>1, <2>1 DEF OpenBatch
    <2>2. CASE Defined /\ batchStart > 1
        BY <2>2 DEF Defined, Offsets
    <2>3. CASE Define \/ DefineStops \/ CloseBatch \/ Fatal
        BY <2>3 DEF Define, DefineStops, CloseBatch, Fatal
    <2>4. CASE Unreadable \/ LoadThrows \/ LoadEmpty \/ WriteFails
        BY <2>4 DEF Unreadable, LoadThrows, LoadEmpty, WriteFails
    <2>5. QED
        BY <2>1, <2>2, <2>3, <2>4
<1>3. ii' >= ii
    <2>1. ii \in Nat
        BY FilesAssumption DEF IInv, Types
    <2>2. ii' \in {ii, ii + 1}
        BY DEF OpenBatch, Defined, Define, DefineStops, CloseBatch, Fatal, Unreadable, LoadThrows,
               LoadEmpty, WriteFails, GiveUp, NextFile
    <2>3. QED
        BY <2>1, <2>2
<1>4. pc' # "write" /\ (Started' => Started)
    BY DEF OpenBatch, Defined, Define, DefineStops, CloseBatch, Fatal, Unreadable, LoadThrows,
           LoadEmpty, WriteFails, GiveUp, InFile, Started
<1>5. Ahead' /\ Rows' /\ Headers'
    BY <1>2, <1>3, <1>4, QuietRows DEF IInv
<1>6. Written'
    BY <1>4 DEF Written
<1>7. QED
    BY <1>5, <1>6 DEF JInv

\* The first batch is opened: nothing is written yet.
LEMMA RowsOpenFirst == ASSUME IInv, JInv, OpenBatch, batchStart = 1 PROVE JInv'
<1>1. ~Started' /\ pc' # "write"
    BY DEF OpenBatch, Started
<1>2. Ahead'
    BY DEF OpenBatch, JInv, Ahead
<1>3. QED
    BY <1>1, <1>2 DEF JInv, Rows, Written, Headers

\* The rows of the first batch go behind those of the earlier run.
LEMMA FirstRows ==
    ASSUME IInv, pc = "define", batchStart = 1
    PROVE  (IF opt.append THEN Longest(column) ELSE 0) = EarlierRows
<1>1. /\ column \in {[c \in AllColumns |-> << >>], [c \in AllColumns |-> BaseColumn(c)]}
      /\ Appends => column = [c \in AllColumns |-> BaseColumn(c)]
    BY DEF IInv, Untouched
<1>2. BaseRows \in Nat /\ BaseRows > 0 /\ Len(BaseRecords) = BaseRows /\ Len(<< >>) = 0
    BY RowsAssumption DEF BaseRecords
<1> DEFINE S == {0} \cup {Len(column[c]) : c \in DOMAIN column}
<1>3. DOMAIN column = AllColumns
    BY DEF IInv, Types
<1>4. Longest(column) = Max(S)
    BY DEF Longest
<1>5. CASE ~Appends
    <2>1. EarlierRows = 0
        BY <1>5 DEF EarlierRows
    <2>2. CASE ~opt.append
        BY <2>1, <2>2
    <2>3. CASE opt.append
        <3>1. opt.base = NewFile
            BY <1>5, <2>3 DEF Appends
        <3>2. \A c \in AllColumns : BaseColumn(c) = << >>
            BY <3>1 DEF BaseColumn, NewFile
        <3>3. \A c \in AllColumns : Len(column[c]) = 0
            BY <1>1, <1>2, <3>2
        <3>4. 0 \in S /\ S \subseteq {0, 0}
            BY <1>3, <3>3
        <3>5. Max(S) \in S
            BY ONLY <3>4, 0 \in Nat, LongestOf
        <3>6. QED
            BY <1>4, <2>1, <2>3, <3>4, <3>5
    <2>4. QED
        BY <2>2, <2>3
<1>6. CASE Appends
    <2>1. opt.append /\ \A c \in AllColumns : column[c] = BaseColumn(c)
        BY <1>1, <1>6 DEF Appends
    <2>2. \A c \in AllColumns :
              Len(column[c]) = IF c \in DOMAIN opt.base.vars THEN BaseRows ELSE 0
        BY <1>2, <2>1 DEF BaseColumn
    <2>3. 0 \in S /\ S \subseteq {0, BaseRows}
        BY <1>3, <2>2
    <2>4. Max(S) \in S /\ \A y \in S : Max(S) >= y
        BY ONLY <1>2, <2>3, LongestOf
    <2>5. CASE \E c \in AllColumns : c \in DOMAIN opt.base.vars
        <3>1. BaseRows \in S
            BY <1>3, <2>2, <2>5
        <3>2. Max(S) = BaseRows
            BY <1>2, <2>3, <2>4, <3>1
        <3>3. QED
            BY <1>4, <1>6, <2>1, <2>5, <3>2 DEF EarlierRows
    <2>6. CASE ~\E c \in AllColumns : c \in DOMAIN opt.base.vars
        <3>1. S \subseteq {0}
            BY <1>3, <2>2, <2>6
        <3>2. QED
            BY <1>4, <1>6, <2>4, <2>6, <3>1 DEF EarlierRows
    <2>7. QED
        BY <2>5, <2>6
<1>7. QED
    BY <1>5, <1>6

LEMMA RowsDefinedFirst == ASSUME IInv, JInv, IInv', Defined, batchStart = 1 PROVE JInv'
<1>1. /\ opt' = opt /\ column' = column /\ hdr' = hdr /\ result' = result /\ ii' = ii
      /\ pc = "define" /\ pc' = "file"
      /\ indexOffset' = IF opt.append THEN Longest(column) ELSE 0
    BY DEF Defined, Offsets
<1>2. \A j \in Files : result[j] = 0
    BY <1>1 DEF IInv, Untouched
<1>3. indexOffset' = EarlierRows
    BY <1>1, FirstRows
<1>4. Ahead'
    BY <1>1, <1>2 DEF Ahead
<1>5. Headers'
    BY <1>1, <1>2 DEF Headers
<1>6. Written'
    BY <1>1 DEF Written
<1>7. ASSUME NEW c \in Columns
      PROVE  /\ Len(WantedRows(c)) = EarlierRows
             /\ \A r \in 1 .. EarlierRows : Shown(c, r) = WantedRows(c)[r]
    <2>1. WantedRows(c) = Before(c)
        BY <1>2, NothingWanted DEF IInv
    <2>2. /\ EarlierRows \in Nat /\ Len(Before(c)) = EarlierRows
          /\ \A r \in 1 .. EarlierRows :
                Before(c)[r] = IF c \in DOMAIN opt.base.vars THEN BaseRecords[r] ELSE Fill
        BY BeforeFacts DEF IInv, Types
    <2>3. ASSUME NEW r \in 1 .. EarlierRows PROVE Shown(c, r) = Before(c)[r]
        <3>1. Appends /\ EarlierRows = BaseRows /\ c \in AllColumns
            BY <2>3 DEF EarlierRows, AllColumns
        <3>2. column[c] = BaseColumn(c) /\ Len(BaseRecords) = BaseRows
            BY <1>1, <3>1, RowsAssumption DEF IInv, Untouched, BaseRecords
        <3>3. CASE c \in DOMAIN opt.base.vars
            BY <2>2, <3>1, <3>2, <3>3 DEF Shown, BaseColumn
        <3>4. CASE c \notin DOMAIN opt.base.vars
            BY <2>2, <3>1, <3>2, <3>4 DEF Shown, BaseColumn
        <3>5. QED
            BY <3>3, <3>4
    <2>4. QED
        BY <2>1, <2>2, <2>3
<1>8. \A c : WantedRows(c)' = WantedRows(c) /\ \A r : Shown(c, r)' = Shown(c, r)
    BY <1>1 DEF WantedRows, Wanted, Before, EarlierRows, Appends, Shown
<1>9. Rows'
    BY <1>3, <1>7, <1>8 DEF Rows
<1>10. QED
    BY <1>4, <1>5, <1>6, <1>9 DEF JInv

LEMMA RowsStay == ASSUME IInv, JInv, UNCHANGED vars PROVE JInv'
<1>1. UNCHANGED <<opt, column, hdr, indexOffset, jOffset, result>> /\ ii' >= ii /\ (Started' => Started)
    BY FilesAssumption DEF vars, Started, IInv, Types
<1>2. Types'
    BY DEF vars, IInv, Types
<1>3. Ahead' /\ Rows' /\ Headers'
    BY <1>1, <1>2, QuietRows
<1>4. Written'
    BY DEF JInv, Written, Drop, HeaderAsked, HeaderValue, Holds, vars
<1>5. QED
    BY <1>3, <1>4 DEF JInv

LEMMA RowsLoadRecords == ASSUME IInv, JInv, IInv', LoadRecords PROVE JInv'
<1>1. /\ UNCHANGED <<opt, column, hdr, indexOffset, jOffset, result, ii, batchStart>>
      /\ pc = "file" /\ pc' = "write"
    BY DEF LoadRecords, InFile
<1>2. ii' >= ii /\ Started
    BY <1>1, FilesAssumption DEF IInv, Types, Started
<1>3. Ahead' /\ Rows' /\ Headers'
    BY <1>1, <1>2, QuietRows DEF IInv
<1>4. n' \in Nat /\ Skipped \in Nat
    BY RowsAssumption DEF LoadRecords, Skipped
<1>5. PICK m \in Nat, skip \in Nat : m = n' /\ skip = Skipped
    BY <1>4
<1>6. /\ {"name", "count"} \subseteq ToSet(todo')
      /\ m > skip => HeaderFields \cup Columns \subseteq ToSet(todo')
    BY <1>5, WritesAll DEF LoadRecords
<1>7. kStart' = Drop(ii)' /\ kStart' = skip /\ n' = m
    BY <1>1, <1>5, DropFacts DEF LoadRecords, IInv, Types, Drop
<1>8. HeaderAsked' \subseteq ToSet(todo')
    BY <1>6, <1>7 DEF HeaderAsked
<1>9. Written'
    BY <1>6, <1>7, <1>8 DEF Written
<1>10. QED
    BY <1>3, <1>9 DEF JInv

\* What a write has in common: what is still to be written.
LEMMA StillToWrite ==
    ASSUME IInv, Write
    PROVE  /\ todo \in Seq(Columns \cup HeaderFields) /\ todo # << >>
           /\ Head(todo) \in Columns \cup HeaderFields
           /\ todo' = Tail(todo)
           /\ ToSet(todo) \subseteq {Head(todo)} \cup ToSet(todo')
<1>1. todo \in Seq(Columns \cup HeaderFields) /\ todo # << >> /\ todo' = Tail(todo)
    BY DEF IInv, Types, Write
<1>2. QED
    BY <1>1, HeadOrTail

LEMMA RowsWriteCells ==
    ASSUME IInv, JInv, IInv', Write, Head(todo) \in Columns
    PROVE  JInv'
<1>1. /\ UNCHANGED <<opt, hdr, indexOffset, jOffset, ii, batchStart, n, kStart, result>>
      /\ pc = "write" /\ pc' = "write"
    BY DEF Write
<1>2. PICK w \in Columns : w = Head(todo)
    OBVIOUS
<1>3. column' = [column EXCEPT ![w] = Overwrite(@, indexOffset, Records)]
    BY <1>2 DEF Write
<1>4. w \in AllColumns /\ column[w] \in Seq(Cell) /\ indexOffset \in Nat /\ Records \in Seq(Cell)
    BY <1>1, RecordsAreCells DEF AllColumns, IInv, Types
<1> DEFINE new == Overwrite(column[w], indexOffset, Records)
<1>5. /\ new \in Seq(Cell) /\ Len(new) >= Len(column[w])
      /\ \A k \in 1 .. Len(column[w]) : k <= indexOffset => new[k] = column[w][k]
    BY ONLY <1>4, Overwriting
<1>6. /\ Len(new) >= indexOffset + Len(Records)
      /\ \A k \in 1 .. Len(Records) : new[indexOffset + k] = Records[k]
      /\ \A r \in 1 .. indexOffset : r <= Len(new) =>
            new[r] = IF r <= Len(column[w]) THEN column[w][r] ELSE Fill
    BY ONLY <1>4, Overwritten
<1>7. /\ column'[w] = new
      /\ \A c \in Columns : c # w => column'[c] = column[c]
    <2>1. \A c \in Columns : c \in AllColumns
        BY DEF AllColumns
    <2> HIDE DEF new
    <2>2. column' = [column EXCEPT ![w] = new]
        BY <1>3 DEF new
    <2>3. QED
        BY <2>1, <2>2, <1>4 DEF IInv, Types
<1> HIDE DEF new
<1>8. n - kStart \in Nat /\ Len(Records) = n - kStart
      /\ \A k \in 1 .. n - kStart : Records[k] = <<ii, kStart + k - 1>>
    <2>1. n - kStart \in Nat
        BY <1>1, RowsAssumption DEF IInv, Types
    <2>2. QED
        BY <2>1 DEF Records
<1>9. ASSUME NEW c \in Columns, NEW r \in 1 .. indexOffset
      PROVE  Shown(c, r)' = Shown(c, r)
    <2>1. CASE c # w
        BY <1>7, <2>1 DEF Shown
    <2>2. CASE c = w
        BY <1>4, <1>5, <1>6, <1>7, <2>2 DEF Shown
    <2>3. QED
        BY <2>1, <2>2
<1>10. ASSUME NEW c \in Columns, NEW offset \in Nat, NEW j, NEW first, NEW m \in Nat,
              offset + m <= indexOffset, Holds(c, offset, j, first, m)
       PROVE  Holds(c, offset, j, first, m)'
    <2>1. CASE c # w
        BY <1>7, <1>10, <2>1 DEF Holds
    <2>2. CASE c = w
        <3>1. offset + m <= Len(column[w]) /\ \A k \in 1 .. m : column[w][offset + k] = <<j, first + k - 1>>
            BY <1>10, <2>2 DEF Holds
        <3>2. \A k \in 1 .. m : offset + k \in 1 .. Len(column[w]) /\ offset + k <= indexOffset
            BY <1>4, <1>10, <3>1
        <3>3. \A k \in 1 .. m : new[offset + k] = <<j, first + k - 1>>
            BY <1>5, <3>1, <3>2
        <3>4. offset + m <= Len(new)
            BY <1>4, <1>5, <3>1
        <3>5. QED
            BY <1>7, <2>2, <3>3, <3>4 DEF Holds
    <2>3. QED
        BY <2>1, <2>2
<1>11. Ahead'
    BY <1>1 DEF JInv, Ahead
<1>12. Rows'
    <2>1. \A c : WantedRows(c)' = WantedRows(c)
        BY <1>1 DEF WantedRows, Wanted, Before, EarlierRows, Appends
    <2>2. Started /\ Started'
        BY <1>1 DEF Started
    <2>3. \A c \in Columns : Len(WantedRows(c)) = indexOffset
              /\ \A r \in 1 .. indexOffset : Shown(c, r) = WantedRows(c)[r]
        BY <2>2 DEF JInv, Rows
    <2>4. \A c \in Columns : Len(WantedRows(c)') = indexOffset'
              /\ \A r \in 1 .. indexOffset' : Shown(c, r)' = WantedRows(c)'[r]
        BY <1>1, <1>9, <2>1, <2>3
    <2>5. QED
        BY <2>4 DEF Rows
<1>13. Headers'
    <2> SUFFICES ASSUME NEW j \in Files, result[j] > 0
                 PROVE  j + jOffset <= Len(hdr) /\ Points(j, hdr[j + jOffset])'
        BY <1>1 DEF Headers
    <2>1. j + jOffset <= Len(hdr) /\ Points(j, hdr[j + jOffset])
        BY <1>1 DEF JInv, Headers, Started
    <2>2. PICK m \in Nat, d \in 0 .. 1 : m = Len(Wanted(j)) /\ d = Drop(j)
        BY WantedFacts, DropFacts DEF IInv, Types
    <2>3. Wanted(j)' = Wanted(j) /\ Drop(j)' = d
        BY <1>1, <2>2 DEF Wanted, Drop
    <2> DEFINE h == hdr[j + jOffset]
    <2>4. /\ h.name = j /\ h.count = m
          /\ m > 0 => /\ h.start \in Nat /\ h.stop = h.start + m - 1
                      /\ h.start + m <= indexOffset
                      /\ \A c \in Columns : Holds(c, h.start, j, d, m)
        BY <2>1, <2>2 DEF Points
    <2>5. h' = h /\ Len(Wanted(j))' = m
        BY <1>1, <2>2, <2>3
    <2> HIDE DEF h
    <2>6. ASSUME m > 0 PROVE Points(j, h)'
        <3>1. PICK start \in Nat : start = h.start
            BY <2>4, <2>6
        <3>2. \A c \in Columns : Holds(c, start, j, d, m)'
            BY <1>10, <2>4, <2>6, <3>1
        <3>3. h.start' = start
            BY <2>5, <3>1
        <3>4. \A c \in Columns : Holds(c, h.start, j, Drop(j), m)'
            BY <2>3, <3>2, <3>3 DEF Holds
        <3>5. QED
            BY <1>1, <2>4, <2>5, <3>3, <3>4 DEF Points, Holds
    <2>7. ASSUME ~(m > 0) PROVE Points(j, h)'
        BY <2>4, <2>5, <2>7 DEF Points
    <2>8. QED
        BY <2>1, <2>6, <2>7 DEF h
<1>14. Written'
    <2>1. /\ kStart = Drop(ii)
          /\ \A v \in HeaderAsked : v \in ToSet(todo) \/
                (ii + jOffset <= Len(hdr) /\ hdr[ii + jOffset][v] = HeaderValue(v))
          /\ n > kStart => \A c \in Columns : c \in ToSet(todo) \/
                Holds(c, indexOffset, ii, kStart, n - kStart)
        BY <1>1 DEF JInv, Written
    <2>2. ToSet(todo) \subseteq {w} \cup ToSet(todo')
        BY <1>2, StillToWrite
    <2>3. \A v \in HeaderAsked : v # w
        BY <1>1, NamesDiffer DEF HeaderAsked, HeaderFields
    <2>4. \A v : HeaderValue(v)' = HeaderValue(v)
        BY <1>1 DEF HeaderValue
    <2>5. Drop(ii)' = Drop(ii) /\ HeaderAsked' = HeaderAsked
        BY <1>1 DEF Drop, HeaderAsked
    <2>6. \A c \in Columns : c # w => Holds(c, indexOffset, ii, kStart, n - kStart)' =
                                      Holds(c, indexOffset, ii, kStart, n - kStart)
        BY <1>1, <1>7 DEF Holds
    <2>7. Holds(w, indexOffset, ii, kStart, n - kStart)'
        BY <1>1, <1>6, <1>7, <1>8 DEF Holds
    <2>8. n > kStart => \A c \in Columns : c \in ToSet(todo') \/
                Holds(c, indexOffset, ii, kStart, n - kStart)'
        BY <2>1, <2>2, <2>6, <2>7
    <2>9. \A v \in HeaderAsked : v \in ToSet(todo') \/
                (ii + jOffset <= Len(hdr) /\ hdr[ii + jOffset][v] = HeaderValue(v))
        BY <2>1, <2>2, <2>3
    <2>10. QED
        BY <1>1, <2>1, <2>4, <2>5, <2>8, <2>9 DEF Written
<1>15. QED
    BY <1>11, <1>12, <1>13, <1>14 DEF JInv

LEMMA RowsWriteHeader ==
    ASSUME IInv, JInv, IInv', Write, Head(todo) \notin Columns
    PROVE  JInv'
<1>1. /\ UNCHANGED <<opt, column, indexOffset, jOffset, ii, batchStart, n, kStart, result>>
      /\ pc = "write" /\ pc' = "write"
    BY DEF Write
<1>2. PICK w \in HeaderFields : w = Head(todo)
    BY StillToWrite
<1>3. hdr' = [Extend(hdr, ii + jOffset, NoHeader) EXCEPT ![ii + jOffset][w] = HeaderValue(w)]
    BY <1>2 DEF Write, SetHeader, HeaderValue
<1>4. hdr \in Seq(HeaderRow) /\ ii + jOffset \in Nat \ {0} /\ ii \in Files /\ jOffset \in 0 .. 1
    BY <1>1, FilesAssumption DEF IInv, Types
<1>5. PICK j \in Nat \ {0}, value \in {HeaderValue(w)} : j = ii + jOffset
    BY <1>4
<1>6. hdr' = [Extend(hdr, j, NoHeader) EXCEPT ![j][w] = value]
    BY <1>3, <1>5
<1>7. /\ Len(hdr') >= Len(hdr) /\ Len(hdr') >= j
      /\ \A k \in 1 .. Len(hdr) : k # j => hdr'[k] = hdr[k]
      /\ hdr'[j][w] = value
      /\ j <= Len(hdr) => \A f \in HeaderFields : f # w => hdr'[j][f] = hdr[j][f]
    <2>1. hdr' = SetField(hdr, j, w, value)
        BY <1>6 DEF SetField
    <2>2. QED
        BY ONLY <1>4, <2>1, w \in HeaderFields, j \in Nat \ {0}, HeaderSet
<1>8. Ahead'
    BY <1>1 DEF JInv, Ahead
<1>9. Rows'
    <2>1. \A c : WantedRows(c)' = WantedRows(c) /\ \A r : Shown(c, r)' = Shown(c, r)
        BY <1>1 DEF WantedRows, Wanted, Before, EarlierRows, Appends, Shown
    <2>2. Started
        BY <1>1 DEF Started
    <2>3. QED
        BY <1>1, <2>1, <2>2 DEF JInv, Rows
<1>10. Headers'
    <2> SUFFICES ASSUME NEW f \in Files, result[f] > 0
                 PROVE  (f + jOffset <= Len(hdr) /\ Points(f, hdr[f + jOffset]))'
        BY <1>1 DEF Headers
    <2>1. f + jOffset <= Len(hdr) /\ Points(f, hdr[f + jOffset])
        BY <1>1 DEF JInv, Headers, Started
    <2>2. f < ii
        BY <1>4 DEF JInv, Ahead, Files
    <2>3. f + jOffset \in 1 .. Len(hdr) /\ f + jOffset # j
        BY <1>4, <1>5, <2>1, <2>2, FilesAssumption DEF Files
    <2>4. hdr'[f + jOffset] = hdr[f + jOffset] /\ f + jOffset <= Len(hdr')
        BY <1>7, <2>3
    <2>5. \A h : Points(f, h)' <=> Points(f, h)
        BY <1>1 DEF Points, Wanted, Drop, Holds
    <2>6. QED
        BY <1>1, <2>1, <2>4, <2>5
<1>11. Written'
    <2>1. /\ kStart = Drop(ii)
          /\ \A v \in HeaderAsked : v \in ToSet(todo) \/
                (j <= Len(hdr) /\ hdr[j][v] = HeaderValue(v))
          /\ n > kStart => \A c \in Columns : c \in ToSet(todo) \/
                Holds(c, indexOffset, ii, kStart, n - kStart)
        BY <1>1, <1>5 DEF JInv, Written
    <2>2. ToSet(todo) \subseteq {w} \cup ToSet(todo')
        BY <1>2, StillToWrite
    <2>3. \A v : HeaderValue(v)' = HeaderValue(v)
        BY <1>1 DEF HeaderValue
    <2>4. Drop(ii)' = Drop(ii) /\ HeaderAsked' = HeaderAsked
        BY <1>1 DEF Drop, HeaderAsked
    <2>5. \A c : Holds(c, indexOffset, ii, kStart, n - kStart)' =
                 Holds(c, indexOffset, ii, kStart, n - kStart)
        BY <1>1 DEF Holds
    <2>6. \A c \in Columns : c # w
        BY <1>1, NamesDiffer
    <2>7. ASSUME NEW v \in HeaderAsked
          PROVE  v \in ToSet(todo') \/ (j <= Len(hdr') /\ hdr'[j][v] = HeaderValue(v))
        <3>1. v \in HeaderFields
            BY DEF HeaderAsked, HeaderFields
        <3>2. CASE v = w
            BY <1>5, <1>7, <3>2
        <3>3. CASE v # w
            BY <1>7, <2>1, <2>2, <3>1, <3>3
        <3>4. QED
            BY <3>2, <3>3
    <2>8. n > kStart => \A c \in Columns : c \in ToSet(todo') \/
                Holds(c, indexOffset, ii, kStart, n - kStart)'
        BY <2>1, <2>2, <2>5, <2>6
    <2>9. j = ii' + jOffset'
        BY <1>1, <1>5
    <2>10. QED
        BY <1>1, <2>1, <2>3, <2>4, <2>7, <2>8, <2>9 DEF Written
<1>12. QED
    BY <1>8, <1>9, <1>10, <1>11 DEF JInv

\* The same of the rows wanted after a step.
LEMMA WantedImplied ==
    Types =>
        /\ WantedList \in Seq(Seq(Cell)) /\ Len(WantedList) = NFiles
        /\ \A j \in Files :
              /\ Wanted(j) \in Seq(Cell)
              /\ result[j] <= Drop(j) => Wanted(j) = << >>
              /\ result[j] > Drop(j) => Len(Wanted(j)) = result[j] - Drop(j)
              /\ \A k \in 1 .. Len(Wanted(j)) : Wanted(j)[k] = <<j, Drop(j) + k - 1>>
BY WantedFacts, WantedListFacts
LEMMA WantedNext ==
    Types' =>
       (/\ WantedList \in Seq(Seq(Cell)) /\ Len(WantedList) = NFiles
        /\ \A j \in Files :
              /\ Wanted(j) \in Seq(Cell)
              /\ result[j] <= Drop(j) => Wanted(j) = << >>
              /\ result[j] > Drop(j) => Len(Wanted(j)) = result[j] - Drop(j)
              /\ \A k \in 1 .. Len(Wanted(j)) : Wanted(j)[k] = <<j, Drop(j) + k - 1>>)'
BY WantedImplied, PTL

\* The file at hand, written to its end, adds its records behind the others'.
LEMMA NextRows ==
    ASSUME IInv, JInv, IInv', Advance, NEW i \in Files, i = ii
    PROVE  /\ Wanted(i)' \in Seq(Cell) /\ Len(Wanted(i)') = n - kStart
           /\ \A k \in 1 .. n - kStart : Wanted(i)'[k] = <<i, kStart + k - 1>>
           /\ \A j \in Files : j # i => Wanted(j)' = Wanted(j)
           /\ FlattenSeq(WantedList') = FlattenSeq(WantedList) \o Wanted(i)'
<1>1. /\ opt' = opt /\ result' = [result EXCEPT ![ii] = n]
      /\ pc = "write" /\ ii \in Files
    BY DEF Advance, IInv, Types
<1>2. i = ii
    OBVIOUS
<1>3. n - kStart \in Nat /\ kStart = Drop(i) /\ n \in Nat /\ kStart \in 0 .. 1
    BY <1>1, <1>2, RowsAssumption DEF IInv, Types, JInv, Written
<1>4. Drop(i)' = Drop(i) /\ result'[i] = n
    BY <1>1, <1>2 DEF Drop, IInv, Types
<1>5. \A j \in Files : j # i => Wanted(j)' = Wanted(j)
    BY <1>1, <1>2 DEF Wanted, IInv, Types
<1>6. \A j \in Files : j >= i => Wanted(j) = << >>
    <2>1. \A j \in Files : j >= i => result[j] <= Drop(j)
        <3>1. \A j \in Files : j >= i => result[j] = 0
            BY <1>2 DEF JInv, Ahead
        <3>2. \A j \in Files : Drop(j) \in 0 .. 1
            BY DropFacts DEF IInv, Types
        <3>3. QED
            BY <3>1, <3>2
    <2>2. QED
        BY <2>1, WantedFacts DEF IInv
<1>7. /\ Wanted(i)' \in Seq(Cell) /\ Len(Wanted(i)') = n - kStart
      /\ \A k \in 1 .. n - kStart : Wanted(i)'[k] = <<i, kStart + k - 1>>
    <2>1. /\ Wanted(i)' \in Seq(Cell)
          /\ (result[i] <= Drop(i) => Wanted(i) = << >>)'
          /\ (result[i] > Drop(i) => Len(Wanted(i)) = result[i] - Drop(i))'
          /\ (\A k \in 1 .. Len(Wanted(i)) : Wanted(i)[k] = <<i, Drop(i) + k - 1>>)'
        BY WantedNext DEF IInv
    <2>2. PICK w \in Seq(Cell) : w = Wanted(i)'
        BY <2>1
    <2>3. /\ n <= kStart => w = << >>
          /\ n > kStart => Len(w) = n - kStart
          /\ \A k \in 1 .. Len(w) : w[k] = <<i, kStart + k - 1>>
        BY <1>3, <1>4, <2>1, <2>2
    <2>4. Len(w) = n - kStart
        BY <1>3, <2>3
    <2>5. QED
        BY <2>2, <2>3, <2>4
<1>8. PICK ss \in Seq(Seq(Cell)), tt \in Seq(Seq(Cell)) : ss = WantedList /\ tt = WantedList'
    BY WantedListFacts, WantedNext DEF IInv
<1>9. Len(ss) = NFiles /\ Len(tt) = NFiles
    BY <1>8, WantedListFacts, WantedNext DEF IInv
<1>10. /\ \A j \in Files : ss[j] = Wanted(j)
       /\ \A j \in Files : tt[j] = Wanted(j)'
    BY <1>8 DEF WantedList
<1>11. SameUpto(ss, tt, i - 1)
    <2>1. \A j \in 1 .. i - 1 : j \in Files /\ j # i
        BY FilesAssumption DEF Files
    <2>2. QED
        BY <1>5, <1>10, <2>1 DEF SameUpto
<1>12. EmptyBehind(ss, i - 1)
    <2>1. i - 1 + 1 = i
        BY DEF Files
    <2>2. \A j \in i .. Len(ss) : j \in Files /\ j >= i
        BY <1>9, FilesAssumption DEF Files
    <2>3. QED
        BY <1>6, <1>10, <2>1, <2>2 DEF EmptyBehind
<1>13. EmptyBehind(tt, i)
    <2>1. \A j \in i + 1 .. Len(tt) : j \in Files /\ j >= i /\ j # i
        BY <1>9, FilesAssumption DEF Files
    <2>2. QED
        BY <1>5, <1>6, <1>10, <2>1 DEF EmptyBehind
<1>14. FlattenSeq(tt) = FlattenSeq(ss) \o tt[i]
    <2>1. i \in 1 .. Len(tt) /\ Len(ss) = Len(tt)
        BY <1>9 DEF Files
    <2>2. QED
        BY ONLY <1>8, <1>11, <1>12, <1>13, <2>1, FlattenFill, ss \in Seq(Seq(Cell)), tt \in Seq(Seq(Cell))
<1>15. QED
    BY <1>5, <1>7, <1>8, <1>10, <1>14

LEMMA Appended ==
    ASSUME NEW a \in Seq(Cell), NEW b \in Seq(Cell), NEW c \in Seq(Cell)
    PROVE  a \o (b \o c) = (a \o b) \o c
OBVIOUS

LEMMA RowsAdvance == ASSUME IInv, JInv, IInv', Advance PROVE JInv'
<1>1. /\ UNCHANGED <<opt, column, hdr, jOffset, batchStart, todo>>
      /\ pc = "write" /\ pc' = "file" /\ todo = << >>
      /\ indexOffset' = indexOffset + (n - kStart)
      /\ result' = [result EXCEPT ![ii] = n]
      /\ ii' = ii + 1
    BY DEF Advance, NextFile
<1>2. PICK i \in Files : i = ii
    BY <1>1 DEF IInv, Types
<1>3. n - kStart \in Nat /\ n \in 0 .. MaxRecords /\ kStart = Drop(i) /\ kStart \in 0 .. 1 /\ indexOffset \in Nat
    BY <1>1, <1>2, RowsAssumption DEF IInv, Types, JInv, Written
<1>4. /\ Wanted(i)' \in Seq(Cell) /\ Len(Wanted(i)') = n - kStart
      /\ \A k \in 1 .. n - kStart : Wanted(i)'[k] = <<i, kStart + k - 1>>
      /\ \A j \in Files : j # i => Wanted(j)' = Wanted(j)
      /\ FlattenSeq(WantedList') = FlattenSeq(WantedList) \o Wanted(i)'
    BY <1>2, NextRows
<1>5. ToSet(todo) = {}
    BY <1>1 DEF ToSet
<1>6. /\ \A v \in HeaderAsked : i + jOffset <= Len(hdr) /\ hdr[i + jOffset][v] = HeaderValue(v)
      /\ n > kStart => \A c \in Columns : Holds(c, indexOffset, i, kStart, n - kStart)
    BY <1>1, <1>2, <1>5 DEF JInv, Written
<1>7. Ahead'
    <2>1. \A j \in Files : j >= ii + 1 => j # ii /\ j >= ii
        BY <1>2 DEF Files
    <2>2. QED
        BY <1>1, <1>2, <2>1 DEF JInv, Ahead, IInv, Types
<1>8. Rows'
    <2> SUFFICES ASSUME NEW c \in Columns
                 PROVE  /\ Len(WantedRows(c))' = indexOffset'
                        /\ \A r \in 1 .. indexOffset' : Shown(c, r)' = WantedRows(c)'[r]
        BY DEF Rows
    <2>1. /\ Len(WantedRows(c)) = indexOffset /\ WantedRows(c) \in Seq(Cell)
          /\ \A r \in 1 .. indexOffset : Shown(c, r) = WantedRows(c)[r]
        BY <1>1, WantedRowsFacts DEF JInv, Rows, Started, IInv
    <2>2. PICK w \in Seq(Cell), a \in Seq(Cell), b \in Seq(Cell) :
              w = Wanted(i)' /\ a = Before(c) /\ b = FlattenSeq(WantedList)
        BY <1>4, BeforeFacts, WantedRowsFacts DEF IInv, Types
    <2>3. WantedRows(c)' = a \o (b \o w)
        <3>1. Before(c)' = a
            BY <1>1, <2>2 DEF Before, EarlierRows, Appends
        <3>2. FlattenSeq(WantedList)' = b \o w
            BY <1>4, <2>2
        <3>3. WantedRows(c)' = Before(c)' \o FlattenSeq(WantedList)'
            BY DEF WantedRows, WantedList
        <3>4. QED
            BY <3>1, <3>2, <3>3
    <2>4. WantedRows(c) = a \o b
        BY <2>2, WantedRowsFacts DEF IInv
    <2>5. a \o (b \o w) = (a \o b) \o w
        BY ONLY a \in Seq(Cell), b \in Seq(Cell), w \in Seq(Cell), <2>2, Appended
    <2>6. PICK old \in Seq(Cell) : old = a \o b
        <3>1. a \o b \in Seq(Cell)
            OBVIOUS
        <3>2. QED
            BY <3>1
    <2>7. WantedRows(c)' = old \o w /\ WantedRows(c) = old
        BY <2>3, <2>4, <2>5, <2>6
    <2>8. PICK m \in Nat, from \in Nat : m = n - kStart /\ from = indexOffset
        BY <1>3
    <2>9. Len(old) = from /\ Len(w) = m /\ \A k \in 1 .. m : w[k] = <<i, kStart + k - 1>>
        BY <1>4, <2>1, <2>2, <2>7, <2>8
    <2>10. /\ Len(old \o w) = from + m
           /\ \A r \in 1 .. from : (old \o w)[r] = old[r]
           /\ \A k \in 1 .. m : (old \o w)[from + k] = w[k]
        <3>1. /\ Len(old \o w) = Len(old) + Len(w)
              /\ \A r \in 1 .. Len(old) : (old \o w)[r] = old[r]
              /\ \A k \in 1 .. Len(w) : (old \o w)[Len(old) + k] = w[k]
            BY ONLY old \in Seq(Cell), w \in Seq(Cell)
        <3>2. QED
            BY <2>9, <3>1
    <2>11. PICK all : all = old \o w
        OBVIOUS
    <2>12. \A r \in 1 .. from : all[r] = old[r]
        BY <2>10, <2>11
    <2>13. ASSUME NEW r \in 1 .. from + m
           PROVE  Shown(c, r) = all[r]
        <3>1. CASE r <= from
            <4>1. r \in 1 .. from
                BY <3>1
            <4>2. QED
                BY <2>1, <2>7, <2>8, <2>12, <4>1
        <3>2. CASE r > from
            <4>1. PICK k \in 1 .. m : r = from + k
                <5>1. r - from \in 1 .. m /\ r = from + (r - from)
                    BY <3>2
                <5>2. QED
                    BY <5>1
            <4>2. n > kStart /\ Holds(c, from, i, kStart, m)
                <5>1. n > kStart
                    BY <1>3, <2>8, <4>1
                <5>2. QED
                    BY <1>6, <2>8, <5>1
            <4>3. r <= Len(column[c]) /\ column[c][r] = <<i, kStart + k - 1>>
                <5>1. from + m <= Len(column[c])
                      /\ column[c][from + k] = <<i, kStart + k - 1>>
                    BY <4>2 DEF Holds
                <5>2. column[c] \in Seq(Cell)
                    BY DEF IInv, Types, AllColumns
                <5>3. QED
                    BY <4>1, <5>1, <5>2
            <4>4. all[r] = <<i, kStart + k - 1>>
                BY <2>9, <2>10, <2>11, <4>1
            <4>5. QED
                BY <4>3, <4>4 DEF Shown
        <3>3. QED
            BY <3>1, <3>2
    <2>14. \A r : Shown(c, r)' = Shown(c, r)
        BY <1>1 DEF Shown
    <2>15. QED
        BY <1>1, <2>7, <2>8, <2>10, <2>11, <2>13, <2>14
<1>9. Headers'
    <2> SUFFICES ASSUME NEW j \in Files, result'[j] > 0
                 PROVE  (j + jOffset <= Len(hdr) /\ Points(j, hdr[j + jOffset]))'
        BY DEF Headers
    <2>1. \A c, offset, f, first, m : Holds(c, offset, f, first, m)' <=> Holds(c, offset, f, first, m)
        BY <1>1 DEF Holds
    <2>2. Drop(j)' = Drop(j)
        BY <1>1 DEF Drop
    <2>3. hdr' = hdr /\ jOffset' = jOffset
        BY <1>1
    <2>4. CASE j # i
        <3>1. result[j] > 0
            BY <1>1, <1>2, <2>4 DEF IInv, Types
        <3>2. j + jOffset <= Len(hdr) /\ Points(j, hdr[j + jOffset])
            BY <1>1, <3>1 DEF JInv, Headers, Started
        <3>3. PICK m \in Nat, d \in 0 .. 1 : m = Len(Wanted(j)) /\ d = Drop(j)
            BY WantedFacts, DropFacts DEF IInv, Types
        <3>4. Len(Wanted(j)') = m /\ Drop(j)' = d
            BY <1>4, <2>2, <2>4, <3>3
        <3> DEFINE h == hdr[j + jOffset]
        <3>5. /\ h.name = j /\ h.count = m
              /\ m > 0 => /\ h.start \in Nat /\ h.stop = h.start + m - 1
                          /\ h.start + m <= indexOffset
                          /\ \A c \in Columns : Holds(c, h.start, j, d, m)
            BY <3>2, <3>3 DEF Points
        <3>6. h' = h
            BY <2>3
        <3> HIDE DEF h
        <3>7. m > 0 => h.start + m <= indexOffset'
            BY <1>1, <1>3, <3>5
        <3>8. m > 0 => \A c \in Columns : Holds(c, h.start, j, d, m)'
            BY <1>1, <3>5, <3>6 DEF Holds
        <3>9. Points(j, h)'
            BY <3>4, <3>5, <3>6, <3>7, <3>8 DEF Points, Holds
        <3>10. QED
            BY <2>3, <3>2, <3>9 DEF h
    <2>5. CASE j = i
        <3>1. PICK m \in Nat : m = n - kStart
            BY <1>3
        <3>2. Len(Wanted(j)') = m /\ Drop(j)' = kStart
            BY <1>3, <1>4, <2>2, <2>5, <3>1
        <3>3. "name" \in HeaderAsked /\ "count" \in HeaderAsked
              /\ (n > kStart => "start" \in HeaderAsked /\ "stop" \in HeaderAsked)
            BY DEF HeaderAsked, HeaderFields
        <3> DEFINE h == hdr[j + jOffset]
        <3>4. /\ j + jOffset <= Len(hdr) /\ h.name = j /\ h.count = m
              /\ m > 0 => h.start = indexOffset /\ h.stop = indexOffset + n - kStart - 1
            BY <1>2, <1>3, <1>6, <2>5, <3>1, <3>3 DEF HeaderValue
        <3>5. m > 0 => \A c \in Columns : Holds(c, indexOffset, j, kStart, m)
            BY <1>3, <1>6, <2>5, <3>1
        <3>6. h' = h
            BY <2>3
        <3> HIDE DEF h
        <3>7. m > 0 => h.start \in Nat /\ h.stop = h.start + m - 1 /\ h.start + m <= indexOffset'
            <4>1. PICK from \in Nat : from = indexOffset
                BY <1>3
            <4>2. from + n - kStart - 1 = from + m - 1 /\ from + (n - kStart) = from + m
                BY <1>3, <3>1
            <4>3. QED
                BY <1>1, <3>4, <4>1, <4>2
        <3>8. PICK start : start = indexOffset
            OBVIOUS
        <3>9. m > 0 => h.start = start /\ h'.start = start /\ \A c \in Columns : Holds(c, start, j, kStart, m)
            BY <3>4, <3>5, <3>6, <3>8
        <3>10. m > 0 => \A c \in Columns : Holds(c, h.start, j, Drop(j), m)'
            BY <1>1, <3>2, <3>9 DEF Holds
        <3>11. Points(j, h)'
            BY <3>2, <3>4, <3>6, <3>7, <3>10 DEF Points, Holds
        <3>12. QED
            BY <2>3, <3>4, <3>11 DEF h
    <2>6. QED
        BY <2>4, <2>5
<1>10. Written'
    BY <1>1 DEF Written
<1>11. QED
    BY <1>7, <1>8, <1>9, <1>10 DEF JInv

LEMMA RowsWrite == ASSUME IInv, JInv, IInv', Write PROVE JInv'
BY RowsWriteCells, RowsWriteHeader

LEMMA RowsStep == IInv /\ JInv /\ IInv' /\ [Next]_vars => JInv'
<1> SUFFICES ASSUME IInv, JInv, IInv', [Next]_vars PROVE JInv'
    OBVIOUS
<1>1. batchStart = 1 \/ batchStart > 1
    BY DEF IInv, Types
<1>2. CASE OpenBatch \/ Defined
    BY <1>1, <1>2, RowsOpenFirst, RowsDefinedFirst, RowsQuietSteps
<1>3. CASE Define \/ DefineStops \/ CloseBatch \/ Fatal
    BY <1>3, RowsQuietSteps
<1>4. CASE Unreadable \/ LoadThrows \/ LoadEmpty \/ WriteFails
    BY <1>4, RowsQuietSteps
<1>5. CASE LoadRecords
    BY <1>5, RowsLoadRecords
<1>6. CASE Write
    BY <1>6, RowsWrite
<1>7. CASE Advance
    BY <1>7, RowsAdvance
<1>8. CASE Stay \/ UNCHANGED vars
    BY <1>8, RowsStay DEF Stay
<1>9. QED
    BY <1>2, <1>3, <1>4, <1>5, <1>6, <1>7, <1>8 DEF Next

LEMMA RowsInvariance == Spec => [](IInv /\ JInv)
<1>1. Init => IInv /\ JInv
    BY InitHolds, RowsInit
<1>2. (IInv /\ JInv) /\ [Next]_vars => (IInv /\ JInv)'
    BY StepHolds, RowsStep
<1>3. QED
    BY <1>1, <1>2, PTL DEF Spec

-----------------------------------------------------------------------------
(* Theorems *)

\* The types hold for every number of files, records and columns and every
\* command line (dbd2netCDF.C:206-376).
THEOREM TypeCorrect == Spec => []TypeOK
<1>1. IInv => TypeOK
    <2> SUFFICES ASSUME IInv PROVE TypeOK
        OBVIOUS
    <2>1. \A c \in AllColumns : \A r \in DOMAIN column[c] : column[c][r] \in Cell
        BY DEF IInv, Types
    <2>2. \A j \in DOMAIN hdr : hdr[j] \in HeaderRow
        BY DEF IInv, Types
    <2>3. \A h \in HeaderRow : DOMAIN h = {"name", "start", "stop", "count"}
        BY DEF HeaderRow
    <2>4. QED
        BY <2>1, <2>2, <2>3 DEF IInv, Types, TypeOK
<1>2. QED
    BY <1>1, Invariance, PTL

\* A value is written only to a variable of the type and along the dimension
\* its sensor calls for, in every batch and whatever output is appended to
\* (MyNetCDF.C:77-103, 139-191, dbd2netCDF.C:252-285).
THEOREM OnlyFittingWrites == Spec => []WritesFitTheSchema
<1>1. QED
    BY Fitting, Invariance, PTL

\* A run that stops over the definitions stops in its first batch, before a row
\* is written or the rows of the earlier runs are touched
\* (MyNetCDF.C:149-186, dbd2netCDF.C:240-290).
THEOREM NoLateMismatch == Spec => []MismatchStopsAtOnce
<1>1. IInv => MismatchStopsAtOnce
    BY DEF IInv, Defining, Untouched, MismatchStopsAtOnce
<1>2. QED
    BY <1>1, Invariance, PTL

\* Appending never touches the rows and header rows of the earlier runs,
\* whatever the batches and the failures (dbd2netCDF.C:243, 288-289).
THEOREM EarlierRunsStay == Spec => []AppendKeepsEarlierRuns
<1>1. IInv => AppendKeepsEarlierRuns
    <2> SUFFICES ASSUME IInv, Appends, NEW c \in AllColumns, c \in DOMAIN opt.base.vars
                 PROVE  SubSeq(column[c], 1, BaseRows) = BaseRecords
        BY DEF AppendKeepsEarlierRuns, IInv, Kept
    <2>1. /\ Len(column[c]) >= BaseRows
          /\ \A k \in 1 .. BaseRows : column[c][k] = BaseRecords[k]
        BY DEF IInv, Kept, Old
    <2>2. column[c] \in Seq(Cell) /\ BaseRows \in Nat
        BY RowsAssumption DEF IInv, Types
    <2>3. SubSeq(column[c], 1, BaseRows) = [k \in 1 .. BaseRows |-> column[c][k]]
        BY <2>1, <2>2
    <2>4. BaseRecords = [k \in 1 .. BaseRows |-> BaseRecords[k]]
        BY DEF BaseRecords
    <2>5. QED
        BY <2>1, <2>3, <2>4
<1>2. QED
    BY <1>1, Invariance, PTL

\* Whatever the batches, the failures and the options, the rows before
\* indexOffset are, in every column alike, those of the earlier run and then
\* the wanted records of each file written to its end, in order
\* (dbd2netCDF.C:287-363).
THEOREM RowsAreTheFiles == Spec => []OutputIsConcatenation
<1>1. IInv /\ JInv => OutputIsConcatenation
    <2> SUFFICES ASSUME IInv, JInv, pc \in {"file", "write", "refused", "done"}, NEW c \in Columns
                 PROVE  /\ indexOffset = Len(WantedRows(c))
                        /\ Extend(column[c], indexOffset, Fill) = WantedRows(c) \o
                             SubSeq(column[c], indexOffset + 1, Len(column[c]))
        BY DEF OutputIsConcatenation
    <2>1. /\ Len(WantedRows(c)) = indexOffset /\ WantedRows(c) \in Seq(Cell)
          /\ \A r \in 1 .. indexOffset : Shown(c, r) = WantedRows(c)[r]
        BY WantedRowsFacts DEF JInv, Rows, Started, IInv
    <2>2. column[c] \in Seq(Cell) /\ indexOffset \in Nat
        BY DEF IInv, Types, AllColumns
    <2>3. PICK s \in Seq(Cell), wanted \in Seq(Cell), from \in Nat :
              s = column[c] /\ wanted = WantedRows(c) /\ from = indexOffset
        BY <2>1, <2>2
    <2> DEFINE m == IF Len(s) < from THEN from ELSE Len(s)
               rest == SubSeq(s, from + 1, Len(s))
               x == Extend(s, from, Fill)
    <2>4. Len(wanted) = from
          /\ \A r \in 1 .. from : wanted[r] = IF r <= Len(s) THEN s[r] ELSE Fill
        BY <2>1, <2>3 DEF Shown
    <2>5. m \in Nat /\ x = [k \in 1 .. m |-> IF k <= Len(s) THEN s[k] ELSE Fill]
        BY DEF Extend
    <2>6. rest \in Seq(Cell) /\ Len(rest) = m - from
          /\ \A k \in 1 .. m - from : rest[k] = s[from + k]
        OBVIOUS
    <2> HIDE DEF rest, x
    <2>7. /\ Len(wanted \o rest) = m
          /\ wanted \o rest \in Seq(Cell)
          /\ \A r \in 1 .. from : (wanted \o rest)[r] = wanted[r]
          /\ \A k \in 1 .. m - from : (wanted \o rest)[from + k] = rest[k]
        <3>1. PICK tail \in Seq(Cell) : tail = rest
            BY <2>6
        <3>2. /\ Len(wanted \o tail) = Len(wanted) + Len(tail)
              /\ wanted \o tail \in Seq(Cell)
              /\ \A r \in 1 .. Len(wanted) : (wanted \o tail)[r] = wanted[r]
              /\ \A k \in 1 .. Len(tail) : (wanted \o tail)[Len(wanted) + k] = tail[k]
            BY ONLY wanted \in Seq(Cell), tail \in Seq(Cell)
        <3>3. Len(wanted) = from /\ Len(tail) = m - from /\ from + (m - from) = m
            BY <2>4, <2>5, <2>6, <3>1
        <3>4. QED
            BY <3>1, <3>2, <3>3
    <2>8. PICK all \in Seq(Cell) : all = wanted \o rest
        BY <2>7
    <2>9. ASSUME NEW r \in 1 .. m PROVE all[r] = x[r]
        <3>1. CASE r <= from
            BY <2>4, <2>5, <2>7, <2>8, <3>1
        <3>2. CASE r > from
            <4>1. r - from \in 1 .. m - from /\ from + (r - from) = r /\ r <= Len(s)
                BY <2>5, <3>2
            <4>2. PICK k \in 1 .. m - from : r = from + k
                BY <4>1
            <4>3. QED
                BY <2>5, <2>6, <2>7, <2>8, <4>1, <4>2
        <3>3. QED
            BY <3>1, <3>2
    <2>10. all = [r \in 1 .. m |-> all[r]]
        <3>1. Len(all) = m
            BY <2>7, <2>8
        <3>2. all = [r \in 1 .. Len(all) |-> all[r]]
            BY ONLY all \in Seq(Cell)
        <3> HIDE DEF m
        <3>3. QED
            BY <3>1, <3>2
    <2>11. x = [r \in 1 .. m |-> x[r]]
        BY <2>5
    <2>12. all = x
        BY <2>9, <2>10, <2>11
    <2>13. QED
        BY <2>3, <2>4, <2>8, <2>12 DEF x, rest
<1>2. QED
    BY <1>1, RowsInvariance, PTL

\* The header row of a file written to its end names it, counts its records and
\* points at exactly its rows, and stays so whatever fails later
\* (dbd2netCDF.C:323-363).
THEOREM HeadersPoint == Spec => []HeadersOfWrittenFilesPoint
<1>1. IInv /\ JInv => HeadersOfWrittenFilesPoint
    <2> SUFFICES ASSUME IInv, JInv, pc \in {"file", "write", "refused", "done"},
                        NEW j \in Files, result[j] > 0
                 PROVE  /\ j + jOffset <= Len(hdr)
                        /\ LET h == hdr[j + jOffset]
                           IN  h.name = j /\ h.count = Len(Wanted(j)) /\ PointsAtItsRows(h)
        BY DEF HeadersOfWrittenFilesPoint
    <2> DEFINE h == hdr[j + jOffset]
    <2>1. j + jOffset <= Len(hdr) /\ Points(j, h)
        BY DEF JInv, Headers, Started
    <2> HIDE DEF h
    <2>2. PICK m \in Nat : m = Len(Wanted(j))
        BY WantedFacts DEF IInv
    <2>3. /\ h.name = j /\ h.count = m
          /\ m > 0 => /\ h.start \in Nat /\ h.stop = h.start + m - 1
                      /\ \A c \in Columns : Holds(c, h.start, j, Drop(j), m)
        BY <2>1, <2>2 DEF Points
    <2>4. ASSUME h.count \notin {Fill, 0}
          PROVE  /\ h.stop - h.start + 1 = h.count
                 /\ \A c \in Columns : \A r \in h.start .. h.stop :
                       r + 1 <= Len(column[c]) /\ column[c][r + 1][1] = h.name
        <3>1. m > 0
            BY <2>3, <2>4
        <3>2. PICK start \in Nat : start = h.start
            BY <2>3, <3>1
        <3>3. h.stop - h.start + 1 = h.count
            BY <2>3, <3>1, <3>2
        <3>4. ASSUME NEW c \in Columns, NEW r \in start .. start + m - 1
              PROVE  r + 1 <= Len(column[c]) /\ column[c][r + 1][1] = j
            <4>1. /\ start + m <= Len(column[c])
                  /\ \A k \in 1 .. m : column[c][start + k] = <<j, Drop(j) + k - 1>>
                BY <2>3, <3>1, <3>2 DEF Holds
            <4>2. Len(column[c]) \in Nat
                BY DEF IInv, Types, AllColumns
            <4>3. r - start + 1 \in 1 .. m /\ start + (r - start + 1) = r + 1 /\ r + 1 <= start + m
                OBVIOUS
            <4>4. PICK k \in 1 .. m : start + k = r + 1
                BY <4>3
            <4>5. column[c][r + 1] = <<j, Drop(j) + k - 1>>
                BY <4>1, <4>4
            <4>6. QED
                BY <4>1, <4>2, <4>3, <4>5
        <3>5. QED
            BY <2>3, <3>1, <3>2, <3>3, <3>4
    <2>5. PointsAtItsRows(h)
        BY <2>4 DEF PointsAtItsRows
    <2>6. QED
        BY <2>1, <2>2, <2>3, <2>5 DEF h
<1>2. QED
    BY <1>1, RowsInvariance, PTL
=============================================================================
