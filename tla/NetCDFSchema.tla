---------------------------- MODULE NetCDFSchema ----------------------------
(* What the NetCDF class (src/src/MyNetCDF.C) does with the definitions of a *)
(* file: dimensions and variables made, or looked up and checked when the    *)
(* file is reopened.  A schema is [dims, vars, atts]: dims maps a name to    *)
(* its length, 0 for an unlimited one, vars a name to its type and its       *)
(* dimensions; atts says whether the global attributes are there.  Values    *)
(* are the business of the modules that use this one.                        *)
EXTENDS Integers, Sequences, SequencesExt

NewFile == [dims |-> << >>, vars |-> << >>, atts |-> FALSE]

With(f, x, v) == [y \in DOMAIN f \cup {x} |-> IF y = x THEN v ELSE f[y]]

-----------------------------------------------------------------------------
(* Dimensions *)

CreateDimFixed(s, d, len) == [s EXCEPT !.dims = With(s.dims, d, 1)]
CreateDim(s, d, len) == [s EXCEPT !.dims = With(s.dims, d, len)]

\* maybeCreateDim accepts an existing dimension only if it is unlimited.
DimRefused(s, d) == d \in DOMAIN s.dims /\ s.dims[d] # 0
MaybeCreateDim(s, d) == IF d \in DOMAIN s.dims THEN s ELSE CreateDim(s, d, 0)

-----------------------------------------------------------------------------
(* Variables *)

CreateVar(s, v, type, dims) ==
    [s EXCEPT !.vars = With(s.vars, v, [type |-> type, dims |-> dims])]

\* maybeCreateVar accepts an existing variable only with the type and the one
\* dimension the writer expects; its units are not looked at.
VarRefusedByDim(s, v, type, dim) == v \in DOMAIN s.vars /\ s.vars[v].dims # <<dim>>
VarRefused(s, v, type, dim) ==
    v \in DOMAIN s.vars /\ (s.vars[v].type # type \/ s.vars[v].dims # <<dim>>)
MaybeCreateVar(s, v, type, dim) ==
    IF v \in DOMAIN s.vars THEN s ELSE CreateVar(s, v, type, <<dim>>)

-----------------------------------------------------------------------------
(* The chunk sizes of createVar.  `lengths` are the lengths of the variable's *)
(* dimensions at that moment, 0 for an unlimited one with nothing in it, and  *)
(* `limits` what mDimensionLimits has for them, 0 for no limit.               *)

\* What the defined lengths, from the last dimension to the first, leave of the
\* cells a chunk may have.
Left(avail, length) == IF length = 0 THEN avail ELSE avail \div length
AvailableUndivided(lengths, size) == size
Available(lengths, size) ==
    LET left[n \in 0 .. Len(lengths)] ==
            IF n = 0 THEN size ELSE Left(left[n - 1], lengths[Len(lengths) + 1 - n])
    IN  left[Len(lengths)]

\* assignUnlimited: an unlimited dimension takes its limit and leaves the rest
\* to the next, or takes all there is.
AssignUnlimited(acc, d, lengths, limits) ==
    IF acc.avail = 0 \/ lengths[d] # 0 THEN acc
    ELSE IF limits[d] > 0 /\ limits[d] < acc.avail
         THEN [chunk |-> [acc.chunk EXCEPT ![d] = limits[d]],
               avail |-> acc.avail \div limits[d]]
         ELSE [chunk |-> [acc.chunk EXCEPT ![d] = acc.avail], avail |-> 0]

ChunkStart(lengths) == [d \in 1 .. Len(lengths) |-> IF lengths[d] # 0 THEN lengths[d] ELSE 1]
Chunks(lengths, limits, size) ==
    LET acc[n \in 0 .. Len(lengths)] ==
            IF n = 0 THEN [chunk |-> ChunkStart(lengths), avail |-> Available(lengths, size)]
            ELSE AssignUnlimited(acc[n - 1], n, lengths, limits)
    IN  acc[Len(lengths)].chunk
=============================================================================
