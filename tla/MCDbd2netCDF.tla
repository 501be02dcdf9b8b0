---------------------------- MODULE MCDbd2netCDF ----------------------------
(* Instances of Dbd2netCDF for TLC: every option with every batch size on an *)
(* output of the same sensors, and appending to outputs that are not there,  *)
(* lack a column, have another, or do not fit.                               *)
EXTENDS Dbd2netCDF

CONSTANTS c1, c2, old

Doubles == [c \in {c1, c2} |-> IF c = c1 THEN 8 ELSE 4]
Odd == [c \in {c1, c2} |-> IF c = c1 THEN 8 ELSE 3]

Along(d, type) == [type |-> type, dims |-> <<d>>]
HeaderVars == [name |-> Along("j", "string"), start |-> Along("j", "uint"),
               stop |-> Along("j", "uint"), count |-> Along("j", "uint")]
Output(dims, columns) == [dims |-> dims, vars |-> HeaderVars @@ columns, atts |-> TRUE]

Unlimited == [i |-> 0, j |-> 0]
Same == Output(Unlimited, c1 :> Along("i", "double") @@ c2 :> Along("i", "float"))

Bases == {
    NewFile, Same,
    Output(Unlimited, c1 :> Along("i", "double")),
    Output(Unlimited, c2 :> Along("i", "float") @@ old :> Along("i", "int8")),
    Output(Unlimited, c2 :> Along("i", "double")),
    Output(Unlimited, c1 :> Along("j", "double") @@ c2 :> Along("i", "float")),
    Output([i |-> 0, j |-> 2, k4 |-> 4],
           c1 :> [type |-> "double", dims |-> <<"i", "j", "k4">>])}

Option(append, skip, strict, batch, size, base) ==
    [append |-> append, skip |-> skip, strict |-> strict, batch |-> batch,
     size |-> size, base |-> base]

MCOptions ==
    {Option(a, s, FALSE, b, Doubles, Same) :
        a \in BOOLEAN, s \in {"no", "first", "all"}, b \in 0 .. 2}
    \cup {Option(FALSE, "no", TRUE, b, Doubles, NewFile) : b \in {0, 1}}
    \cup {Option(TRUE, "no", FALSE, b, Doubles, base) : b \in {0, 2}, base \in Bases}
    \cup {Option(a, "no", FALSE, 0, Odd, Same) : a \in BOOLEAN}

PlainOnly == {Option(FALSE, "no", FALSE, 0, Doubles, Same)}
=============================================================================
