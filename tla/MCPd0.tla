------------------------------- MODULE MCPd0 -------------------------------
(* Command lines of two files for TLC.  The ensembles differ in where the    *)
(* fixed leader is, behind the velocities or nowhere; the files in how they  *)
(* end.                                                                      *)
EXTENDS Pd0

Ens(types, cells, low, msb) == [types |-> types, cells |-> cells, low |-> low, msb |-> msb]

MCEnsembles == {
    Ens(<<"fixed", "variable", "velocity">>, 1, 3, 1),
    Ens(<<"variable", "velocity", "fixed", "echo">>, 2, 0, 0),
    Ens(<<"variable", "bottom_track", "vmdas">>, 0, 1, 2),
    Ens(<<"velocity", "correlation", "percent_good">>, 0, 0, 0),
    Ens(<<"fixed", "velocity", "other", "bottom_track">>, 255, 2, 0),
    Ens(<<"other">>, 0, 0, 0)}

Files(n, ends) ==
    {[ensembles |-> s, end |-> x, scanned |-> IF x \in {"body", "bad"} THEN 3 ELSE 0] :
        s \in UNION {[1 .. m -> MCEnsembles] : m \in 0 .. n}, x \in ends}

MCInputs == {<<a, b>> : a \in Files(2, Ends), b \in Files(1, {"boundary", "body"})}
=============================================================================
