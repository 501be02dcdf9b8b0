--------------------------- MODULE MCDecompressTWR ---------------------------
(* Command lines of two inputs for TLC, with the same output or not.  Reads  *)
(* of three bytes span blocks of two, and end inside, at and behind them.    *)
EXTENDS DecompressTWR

MCBlocks == {[size |-> n, state |-> "whole"] : n \in 0 .. 2}
            \cup {[size |-> 1, state |-> s] : s \in {"corrupt", "cut"}}

\* A cut block is the last one of its file.
IsFile(s) == \A k \in DOMAIN s : s[k].state = "cut" => k = Len(s)
Files(n) == {s \in UNION {[1 .. m -> MCBlocks] : m \in 0 .. n} : IsFile(s)}

Plain == << [size |-> 2, state |-> "whole"], [size |-> 2, state |-> "whole"] >>
MCInputs == {<<[to |-> "x", blocks |-> a], [to |-> o, blocks |-> b]>> :
                a \in Files(3), b \in {Plain, << >>}, o \in {"x", "y"}}

ShortInputs == {<<[to |-> "x", blocks |-> a]>> : a \in Files(2)}
=============================================================================
