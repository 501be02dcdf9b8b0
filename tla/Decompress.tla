------------------------------ MODULE Decompress ------------------------------
(* DecompressTWRBuf (src/src/Decompress.C): the stream buffer under every    *)
(* reader of the programs.  The buffer is a record: `left`, the blocks of    *)
(* the file not read yet; `get`, the bytes loaded and not handed out; `pos`, *)
(* mPos, the bytes ever loaded; `eof`.  A compressed file is a sequence of   *)
(* blocks, each of a number of bytes and "whole", "corrupt" (its length is   *)
(* right and its frame does not decompress) or "cut" (the file ends inside   *)
(* its length or its frame).  One that is not compressed is read in blocks   *)
(* of the size of the buffer, and every one is whole.  A byte is             *)
(* <<block, i>>, so that no two are alike.                                   *)
EXTENDS Integers, Sequences, SequencesExt

Block == [size : Nat, state : {"whole", "corrupt", "cut"}]

\* The blocks of a file, numbered.
Numbered(blocks) == [k \in DOMAIN blocks |-> [no |-> k, block |-> blocks[k]]]
Bytes(b) == [i \in 1 .. b.block.size |-> <<b.no, i>>]

Opened(blocks) == [left |-> Numbered(blocks), get |-> << >>, pos |-> 0, eof |-> FALSE]

AtEnd(buf) == buf.left = << >> \/ Head(buf.left).block.state = "cut"

\* One turn of underflow: the end of the file, and a block that does not
\* decompress, end the stream; an empty block is passed over; any other
\* becomes the get area.
UnderflowStopsAtEmpty(buf) ==
    IF AtEnd(buf) \/ Head(buf.left).block.state = "corrupt" \/ Head(buf.left).block.size = 0
    THEN [buf EXCEPT !.eof = TRUE]
    ELSE [buf EXCEPT !.left = Tail(@), !.get = Bytes(Head(buf.left)),
                     !.pos = @ + Head(buf.left).block.size]
Underflow(buf) ==
    IF AtEnd(buf) THEN [buf EXCEPT !.eof = TRUE]
    ELSE IF Head(buf.left).block.state = "corrupt"
         THEN [buf EXCEPT !.left = Tail(@), !.eof = TRUE]
         ELSE [buf EXCEPT !.left = Tail(@), !.get = Bytes(Head(buf.left)),
                          !.pos = @ + Head(buf.left).block.size]

\* seekoff(0, cur), the only seek there is.
Tell(buf) == buf.pos - Len(buf.get)

\* What a reader can get out of a file: the blocks before the first that is
\* not whole.
Damaged(blocks) == \E k \in DOMAIN blocks : blocks[k].state # "whole"
Readable(blocks) ==
    LET sound == {k \in 0 .. Len(blocks) : \A i \in 1 .. k : blocks[i].state = "whole"}
        n == CHOOSE k \in sound : \A i \in sound : i <= k
    IN  FlattenSeq([k \in 1 .. n |-> Bytes(Numbered(blocks)[k])])
=============================================================================
