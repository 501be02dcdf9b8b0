---------------------------- MODULE DecompressTWR ----------------------------
(* decompressTWR (src/src/decompressTWR.C): each input is read through a     *)
(* Decompress buffer and copied to a temporary file, which is renamed to the *)
(* name of the output when it is complete, or, with -p, to the standard      *)
(* output.  Every call on a file may fail, and the process may be killed     *)
(* between any two.                                                          *)
EXTENDS Decompress

CONSTANTS
    Inputs,    \* the command lines: sequences of files [to, blocks]
    Outputs,   \* the names mkOutputFilename makes; two inputs may share one
    ReadSize,  \* the bytes asked of one read
    Old,       \* what an earlier run left under a name
    None       \* no file

ASSUME InputsAssumption ==
    \A input \in Inputs : input \in Seq([to : Outputs, blocks : Seq(Block)])
ASSUME SizesAssumption == ReadSize \in Nat \ {0}

VARIABLES
    input, pipe,  \* the command line
    pc,           \* where the run is; exits: "done", "failed" (1), "killed"
    f,            \* the file at hand
    buf,          \* its stream buffer
    chunk,        \* what the read at hand got so far
    taken,        \* the bytes all reads of the file got: no variable of the code
    dest,         \* name -> the file it stands for
    temp,         \* the temporary file
    bad,          \* the output stream's badbit
    cout          \* the standard output

vars == <<input, pipe, pc, f, buf, chunk, taken, dest, temp, bad, cout>>

args == <<input, pipe>>
stream == <<buf, chunk, taken>>
outputs == <<dest, temp, bad, cout>>
NoBuffer == Opened(<< >>)

Init ==
    /\ input \in Inputs
    /\ pipe \in BOOLEAN
    /\ pc = "open"
    /\ f = 1
    /\ buf = NoBuffer /\ chunk = << >> /\ taken = << >>
    /\ dest \in {[o \in Outputs |-> c] : c \in {None, Old}}
    /\ temp = None /\ bad = FALSE /\ cout = << >>

File == input[f]

\* The input, and, but for -p, a temporary file beside the output.
OpenFiles ==
    /\ pc = "open"
    /\ f <= Len(input)
    /\ buf' = Opened(File.blocks)
    /\ chunk' = << >> /\ taken' = << >>
    /\ temp' = IF pipe THEN None ELSE << >>
    /\ bad' = IF pipe THEN bad ELSE FALSE
    /\ pc' = "read"
    /\ UNCHANGED <<args, f, dest, cout>>

OpenFails ==
    /\ pc = "open"
    /\ f <= Len(input)
    /\ pc' = "failed"
    /\ UNCHANGED <<args, f, stream, outputs>>

-----------------------------------------------------------------------------
(* The copy loop *)

RoomPast == ReadSize + 1 - Len(chunk)
Room == ReadSize - Len(chunk)

\* read takes from the get area, and asks underflow for more while it has less
\* than it wants.
TakeBytes ==
    /\ pc = "read"
    /\ buf.get # << >> /\ Room > 0
    /\ LET n == IF Len(buf.get) <= Room THEN Len(buf.get) ELSE Room
           some == SubSeq(buf.get, 1, n)
       IN  /\ chunk' = chunk \o some
           /\ taken' = taken \o some
           /\ buf' = [buf EXCEPT !.get = SubSeq(@, n + 1, Len(@))]
    /\ UNCHANGED <<args, pc, f, outputs>>

FillBuffer ==
    /\ pc = "read"
    /\ buf.get = << >> /\ Room > 0 /\ ~buf.eof
    /\ buf' = Underflow(buf)
    /\ UNCHANGED <<args, pc, f, chunk, taken, outputs>>

\* The read is over: it has all it wants, or the stream has ended.
ReadOver == pc = "read" /\ (Room = 0 \/ (buf.get = << >> /\ buf.eof))

Put(file) == IF pipe THEN cout' = cout \o file /\ UNCHANGED temp
             ELSE temp' = temp \o file /\ UNCHANGED cout

\* What was read is written; a stream that failed once takes nothing more.
WriteChunk ==
    /\ ReadOver
    /\ IF bad THEN UNCHANGED <<temp, cout>> ELSE Put(chunk)
    /\ chunk' = << >>
    /\ pc' = IF buf.eof /\ Room > 0 THEN "close" ELSE "read"
    /\ UNCHANGED <<args, f, buf, taken, dest, bad>>

\* The disk is full: a part is written, and the loop reads on to the end.
WriteShort ==
    /\ ReadOver
    /\ ~bad
    /\ \E n \in 0 .. Len(chunk) : n < Len(chunk) /\ Put(SubSeq(chunk, 1, n))
    /\ bad' = TRUE
    /\ chunk' = << >>
    /\ pc' = IF buf.eof /\ Room > 0 THEN "close" ELSE "read"
    /\ UNCHANGED <<args, f, buf, taken, dest>>

-----------------------------------------------------------------------------
(* Publishing *)

NextFile == f' = f + 1 /\ pc' = "open"

\* The standard output is not looked at.
PipedAll ==
    /\ pc = "close"
    /\ pipe
    /\ NextFile
    /\ UNCHANGED <<args, stream, outputs>>

\* close() writes what the stream still holds, which may fail too.
CloseTemp ==
    /\ pc = "close"
    /\ ~pipe
    /\ \/ UNCHANGED <<temp, bad>>
       \/ /\ ~bad /\ temp # << >>
          /\ \E n \in 0 .. Len(temp) - 1 : temp' = SubSeq(temp, 1, n)
          /\ bad' = TRUE
    /\ pc' = "check"
    /\ UNCHANGED <<args, f, stream, dest, cout>>

\* The stream is tested after close(), and only then renamed.
PublishUntested ==
    /\ pc = "check"
    /\ dest' = [dest EXCEPT ![File.to] = temp]
    /\ temp' = None
    /\ NextFile
    /\ UNCHANGED <<args, stream, bad, cout>>
Publish ==
    /\ pc = "check"
    /\ ~bad
    /\ dest' = [dest EXCEPT ![File.to] = temp]
    /\ temp' = None
    /\ NextFile
    /\ UNCHANGED <<args, stream, bad, cout>>

\* A stream that failed, and a rename that fails, end the run; the temporary
\* file is removed.  (That the removal fails as well is left out.)
GiveUpLeaving ==
    /\ pc = "check"
    /\ pc' = "failed"
    /\ UNCHANGED <<args, f, stream, outputs>>
GiveUpOnFile ==
    /\ pc = "check"
    /\ temp' = None
    /\ f' = f + 1
    /\ pc' = "open"
    /\ UNCHANGED <<args, stream, dest, bad, cout>>
GiveUp ==
    /\ pc = "check"
    /\ temp' = None
    /\ pc' = "failed"
    /\ UNCHANGED <<args, f, stream, dest, bad, cout>>

Finish ==
    /\ pc = "open"
    /\ f > Len(input)
    /\ pc' = "done"
    /\ UNCHANGED <<args, f, stream, outputs>>

Exited == pc \in {"done", "failed", "killed"}

\* The process is killed; what is on the disk stays.
Kill ==
    /\ ~Exited
    /\ pc' = "killed"
    /\ UNCHANGED <<args, f, stream, outputs>>

Stay == Exited /\ UNCHANGED vars

Next ==
    \/ OpenFiles \/ OpenFails
    \/ TakeBytes \/ FillBuffer \/ WriteChunk \/ WriteShort
    \/ PipedAll \/ CloseTemp \/ Publish \/ GiveUp
    \/ Finish \/ Kill \/ Stay

Spec == Init /\ [][Next]_vars

-----------------------------------------------------------------------------
(* Properties *)

IsContent(c) == \A b \in ToSet(c) : b \in Nat \X Nat

\* The types of the run's state (Decompress.H, decompressTWR.C:92-153).
TypeOK ==
    /\ input \in Inputs /\ pipe \in BOOLEAN
    /\ pc \in {"open", "read", "close", "check", "done", "failed", "killed"}
    /\ f \in 1 .. Len(input) + 1
    /\ buf.pos \in Nat /\ buf.eof \in BOOLEAN
    /\ IsContent(buf.get) /\ IsContent(chunk) /\ IsContent(taken) /\ IsContent(cout)
    /\ Len(chunk) <= ReadSize
    /\ \A o \in Outputs : dest[o] \in {None, Old} \/ IsContent(dest[o])
    /\ temp = None \/ IsContent(temp)
    /\ bad \in BOOLEAN

\* Whatever the sizes of the blocks and of the reads, empty blocks included,
\* the bytes handed out and those in the get area are the blocks in order, all
\* of them when the stream has ended before the first damaged one; tellg is the
\* number handed out (Decompress.C:28-83).
StreamIsConcatenation ==
    pc \in {"read", "close", "check"} =>
        /\ IsPrefix(taken \o buf.get, Readable(File.blocks))
        /\ Tell(buf) = Len(taken)
        /\ pc # "read" => taken = Readable(File.blocks)

\* A name stands at every moment, a crash or a failure included, for what it
\* stood for before the run or for all that an input gave, never for a part
\* (decompressTWR.C:111-145).
OutputsAreNeverPartial ==
    \A o \in Outputs : dest[o] \in {None, Old} \cup
        {Readable(input[k].blocks) : k \in {j \in DOMAIN input : input[j].to = o}}

LastFor(o) == {k \in DOMAIN input : input[k].to = o /\ \A j \in k + 1 .. Len(input) : input[j].to # o}

\* A run that exits with 0 has published every input, the last one of those
\* that share a name; with -p, and a standard output that takes it, all of them
\* in order (decompressTWR.C:92-155).
SuccessMeansDelivered ==
    pc = "done" =>
        IF pipe THEN bad \/ cout = FlattenSeq([k \in DOMAIN input |-> Readable(input[k].blocks)])
        ELSE \A o \in Outputs : \A k \in LastFor(o) : dest[o] = Readable(input[k].blocks)

\* Only a killed process leaves a temporary file (decompressTWR.C:132-152).
TempsAreRemoved == pc \in {"open", "done", "failed"} => temp = None

\* The output is renamed into place "once the full decompression has succeeded"
\* (doc/decompressTWR.1, NOTES): not for an input that is cut or corrupt.
DamagedInputsAreRefused ==
    pc = "done" /\ ~pipe => \A k \in DOMAIN input : ~Damaged(input[k].blocks)
=============================================================================
