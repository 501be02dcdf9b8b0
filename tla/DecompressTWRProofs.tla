------------------------- MODULE DecompressTWRProofs -------------------------
(* For every command line, every cutting of the files into blocks and every  *)
(* size of a read: what the stream buffer hands out, what reaches the        *)
(* outputs, and what a run that exits with 0 has delivered.                  *)
EXTENDS DecompressTWR, SharedFacts

Byte == Nat \X Nat
Content == Seq(Byte)

-----------------------------------------------------------------------------
(* The stream buffer *)

LEMMA ContentConcat ==
    ASSUME NEW s \in Content, NEW t \in Content
    PROVE  /\ s \o t \in Content /\ Len(s \o t) = Len(s) + Len(t)
           /\ s \o << >> = s
<1>1. s \in Seq(Byte) /\ t \in Seq(Byte)
  BY DEF Content
<1>2. s \o t \in Seq(Byte) /\ Len(s \o t) = Len(s) + Len(t) /\ s \o << >> = s
  BY ONLY <1>1, ConcatProperties, ConcatEmptySeq
<1>3. QED
  BY <1>2 DEF Content

LEMMA ContentAssociative ==
    ASSUME NEW s \in Content, NEW t \in Content, NEW u \in Content
    PROVE  s \o (t \o u) = (s \o t) \o u
<1>1. s \in Seq(Byte) /\ t \in Seq(Byte) /\ u \in Seq(Byte)
  BY DEF Content
<1>2. QED
  BY ONLY <1>1, ConcatAssociative

\* What the first n blocks of a file give.
Held(blocks, n) == FlattenSeq([k \in 1 .. n |-> Bytes(Numbered(blocks)[k])])

\* The first n blocks are whole.
Whole(blocks, n) == n \in 0 .. Len(blocks) /\ \A k \in 1 .. n : blocks[k].state = "whole"

LEMMA NumberedType ==
    ASSUME NEW blocks \in Seq(Block)
    PROVE  /\ Numbered(blocks) \in Seq([no : Nat, block : Block])
           /\ Len(Numbered(blocks)) = Len(blocks)
           /\ \A k \in 1 .. Len(blocks) : Numbered(blocks)[k] = [no |-> k, block |-> blocks[k]]
<1>1. Numbered(blocks) \in [1 .. Len(blocks) -> [no : Nat, block : Block]]
  BY DEF Numbered
<1>2. QED
  BY <1>1 DEF Numbered

LEMMA BytesType ==
    ASSUME NEW b \in [no : Nat, block : Block]
    PROVE  Bytes(b) \in Content /\ Len(Bytes(b)) = b.block.size
<1>1. b.block.size \in Nat
  BY DEF Block
<1>2. Bytes(b) \in [1 .. b.block.size -> Byte]
  BY <1>1 DEF Bytes, Byte
<1>3. QED
  BY <1>1, <1>2 DEF Content

LEMMA HeldType ==
    ASSUME NEW blocks \in Seq(Block), NEW n \in 0 .. Len(blocks)
    PROVE  /\ [k \in 1 .. n |-> Bytes(Numbered(blocks)[k])] \in Seq(Content)
           /\ Len([k \in 1 .. n |-> Bytes(Numbered(blocks)[k])]) = n
           /\ Held(blocks, n) \in Content
<1> DEFINE ss == [k \in 1 .. n |-> Bytes(Numbered(blocks)[k])]
<1>1. ASSUME NEW k \in 1 .. n PROVE Bytes(Numbered(blocks)[k]) \in Content
  <2>1. k \in 1 .. Len(blocks) /\ k \in Nat /\ blocks[k] \in Block
    OBVIOUS
  <2>2. Numbered(blocks)[k] = [no |-> k, block |-> blocks[k]]
    BY <2>1, NumberedType
  <2>3. QED
    BY <2>1, <2>2, BytesType
<1>2. ss \in [1 .. n -> Content]
  BY <1>1
<1>3. ss \in Seq(Content) /\ Len(ss) = n
  BY <1>2
<1>4. FlattenSeq(ss) \in Content
  BY <1>3, FlattenType DEF Content
<1>5. QED
  BY <1>3, <1>4 DEF Held

\* One block more.
LEMMA HeldNext ==
    ASSUME NEW blocks \in Seq(Block), NEW n \in Nat, n < Len(blocks)
    PROVE  Held(blocks, n + 1) = Held(blocks, n) \o Bytes(Numbered(blocks)[n + 1])
<1>0. n \in 0 .. Len(blocks) /\ n + 1 \in 0 .. Len(blocks)
  OBVIOUS
<1>1. PICK ss \in Seq(Content) : ss = [k \in 1 .. n |-> Bytes(Numbered(blocks)[k])]
  BY <1>0, HeldType
<1>2. PICK tt \in Seq(Content) : tt = [k \in 1 .. n + 1 |-> Bytes(Numbered(blocks)[k])]
  BY <1>0, HeldType
<1>3. Len(ss) = n /\ Len(tt) = n + 1
  BY <1>1, <1>2
<1>4. SameUpto(ss, tt, Len(ss)) /\ tt[n + 1] = Bytes(Numbered(blocks)[n + 1])
  BY <1>1, <1>2, <1>3 DEF SameUpto
<1>5. FlattenSeq(tt) = FlattenSeq(ss) \o tt[Len(tt)]
  BY <1>3, <1>4, FlattenExtend DEF Content
<1>6. QED
  BY <1>1, <1>2, <1>3, <1>4, <1>5 DEF Held

LEMMA HeldNone == ASSUME NEW blocks PROVE Held(blocks, 0) = << >>
<1>1. [k \in 1 .. 0 |-> Bytes(Numbered(blocks)[k])] = << >>
  OBVIOUS
<1>2. QED
  BY <1>1, FlattenEmpty DEF Held

\* What fewer blocks give is a prefix of what more give.
LEMMA HeldPrefix ==
    ASSUME NEW blocks \in Seq(Block), NEW n \in 0 .. Len(blocks), NEW m \in 0 .. n
    PROVE  IsPrefix(Held(blocks, m), Held(blocks, n))
<1>0. m \in 0 .. Len(blocks)
  OBVIOUS
<1>1. PICK ss \in Seq(Content) : ss = [k \in 1 .. m |-> Bytes(Numbered(blocks)[k])]
  BY <1>0, HeldType
<1>2. PICK tt \in Seq(Content) : tt = [k \in 1 .. n |-> Bytes(Numbered(blocks)[k])]
  BY HeldType
<1>3. Len(ss) = m /\ Len(tt) = n
  BY <1>1, <1>2
<1>4. SameUpto(ss, tt, Len(ss))
  BY <1>1, <1>2, <1>3 DEF SameUpto
<1>5. Extension(Byte, FlattenSeq(ss), FlattenSeq(tt))
  BY <1>3, <1>4, FlattenPrefix DEF Content
<1>6. FlattenSeq(ss) \in Content
  BY FlattenType DEF Content
<1>7. QED
  BY <1>1, <1>2, <1>5, <1>6, ExtensionIsPrefix DEF Held, Content

\* A reader gets the blocks before the first that is not whole.
LEMMA ReadableIsHeld ==
    ASSUME NEW blocks \in Seq(Block), NEW n, Whole(blocks, n),
           n = Len(blocks) \/ blocks[n + 1].state # "whole"
    PROVE  Readable(blocks) = Held(blocks, n)
<1> DEFINE sound == {k \in 0 .. Len(blocks) : \A i \in 1 .. k : blocks[i].state = "whole"}
           last == CHOOSE k \in sound : \A i \in sound : i <= k
<1>1. n \in sound
  BY DEF Whole
<1>2. ASSUME NEW i \in sound PROVE i <= n
  <2>1. n \in Nat /\ i \in Nat /\ i <= Len(blocks) /\ n <= Len(blocks)
    BY DEF Whole
  <2>2. n < i => n # Len(blocks) /\ n + 1 \in 1 .. i
    BY <2>1
  <2>3. QED
    BY <2>1, <2>2
<1>3. \A k \in sound : (\A i \in sound : i <= k) => k = n
  BY <1>1, <1>2
<1>4. last = n
  BY <1>1, <1>2, <1>3
<1>5. QED
  BY <1>4 DEF Readable, Held

\* There is such a number of blocks.
LEMMA ReadableExists ==
    ASSUME NEW blocks \in Seq(Block)
    PROVE  \E n : /\ Whole(blocks, n)
                  /\ n = Len(blocks) \/ blocks[n + 1].state # "whole"
                  /\ Readable(blocks) = Held(blocks, n)
<1> DEFINE sound == {k \in Nat : Whole(blocks, k)}
<1>1. 0 \in sound /\ sound \in SUBSET Nat /\ \A k \in sound : k <= Len(blocks)
  BY DEF Whole
<1>2. PICK n \in sound : \A k \in sound : k <= n
  <2>1. Len(blocks) \in Nat /\ sound # {}
    BY <1>1
  <2> HIDE DEF sound
  <2>2. QED
    BY <1>1, <2>1, GreatestNatural
<1>3. n + 1 \notin sound
  BY <1>2
<1>4. n = Len(blocks) \/ blocks[n + 1].state # "whole"
  BY <1>3 DEF Whole
<1>5. QED
  BY <1>4, ReadableIsHeld

LEMMA ReadableType ==
    ASSUME NEW blocks \in Seq(Block)
    PROVE  Readable(blocks) \in Content
BY ReadableExists, HeldType DEF Whole

\* What whole blocks give is a prefix of what can be read.
LEMMA HeldIsReadable ==
    ASSUME NEW blocks \in Seq(Block), NEW m, Whole(blocks, m)
    PROVE  IsPrefix(Held(blocks, m), Readable(blocks))
<1>1. PICK n : /\ Whole(blocks, n)
               /\ n = Len(blocks) \/ blocks[n + 1].state # "whole"
               /\ Readable(blocks) = Held(blocks, n)
  BY ReadableExists
<1>2. m \in 0 .. n /\ n \in 0 .. Len(blocks)
  BY <1>1 DEF Whole
<1>3. QED
  BY <1>1, <1>2, HeldPrefix

-----------------------------------------------------------------------------
(* A reader of the buffer *)

Buffer == [left : Seq([no : Nat, block : Block]), get : Content, pos : Nat, eof : BOOLEAN]

\* The buffer b of a file after its readers got the bytes `given`: it stands
\* behind whole blocks, whose bytes were given or are in the get area, or the
\* stream has ended and all that can be read was given.
Serves(b, blocks, given) ==
    /\ b.pos = Len(given) + Len(b.get)
    /\ b.eof => b.get = << >> /\ given = Readable(blocks)
    /\ ~b.eof => \E n \in 0 .. Len(blocks) :
        /\ Whole(blocks, n)
        /\ b.left = SubSeq(Numbered(blocks), n + 1, Len(blocks))
        /\ given \o b.get = Held(blocks, n)

LEMMA OpenedServes ==
    ASSUME NEW blocks \in Seq(Block)
    PROVE  Opened(blocks) \in Buffer /\ Serves(Opened(blocks), blocks, << >>)
<1>1. Numbered(blocks) \in Seq([no : Nat, block : Block]) /\ Len(Numbered(blocks)) = Len(blocks)
  BY NumberedType
<1>2. Opened(blocks) \in Buffer
  BY <1>1 DEF Opened, Buffer, Content
<1>3. Whole(blocks, 0)
  BY DEF Whole
<1>4. SubSeq(Numbered(blocks), 0 + 1, Len(blocks)) = Numbered(blocks)
  BY <1>1, SubSeqFull
<1>5. << >> \o << >> = Held(blocks, 0)
  BY HeldNone
<1>6. QED
  BY <1>2, <1>3, <1>4, <1>5 DEF Opened, Serves

\* A turn of underflow on an empty get area.
LEMMA UnderflowServes ==
    ASSUME NEW blocks \in Seq(Block), NEW given \in Content, NEW b \in Buffer,
           Serves(b, blocks, given), b.get = << >>, ~b.eof
    PROVE  Underflow(b) \in Buffer /\ Serves(Underflow(b), blocks, given)
<1>1. PICK n : /\ Whole(blocks, n)
               /\ b.left = SubSeq(Numbered(blocks), n + 1, Len(blocks))
               /\ given \o b.get = Held(blocks, n)
  BY DEF Serves
<1>2. given = Held(blocks, n) /\ b.pos = Len(given)
  BY <1>1 DEF Serves, Content
<1>3. PICK N \in Seq([no : Nat, block : Block]) : N = Numbered(blocks)
  BY NumberedType
<1>4. /\ Len(N) = Len(blocks) /\ n \in Nat /\ n <= Len(N)
      /\ \A k \in 1 .. Len(blocks) : N[k] = [no |-> k, block |-> blocks[k]]
  BY <1>1, <1>3, NumberedType DEF Whole
<1>5. b.left = SubSeq(N, n + 1, Len(N))
  BY <1>1, <1>3, <1>4
<1>6. CASE n = Len(blocks)
  <2>1. b.left = << >>
    BY <1>4, <1>5, <1>6
  <2>2. Underflow(b) = [b EXCEPT !.eof = TRUE]
    BY <2>1 DEF Underflow, AtEnd
  <2>3. given = Readable(blocks)
    BY <1>1, <1>2, <1>6, ReadableIsHeld
  <2>4. QED
    BY <2>2, <2>3 DEF Serves, Buffer
<1>7. CASE n # Len(blocks)
  <2>1. /\ n + 1 \in 1 .. Len(blocks)
        /\ b.left # << >>
        /\ Head(b.left) = [no |-> n + 1, block |-> blocks[n + 1]]
        /\ Tail(b.left) = SubSeq(N, (n + 1) + 1, Len(N))
        /\ Tail(b.left) \in Seq([no : Nat, block : Block])
        /\ blocks[n + 1] \in Block
    <3>1. n + 1 \in 1 .. Len(blocks) /\ n + 1 \in Nat /\ n + 1 <= Len(N) /\ Len(N) \in Nat
      BY <1>4, <1>7
    <3>2. b.left # << >> /\ Head(b.left) = N[n + 1] /\ Tail(b.left) = SubSeq(N, (n + 1) + 1, Len(N))
      <4>1. PICK T : N \in Seq(T)
        OBVIOUS
      <4>2. n + 1 \in 1 .. Len(N)
        BY ONLY <3>1, <1>4
      <4>3. QED
        BY ONLY <4>1, <4>2, <1>5, SubSeqHead
    <3>3. b.left \in Seq([no : Nat, block : Block])
      BY DEF Buffer
    <3>4. Tail(b.left) \in Seq([no : Nat, block : Block])
      BY <3>2, <3>3
    <3>5. blocks[n + 1] \in Block /\ N[n + 1] = [no |-> n + 1, block |-> blocks[n + 1]]
      BY <3>1, <1>4
    <3>6. QED
      BY <3>1, <3>2, <3>4, <3>5
  <2> DEFINE h == Head(b.left)
  <2>2. CASE h.block.state # "whole"
    <3>1. \/ Underflow(b) = [b EXCEPT !.eof = TRUE]
          \/ Underflow(b) = [b EXCEPT !.left = Tail(@), !.eof = TRUE]
      <4>1. h.block.state \in {"cut", "corrupt"}
        <5>1. h.block = blocks[n + 1]
          BY <2>1
        <5>2. QED
          BY <2>1, <2>2, <5>1 DEF Block
      <4>2. QED
        BY <2>1, <4>1 DEF Underflow, AtEnd
    <3>2. given = Readable(blocks)
      <4>1. blocks[n + 1].state # "whole"
        BY <2>1, <2>2
      <4>2. Readable(blocks) = Held(blocks, n)
        BY ONLY <1>1, <4>1, ReadableIsHeld, blocks \in Seq(Block)
      <4>3. QED
        BY <1>2, <4>2
    <3>3. QED
      BY <2>1, <3>1, <3>2 DEF Serves, Buffer
  <2>3. CASE h.block.state = "whole"
    <3>1. Underflow(b) = [b EXCEPT !.left = Tail(@), !.get = Bytes(h), !.pos = @ + h.block.size]
      BY <2>1, <2>3 DEF Underflow, AtEnd
    <3>2. h = Numbered(blocks)[n + 1] /\ h \in [no : Nat, block : Block]
      BY <1>3, <1>4, <2>1
    <3>3. Bytes(h) \in Content /\ Len(Bytes(h)) = h.block.size /\ h.block.size \in Nat
      BY <3>2, BytesType DEF Block
    <3>4. Whole(blocks, n + 1)
      BY <1>1, <2>1, <2>3 DEF Whole
    <3>5. given \o Bytes(h) = Held(blocks, n + 1)
      <4>1. n < Len(blocks)
        BY <2>1, <1>4
      <4>2. Held(blocks, n + 1) = Held(blocks, n) \o Bytes(Numbered(blocks)[n + 1])
        BY <4>1, <1>4, HeldNext
      <4>3. QED
        BY <1>2, <3>2, <4>2
    <3>6. SubSeq(N, (n + 1) + 1, Len(N)) = SubSeq(Numbered(blocks), (n + 1) + 1, Len(blocks))
      BY <1>3, <1>4
    <3> HIDE DEF h
    <3>7. Underflow(b) \in Buffer
      <4>1. b.pos + h.block.size \in Nat
        BY <3>3 DEF Buffer
      <4>2. QED
        BY <2>1, <3>1, <3>3, <4>1 DEF Buffer
    <3>8. /\ Underflow(b).left = SubSeq(Numbered(blocks), (n + 1) + 1, Len(blocks))
          /\ Underflow(b).get = Bytes(h) /\ ~Underflow(b).eof
          /\ Underflow(b).pos = Len(given) + Len(Bytes(h))
      BY <1>2, <2>1, <3>1, <3>3, <3>6 DEF Buffer
    <3>9. n + 1 \in 0 .. Len(blocks)
      BY <2>1
    <3>10. QED
      BY <3>4, <3>5, <3>7, <3>8, <3>9 DEF Serves
  <2>4. QED
    BY <2>2, <2>3
<1>8. QED
  BY <1>6, <1>7

\* A reader takes the beginning of the get area.
LEMMA TakenServes ==
    ASSUME NEW blocks \in Seq(Block), NEW given \in Content, NEW b \in Buffer, NEW c \in Buffer,
           NEW some \in Content, Serves(b, blocks, given), b.get # << >>,
           b.get = some \o c.get, c.left = b.left, c.pos = b.pos, c.eof = b.eof
    PROVE  Serves(c, blocks, given \o some)
<1>1. PICK get \in Content, rest \in Content : get = b.get /\ rest = c.get
  BY DEF Buffer
<1>2. ~b.eof
  BY DEF Serves
<1>3. (given \o some) \o rest = given \o get
  <2>1. (given \o some) \o rest = given \o (some \o rest)
    BY ONLY given \in Content, some \in Content, rest \in Content, ContentAssociative
  <2>2. QED
    BY <1>1, <2>1
<1>4. b.pos = Len(given \o some) + Len(rest)
  <2>1. Len(given \o some) = Len(given) + Len(some) /\ Len(get) = Len(some) + Len(rest)
    BY <1>1, ContentConcat
  <2>2. b.pos = Len(given) + Len(get)
    BY <1>1 DEF Serves
  <2>3. Len(given) \in Nat /\ Len(some) \in Nat /\ Len(rest) \in Nat
    BY <1>1 DEF Content
  <2>4. QED
    BY <2>1, <2>2, <2>3
<1>5. QED
  BY <1>1, <1>2, <1>3, <1>4 DEF Serves

\* What was given and what the get area holds begin what can be read.
LEMMA ServesPrefix ==
    ASSUME NEW blocks \in Seq(Block), NEW given \in Content, NEW b \in Buffer,
           Serves(b, blocks, given)
    PROVE  IsPrefix(given \o b.get, Readable(blocks)) /\ Tell(b) = Len(given)
<1>1. Tell(b) = Len(given)
  BY DEF Serves, Tell, Content, Buffer
<1>2. CASE b.eof
  <2>1. given \o b.get = given /\ given = Readable(blocks)
    BY <1>2 DEF Serves, Content
  <2>2. QED
    BY <1>1, <2>1 DEF IsPrefix, Content
<1>3. CASE ~b.eof
  BY <1>1, <1>3, HeldIsReadable DEF Serves
<1>4. QED
  BY <1>2, <1>3

-----------------------------------------------------------------------------
(* The invariant *)

Working == pc \in {"read", "close", "check"}

Types ==
    /\ input \in Inputs /\ pipe \in BOOLEAN
    /\ pc \in {"open", "read", "close", "check", "done", "failed", "killed"}
    /\ f \in 1 .. Len(input) + 1
    /\ buf \in Buffer
    /\ chunk \in Content /\ Len(chunk) <= ReadSize
    /\ taken \in Content /\ cout \in Content
    /\ dest \in [Outputs -> {None, Old} \cup Content]
    /\ temp \in {None} \cup Content
    /\ bad \in BOOLEAN
    /\ Working => f <= Len(input)
    /\ pc = "done" => f = Len(input) + 1

\* Behind the copy loop the stream has ended, and nothing waits to be written.
Reading ==
    Working => /\ Serves(buf, File.blocks, taken)
               /\ pc # "read" => buf.eof /\ chunk = << >>

\* There is a temporary file while an input is copied beside its output; unless
\* a write failed, what was taken is in it or about to be written to it.
Beside ==
    /\ pc = "check" => ~pipe
    /\ pipe \/ pc \in {"open", "done", "failed"} => temp = None
    /\ Working /\ ~pipe => temp \in Content /\ (~bad => temp \o chunk = taken)

\* What the first n inputs give.
Flat(n) == FlattenSeq([k \in 1 .. n |-> Readable(input[k].blocks)])

\* Unless a write failed, the standard output has the inputs before this one and
\* what was taken of it.
Piped ==
    pipe /\ ~bad =>
        /\ Working => cout \o chunk = Flat(f - 1) \o taken
        /\ pc \in {"open", "done"} => cout = Flat(f - 1)

\* The last input so far for a name is what the name stands for.
Published ==
    ~pipe => \A k \in 1 .. f - 1 :
        (\A j \in k + 1 .. f - 1 : input[j].to # input[k].to) =>
            dest[input[k].to] = Readable(input[k].blocks)

IInv == Types /\ Reading /\ Beside /\ Piped /\ OutputsAreNeverPartial /\ Published

LEMMA InputType ==
    ASSUME IInv, NEW k \in 1 .. Len(input)
    PROVE  /\ input[k].to \in Outputs /\ input[k].blocks \in Seq(Block)
           /\ Readable(input[k].blocks) \in Content
<1>1. input \in Seq([to : Outputs, blocks : Seq(Block)])
  BY InputsAssumption DEF IInv, Types
<1>2. input[k] \in [to : Outputs, blocks : Seq(Block)]
  BY <1>1, ElementOfSeq
<1>3. QED
  BY <1>2, ReadableType

LEMMA LenInput == ASSUME IInv PROVE Len(input) \in Nat /\ DOMAIN input = 1 .. Len(input)
<1>1. input \in Seq([to : Outputs, blocks : Seq(Block)])
  BY InputsAssumption DEF IInv, Types
<1>2. QED
  BY <1>1

LEMMA FlatFacts ==
    ASSUME IInv, NEW n \in 0 .. Len(input)
    PROVE  /\ Flat(n) \in Content
           /\ n < Len(input) => Flat(n + 1) = Flat(n) \o Readable(input[n + 1].blocks)
<1>1. \A k \in 1 .. Len(input) : Readable(input[k].blocks) \in Content
  BY InputType
<1>2. Len(input) \in Nat /\ n \in Nat /\ n <= Len(input)
  BY LenInput
<1> DEFINE ss == [k \in 1 .. n |-> Readable(input[k].blocks)]
           tt == [k \in 1 .. n + 1 |-> Readable(input[k].blocks)]
<1>3. ss \in Seq(Content) /\ Len(ss) = n
  <2>1. ss \in [1 .. n -> Content]
    BY <1>1, <1>2
  <2>2. QED
    BY <1>2, <2>1
<1>4. ASSUME n < Len(input) PROVE FlattenSeq(tt) = FlattenSeq(ss) \o Readable(input[n + 1].blocks)
  <2>1. tt \in [1 .. n + 1 -> Content]
    BY <1>1, <1>2, <1>4
  <2>2. tt \in Seq(Content) /\ Len(tt) = n + 1
    BY <1>2, <2>1
  <2>3. SameUpto(ss, tt, Len(ss)) /\ tt[n + 1] = Readable(input[n + 1].blocks)
    BY <1>2, <1>3 DEF SameUpto
  <2> HIDE DEF ss, tt
  <2>4. QED
    BY <1>3, <2>2, <2>3, FlattenExtend DEF Content
<1>5. FlattenSeq(ss) \in Content
  <2> HIDE DEF ss
  <2>1. QED
    BY <1>3, FlattenType DEF Content
<1>6. QED
  BY <1>4, <1>5 DEF Flat

LEMMA InitHolds == Init => IInv
<1> SUFFICES ASSUME Init PROVE IInv
  OBVIOUS
<1>1. input \in Seq([to : Outputs, blocks : Seq(Block)])
  BY InputsAssumption DEF Init
<1>2. Types
  <2>1. f \in 1 .. Len(input) + 1
    BY <1>1 DEF Init
  <2>2. buf \in Buffer
    <3>1. << >> \in Seq(Block)
      OBVIOUS
    <3>2. QED
      BY <3>1, OpenedServes DEF Init, NoBuffer
  <2>3. << >> \in Content /\ Len(<< >>) <= ReadSize
    BY SizesAssumption DEF Content
  <2>4. dest \in [Outputs -> {None, Old} \cup Content]
    BY DEF Init
  <2>5. QED
    BY <2>1, <2>2, <2>3, <2>4 DEF Init, Types, Working
<1>3. Reading /\ Beside
  BY DEF Init, Reading, Beside, Working
<1>4. Piped
  <2>1. [k \in 1 .. 1 - 1 |-> Readable(input[k].blocks)] = << >>
    OBVIOUS
  <2>2. Flat(f - 1) = << >>
    BY <2>1, FlattenEmpty DEF Flat, Init
  <2>3. QED
    BY <2>2 DEF Init, Piped, Working
<1>5. OutputsAreNeverPartial
  BY DEF Init, OutputsAreNeverPartial
<1>6. Published
  BY DEF Init, Published
<1>7. QED
  BY <1>2, <1>3, <1>4, <1>5, <1>6 DEF IInv

\* A step that leaves the command line and the outputs alone and stays where it
\* is, or ends the run without a temporary file, keeps the outputs' promises.
LEMMA NamesKept ==
    ASSUME IInv, UNCHANGED <<args, dest, f>>
    PROVE  OutputsAreNeverPartial' /\ Published'
BY DEF IInv, OutputsAreNeverPartial, Published, args

LEMMA OpenFilesKeeps == ASSUME IInv, OpenFiles PROVE IInv'
<1>1. /\ input' = input /\ pipe' = pipe /\ f' = f /\ dest' = dest /\ cout' = cout
      /\ pc = "open" /\ pc' = "read" /\ f <= Len(input)
      /\ buf' = Opened(input[f].blocks) /\ chunk' = << >> /\ taken' = << >>
      /\ temp' = (IF pipe THEN None ELSE << >>) /\ bad' = (IF pipe THEN bad ELSE FALSE)
  BY DEF OpenFiles, args, File
<1>2. f \in 1 .. Len(input) /\ f \in Nat /\ Len(input) \in Nat
  BY <1>1, LenInput DEF IInv, Types
<1>3. input[f].blocks \in Seq(Block)
  BY <1>2, InputType
<1>4. buf' \in Buffer /\ Serves(buf', input[f].blocks, << >>)
  BY <1>1, <1>3, OpenedServes
<1>5. << >> \in Content /\ Len(<< >>) <= ReadSize
  BY SizesAssumption DEF Content
<1>6. Types'
  BY <1>1, <1>2, <1>4, <1>5 DEF IInv, Types, Working
<1>7. Reading'
  BY <1>1, <1>4 DEF Reading, Working, File
<1>8. Beside'
  BY <1>1, <1>5 DEF IInv, Beside, Working
<1>9. Piped'
  <2>1. f - 1 \in 0 .. Len(input)
    BY <1>2
  <2>2. Flat(f - 1) \in Content /\ cout \in Content
    BY <2>1, FlatFacts DEF IInv, Types
  <2>3. cout \o << >> = cout /\ Flat(f - 1) \o << >> = Flat(f - 1)
    BY <2>2, ContentConcat
  <2>4. (Flat(f - 1))' = Flat(f - 1)
    BY <1>1 DEF Flat
  <2>5. ASSUME pipe, ~bad PROVE cout = Flat(f - 1)
    BY <1>1, <2>5 DEF IInv, Piped
  <2>6. QED
    BY <1>1, <2>3, <2>4, <2>5 DEF Piped, Working
<1>10. QED
  BY <1>1, <1>6, <1>7, <1>8, <1>9, NamesKept DEF IInv, args

\* The steps of the copy loop leave the names alone.
LEMMA TakeBytesKeeps == ASSUME IInv, TakeBytes PROVE IInv'
<1>1. PICK n, some : /\ n = (IF Len(buf.get) <= Room THEN Len(buf.get) ELSE Room)
                     /\ some = SubSeq(buf.get, 1, n)
                     /\ chunk' = chunk \o some
                     /\ taken' = taken \o some
                     /\ buf' = [buf EXCEPT !.get = SubSeq(@, n + 1, Len(@))]
  BY DEF TakeBytes
<1>2. /\ input' = input /\ pipe' = pipe /\ pc' = pc /\ f' = f
      /\ dest' = dest /\ temp' = temp /\ bad' = bad /\ cout' = cout
      /\ pc = "read" /\ buf.get # << >> /\ Room > 0
  BY DEF TakeBytes, args, outputs
<1>3. /\ f \in 1 .. Len(input) /\ f \in Nat /\ Len(input) \in Nat
      /\ buf \in Buffer /\ buf.get \in Content
      /\ chunk \in Content /\ taken \in Content /\ cout \in Content
      /\ Serves(buf, input[f].blocks, taken)
  BY <1>2, LenInput DEF IInv, Types, Working, Reading, File, Buffer
<1>4. n \in 0 .. Len(buf.get) /\ Len(chunk) \in Nat /\ ReadSize \in Nat /\ n <= ReadSize - Len(chunk)
  <2>1. Len(buf.get) \in Nat /\ Len(chunk) \in Nat /\ ReadSize \in Nat
    BY <1>3, SizesAssumption DEF Content
  <2>2. QED
    BY <1>1, <1>2, <2>1 DEF Room
<1>5. /\ some \in Content /\ Len(some) = n /\ buf' \in Buffer
      /\ Serves(buf', input[f].blocks, taken \o some)
  <2>1. input[f].blocks \in Seq(Block)
    BY <1>3, InputType
  <2>2. PICK get \in Content : get = buf.get
    BY <1>3
  <2>2a. PICK rest : rest = SubSeq(get, n + 1, Len(get))
    OBVIOUS
  <2>3. /\ some \in Content /\ Len(some) = n /\ rest \in Content
        /\ get = some \o rest
    <3>1. get \in Seq(Byte) /\ n \in 0 .. Len(get) /\ some = SubSeq(get, 1, n)
      BY <1>1, <1>4, <2>2 DEF Content
    <3>2. QED
      BY ONLY <2>2, <2>2a, <3>1, SplitSeq DEF Content
  <2>4. PICK c : c = buf'
    OBVIOUS
  <2>5. /\ c \in Buffer /\ c.get = rest /\ c.left = buf.left
        /\ c.pos = buf.pos /\ c.eof = buf.eof
    BY <1>1, <1>3, <2>2, <2>2a, <2>3, <2>4 DEF Buffer
  <2>6. Serves(c, input[f].blocks, taken \o some)
    BY <1>2, <1>3, <2>1, <2>2, <2>2a, <2>3, <2>5, TakenServes
  <2>7. QED
    BY <2>3, <2>4, <2>5, <2>6
<1>6. /\ chunk' \in Content /\ Len(chunk') <= ReadSize /\ taken' \in Content
  <2>1. chunk' \in Content /\ taken' \in Content /\ Len(chunk') = Len(chunk) + Len(some)
    BY <1>1, <1>3, <1>5, ContentConcat
  <2>2. QED
    BY <1>4, <1>5, <2>1
<1>7. Types'
  BY <1>2, <1>3, <1>5, <1>6 DEF IInv, Types, Working
<1>8. Reading'
  BY <1>1, <1>2, <1>5 DEF Reading, Working, File
<1>9. Beside'
  <2>1. ASSUME ~pipe PROVE temp \in Content /\ (~bad => temp \o (chunk \o some) = taken \o some)
    <3>1. temp \in Content /\ (~bad => temp \o chunk = taken)
      BY <1>2, <2>1 DEF IInv, Beside, Working
    <3>2. temp \o (chunk \o some) = (temp \o chunk) \o some
      <4>1. temp \in Content /\ chunk \in Content /\ some \in Content
        BY <1>3, <1>5, <3>1
      <4>2. QED
        BY ONLY <4>1, ContentAssociative
    <3>3. QED
      BY <3>1, <3>2
  <2>2. QED
    BY <1>1, <1>2, <2>1 DEF IInv, Beside, Working
<1>10. Piped'
  <2>1. f - 1 \in 0 .. Len(input)
    BY <1>3
  <2>2. Flat(f - 1) \in Content
    BY <2>1, FlatFacts
  <2>3. /\ cout \o (chunk \o some) = (cout \o chunk) \o some
        /\ Flat(f - 1) \o (taken \o some) = (Flat(f - 1) \o taken) \o some
    <3>1. /\ cout \in Content /\ chunk \in Content /\ some \in Content
          /\ Flat(f - 1) \in Content /\ taken \in Content
      BY <1>3, <1>5, <2>2
    <3>2. cout \o (chunk \o some) = (cout \o chunk) \o some
      BY ONLY <3>1, ContentAssociative
    <3>3. Flat(f - 1) \o (taken \o some) = (Flat(f - 1) \o taken) \o some
      BY ONLY <3>1, ContentAssociative
    <3>4. QED
      BY <3>2, <3>3
  <2>4. (Flat(f - 1))' = Flat(f - 1)
    BY <1>2 DEF Flat
  <2>5. ASSUME pipe, ~bad PROVE cout \o chunk = Flat(f - 1) \o taken
    BY <1>2, <2>5 DEF IInv, Piped, Working
  <2>6. QED
    BY <1>1, <1>2, <2>3, <2>4, <2>5 DEF Piped, Working
<1>11. QED
  BY <1>2, <1>7, <1>8, <1>9, <1>10, NamesKept DEF IInv, args

LEMMA FillBufferKeeps == ASSUME IInv, FillBuffer PROVE IInv'
<1>1. /\ input' = input /\ pipe' = pipe /\ pc' = pc /\ f' = f /\ chunk' = chunk /\ taken' = taken
      /\ dest' = dest /\ temp' = temp /\ bad' = bad /\ cout' = cout
      /\ pc = "read" /\ buf.get = << >> /\ ~buf.eof /\ buf' = Underflow(buf)
  BY DEF FillBuffer, args, outputs
<1>2. /\ f \in 1 .. Len(input) /\ buf \in Buffer /\ taken \in Content
      /\ Serves(buf, input[f].blocks, taken)
  BY <1>1, LenInput DEF IInv, Types, Working, Reading, File
<1>3. buf' \in Buffer /\ Serves(buf', input[f].blocks, taken)
  BY <1>1, <1>2, InputType, UnderflowServes
<1>4. Types'
  BY <1>1, <1>3 DEF IInv, Types, Working
<1>5. Reading'
  BY <1>1, <1>3 DEF Reading, Working, File
<1>6. Beside'
  BY <1>1 DEF IInv, Beside, Working
<1>7. Piped'
  <2>1. (Flat(f - 1))' = Flat(f - 1)
    BY <1>1 DEF Flat
  <2>2. QED
    BY <1>1, <2>1 DEF IInv, Piped, Working
<1>8. QED
  BY <1>1, <1>4, <1>5, <1>6, <1>7, NamesKept DEF IInv, args

\* A write, all of it or a part.
LEMMA WriteKeeps ==
    ASSUME IInv, ReadOver, UNCHANGED <<args, f, buf, taken, dest>>, chunk' = << >>,
           pc' = IF buf.eof /\ Room > 0 THEN "close" ELSE "read",
           bad' \in BOOLEAN, bad => bad',
           NEW some \in Content, ~bad' => some = chunk,
           Put(some) \/ (bad /\ UNCHANGED <<temp, cout>>)
    PROVE  IInv'
<1>1. /\ input' = input /\ pipe' = pipe /\ f' = f /\ buf' = buf /\ taken' = taken /\ dest' = dest
      /\ pc = "read" /\ pc' \in {"read", "close"} /\ (pc' = "close" => buf.eof)
  BY DEF args, ReadOver
<1>2. /\ f \in 1 .. Len(input) /\ f \in Nat /\ Len(input) \in Nat /\ buf \in Buffer
      /\ chunk \in Content /\ taken \in Content /\ cout \in Content /\ pipe \in BOOLEAN
  BY <1>1, LenInput DEF IInv, Types, Working
<1>3. << >> \in Content /\ Len(<< >>) <= ReadSize
  BY SizesAssumption DEF Content
<1>4. cout' \in Content /\ temp' \in {None} \cup Content
  <2>1. CASE pipe
    <3>1. temp' = temp /\ (cout' = cout \/ cout' = cout \o some)
      BY <2>1 DEF Put
    <3>2. cout \o some \in Content /\ temp \in {None} \cup Content
      BY <1>2, ContentConcat DEF IInv, Types
    <3>3. QED
      BY <1>2, <3>1, <3>2
  <2>2. CASE ~pipe
    <3>1. temp \in Content
      BY <1>1, <2>2 DEF IInv, Beside, Working
    <3>2. cout' = cout /\ (temp' = temp \/ temp' = temp \o some)
      BY <2>2 DEF Put
    <3>3. temp \o some \in Content
      BY <3>1, ContentConcat
    <3>4. QED
      BY <1>2, <3>1, <3>2, <3>3
  <2>3. QED
    BY <1>2, <2>1, <2>2
<1>5. Types'
  BY <1>1, <1>2, <1>3, <1>4 DEF IInv, Types, Working
<1>6. Reading'
  BY <1>1 DEF IInv, Reading, Working, File
<1>7. Beside'
  <2>1. CASE pipe
    BY <1>1, <2>1 DEF IInv, Beside, Working, Put
  <2>2. CASE ~pipe
    <3>1. temp \in Content /\ (~bad => temp \o chunk = taken)
      BY <1>1, <2>2 DEF IInv, Beside, Working
    <3>2. temp' \in Content
      BY <2>2, <3>1, ContentConcat DEF Put
    <3>3. ASSUME ~bad' PROVE temp' \o << >> = taken
      <4>1. temp' = temp \o chunk
        BY <2>2, <3>3 DEF Put
      <4>2. QED
        BY <3>1, <3>2, <3>3, <4>1, ContentConcat
    <3>4. QED
      BY <1>1, <2>2, <3>2, <3>3 DEF Beside, Working
  <2>3. QED
    BY <1>2, <2>1, <2>2
<1>8. Piped'
  <2>1. (Flat(f - 1))' = Flat(f - 1)
    BY <1>1 DEF Flat
  <2>2. ASSUME pipe, ~bad' PROVE cout' \o << >> = Flat(f - 1) \o taken
    <3>1. cout' = cout \o chunk /\ cout \o chunk = Flat(f - 1) \o taken
      BY <1>1, <2>2 DEF Put, IInv, Piped, Working
    <3>2. QED
      BY <1>4, <3>1, ContentConcat
  <2>3. QED
    BY <1>1, <2>1, <2>2 DEF Piped, Working
<1>9. QED
  BY <1>1, <1>5, <1>6, <1>7, <1>8, NamesKept DEF IInv, args

LEMMA WriteChunkKeeps == ASSUME IInv, WriteChunk PROVE IInv'
<1>1. chunk \in Content /\ bad \in BOOLEAN
  BY DEF IInv, Types
<1>2. Put(chunk) \/ (bad /\ UNCHANGED <<temp, cout>>)
  BY DEF WriteChunk
<1>3. QED
  BY <1>1, <1>2, WriteKeeps DEF WriteChunk

LEMMA WriteShortKeeps == ASSUME IInv, WriteShort PROVE IInv'
<1>1. chunk \in Content
  BY DEF IInv, Types
<1>2. PICK n \in 0 .. Len(chunk) : Put(SubSeq(chunk, 1, n))
  BY DEF WriteShort
<1>3. SubSeq(chunk, 1, n) \in Content
  BY <1>1, SplitSeq DEF Content
<1>4. QED
  BY <1>2, <1>3, WriteKeeps DEF WriteShort

\* With -p the next input's bytes follow this one's.
LEMMA PipedAllKeeps == ASSUME IInv, PipedAll PROVE IInv'
<1>1. /\ input' = input /\ pipe' = pipe /\ f' = f + 1 /\ pc' = "open" /\ buf' = buf
      /\ chunk' = chunk /\ taken' = taken /\ dest' = dest /\ temp' = temp
      /\ bad' = bad /\ cout' = cout /\ pc = "close" /\ pipe
  BY DEF PipedAll, NextFile, args, stream, outputs
<1>2. /\ f \in 1 .. Len(input) /\ f \in Nat /\ Len(input) \in Nat
      /\ buf \in Buffer /\ buf.eof /\ chunk = << >> /\ cout \in Content
      /\ Serves(buf, input[f].blocks, taken)
  BY <1>1, LenInput DEF IInv, Types, Working, Reading, File
<1>3. Types'
  BY <1>1, <1>2 DEF IInv, Types, Working
<1>4. Reading' /\ Beside' /\ Published'
  BY <1>1 DEF IInv, Reading, Beside, Published, Working
<1>5. Piped'
  <2>1. ASSUME ~bad PROVE cout = Flat(f)
    <3>1. cout \o chunk = Flat(f - 1) \o taken /\ cout \o << >> = cout
      BY <1>1, <1>2, <2>1, ContentConcat DEF IInv, Piped, Working
    <3>2. taken = Readable(input[f].blocks)
      BY <1>2 DEF Serves
    <3>3. f - 1 \in 0 .. Len(input) /\ f - 1 < Len(input) /\ (f - 1) + 1 = f
      BY <1>2
    <3>4. Flat((f - 1) + 1) = Flat(f - 1) \o Readable(input[(f - 1) + 1].blocks)
      BY <3>3, FlatFacts
    <3>5. QED
      BY <1>2, <3>1, <3>2, <3>3, <3>4
  <2>2. (Flat(f - 1))' = Flat(f)
    <3>1. (f + 1) - 1 = f
      BY <1>2
    <3>2. QED
      BY <1>1, <3>1 DEF Flat
  <2>3. QED
    BY <1>1, <2>1, <2>2 DEF Piped, Working
<1>6. OutputsAreNeverPartial'
  BY <1>1 DEF IInv, OutputsAreNeverPartial
<1>7. QED
  BY <1>3, <1>4, <1>5, <1>6 DEF IInv

LEMMA CloseTempKeeps == ASSUME IInv, CloseTemp PROVE IInv'
<1>1. /\ input' = input /\ pipe' = pipe /\ f' = f /\ pc' = "check" /\ buf' = buf
      /\ chunk' = chunk /\ taken' = taken /\ dest' = dest
      /\ cout' = cout /\ pc = "close" /\ ~pipe
  BY DEF CloseTemp, args, stream
<1>2. /\ temp \in Content /\ (~bad => temp \o chunk = taken) /\ bad \in BOOLEAN
  BY <1>1 DEF IInv, Types, Beside, Working
<1>3. temp' \in Content /\ bad' \in BOOLEAN /\ (~bad' => temp' = temp /\ ~bad)
  <2>1. CASE UNCHANGED <<temp, bad>>
    BY <1>2, <2>1
  <2>2. CASE bad' = TRUE /\ \E n \in 0 .. Len(temp) - 1 : temp' = SubSeq(temp, 1, n)
    <3>1. PICK n \in 0 .. Len(temp) - 1 : temp' = SubSeq(temp, 1, n)
      BY <2>2
    <3>2. Len(temp) \in Nat
      BY <1>2 DEF Content
    <3>3. n \in 0 .. Len(temp)
      BY <3>2
    <3>4. SubSeq(temp, 1, n) \in Content
      BY <1>2, <3>3, SplitSeq DEF Content
    <3>5. QED
      BY <2>2, <3>1, <3>4
  <2>3. QED
    BY <2>1, <2>2 DEF CloseTemp
<1>4. Types'
  BY <1>1, <1>3 DEF IInv, Types, Working
<1>5. Reading'
  BY <1>1 DEF IInv, Reading, Working, File
<1>6. Beside'
  BY <1>1, <1>2, <1>3 DEF IInv, Beside, Working
<1>7. Piped'
  BY <1>1 DEF Piped
<1>8. QED
  BY <1>1, <1>4, <1>5, <1>6, <1>7, NamesKept DEF IInv, args

\* The name now stands for all of the input.
LEMMA PublishKeeps == ASSUME IInv, Publish PROVE IInv'
<1>1. /\ input' = input /\ pipe' = pipe /\ f' = f + 1 /\ pc' = "open" /\ buf' = buf
      /\ chunk' = chunk /\ taken' = taken /\ dest' = [dest EXCEPT ![input[f].to] = temp]
      /\ temp' = None /\ bad' = bad /\ cout' = cout /\ pc = "check" /\ ~bad
  BY DEF Publish, NextFile, args, stream, File
<1>2. /\ f \in 1 .. Len(input) /\ f \in Nat /\ Len(input) \in Nat
      /\ buf.eof /\ chunk = << >> /\ Serves(buf, input[f].blocks, taken)
      /\ ~pipe /\ temp \in Content /\ temp \o chunk = taken
      /\ dest \in [Outputs -> {None, Old} \cup Content]
  BY <1>1, LenInput DEF IInv, Types, Working, Reading, File, Beside
<1>3. temp = Readable(input[f].blocks)
  <2>1. temp \o << >> = temp
    BY <1>2, ContentConcat
  <2>2. QED
    BY <1>2, <2>1 DEF Serves
<1>4. input[f].to \in Outputs
  BY <1>2, InputType
<1>5. Types'
  BY <1>1, <1>2, <1>4 DEF IInv, Types, Working
<1>6. Reading' /\ Beside' /\ Piped'
  BY <1>1, <1>2 DEF Reading, Beside, Piped, Working
<1>7. OutputsAreNeverPartial'
  <2> SUFFICES ASSUME NEW o \in Outputs
               PROVE  dest'[o] \in {None, Old} \cup
                        {Readable(input[k].blocks) : k \in {j \in DOMAIN input : input[j].to = o}}
    BY <1>1 DEF OutputsAreNeverPartial
  <2>1. CASE o = input[f].to
    BY <1>1, <1>2, <1>3, <2>1, LenInput
  <2>2. CASE o # input[f].to
    <3>1. dest'[o] = dest[o]
      BY <1>1, <1>2, <2>2
    <3>2. QED
      BY <3>1 DEF IInv, OutputsAreNeverPartial
  <2>3. QED
    BY <2>1, <2>2
<1>8. Published'
  <2> SUFFICES ASSUME NEW k \in 1 .. (f + 1) - 1,
                      \A j \in k + 1 .. (f + 1) - 1 : input[j].to # input[k].to
               PROVE  dest'[input[k].to] = Readable(input[k].blocks)
    BY <1>1 DEF Published
  <2>1. CASE k = f
    BY <1>1, <1>2, <1>3, <1>4, <2>1
  <2>2. CASE k # f
    <3>1. k \in 1 .. f - 1 /\ f \in k + 1 .. (f + 1) - 1
      BY <1>2, <2>2
    <3>2. input[f].to # input[k].to
      BY <3>1
    <3>3. \A j \in k + 1 .. f - 1 : input[j].to # input[k].to
      BY <1>2
    <3>4. dest[input[k].to] = Readable(input[k].blocks)
      BY <1>2, <3>1, <3>3 DEF IInv, Published
    <3>5. input[k].to \in Outputs
      BY <1>2, <3>1, InputType
    <3>6. QED
      BY <1>1, <1>2, <3>2, <3>4, <3>5
  <2>3. QED
    BY <2>1, <2>2
<1>9. QED
  BY <1>5, <1>6, <1>7, <1>8 DEF IInv

\* The steps that end the run.
LEMMA EndKeeps ==
    ASSUME IInv, OpenFails \/ GiveUp \/ Finish \/ Kill \/ Stay
    PROVE  IInv'
<1>1. /\ input' = input /\ pipe' = pipe /\ f' = f /\ buf' = buf
      /\ chunk' = chunk /\ taken' = taken /\ dest' = dest /\ bad' = bad /\ cout' = cout
  BY DEF OpenFails, GiveUp, Finish, Kill, Stay, vars, args, stream, outputs
<1>2. \/ pc' = "failed" /\ (temp' = None \/ (pc = "open" /\ temp' = temp))
      \/ pc = "open" /\ pc' = "done" /\ f > Len(input) /\ temp' = temp
      \/ pc' = "killed" /\ temp' = temp
      \/ pc' = pc /\ temp' = temp /\ pc \in {"done", "failed", "killed"}
  BY DEF OpenFails, GiveUp, Finish, Kill, Stay, Exited, vars, args, stream, outputs
<1>3. pc' \in {"done", "failed", "killed"}
  BY <1>2
<1>4. f \in 1 .. Len(input) + 1 /\ Len(input) \in Nat
  BY LenInput DEF IInv, Types
<1>5. pc' = "done" => f = Len(input) + 1
  BY <1>2, <1>4 DEF IInv, Types
<1>6. Types'
  BY <1>1, <1>2, <1>3, <1>5 DEF IInv, Types, Working
<1>7. Reading'
  BY <1>3 DEF Reading, Working
<1>8. Beside'
  BY <1>1, <1>2 DEF IInv, Beside, Working
<1>9. Piped'
  <2>1. (Flat(f - 1))' = Flat(f - 1)
    BY <1>1 DEF Flat
  <2>2. pc' = "done" => pc \in {"open", "done"}
    BY <1>2
  <2>3. QED
    BY <1>1, <1>3, <2>1, <2>2 DEF IInv, Piped, Working
<1>10. QED
  BY <1>1, <1>6, <1>7, <1>8, <1>9, NamesKept DEF IInv, args

LEMMA StepHolds == IInv /\ [Next]_vars => IInv'
<1> SUFFICES ASSUME IInv, [Next]_vars PROVE IInv'
  OBVIOUS
<1>1. CASE OpenFiles
  BY <1>1, OpenFilesKeeps
<1>2. CASE TakeBytes
  BY <1>2, TakeBytesKeeps
<1>3. CASE FillBuffer
  BY <1>3, FillBufferKeeps
<1>4. CASE WriteChunk
  BY <1>4, WriteChunkKeeps
<1>5. CASE WriteShort
  BY <1>5, WriteShortKeeps
<1>6. CASE PipedAll
  BY <1>6, PipedAllKeeps
<1>7. CASE CloseTemp
  BY <1>7, CloseTempKeeps
<1>8. CASE Publish
  BY <1>8, PublishKeeps
<1>9. CASE OpenFails \/ GiveUp \/ Finish \/ Kill \/ Stay
  BY <1>9, EndKeeps
<1>10. CASE UNCHANGED vars
  <2> USE <1>10 DEF vars
  <2>1. Types' /\ Reading'
    BY DEF IInv, Types, Reading, Working, File
  <2>2. Beside'
    BY DEF IInv, Beside, Working, File
  <2>3. Piped'
    BY DEF IInv, Piped, Working, Flat
  <2>4. OutputsAreNeverPartial' /\ Published'
    BY DEF IInv, OutputsAreNeverPartial, Published
  <2>5. QED
    BY <2>1, <2>2, <2>3, <2>4 DEF IInv
<1>11. QED
  BY <1>1, <1>2, <1>3, <1>4, <1>5, <1>6, <1>7, <1>8, <1>9, <1>10 DEF Next

LEMMA Invariance == Spec => []IInv
BY InitHolds, StepHolds, PTL DEF Spec

-----------------------------------------------------------------------------
(* Theorems *)

LEMMA ContentElements == ASSUME NEW c \in Content PROVE IsContent(c)
BY DEF Content, IsContent, ToSet, Byte

\* The types of the run's state (Decompress.H, decompressTWR.C:92-153).
THEOREM TypesHold == Spec => []TypeOK
<1>1. IInv => TypeOK
  <2> SUFFICES ASSUME IInv PROVE TypeOK
    OBVIOUS
  <2>1. buf.get \in Content /\ buf.pos \in Nat /\ buf.eof \in BOOLEAN
    BY DEF IInv, Types, Buffer
  <2>2. IsContent(buf.get) /\ IsContent(chunk) /\ IsContent(taken) /\ IsContent(cout)
    BY <2>1, ContentElements DEF IInv, Types
  <2>3. ASSUME NEW o \in Outputs PROVE dest[o] \in {None, Old} \/ IsContent(dest[o])
    <3>1. dest[o] \in {None, Old} \/ dest[o] \in Content
      BY DEF IInv, Types
    <3>2. QED
      BY <3>1, ContentElements
  <2>4. temp = None \/ IsContent(temp)
    BY ContentElements DEF IInv, Types
  <2>5. QED
    BY <2>1, <2>2, <2>3, <2>4 DEF IInv, Types, TypeOK
<1>2. QED
  BY <1>1, Invariance, PTL

\* However a file is cut into blocks, empty, damaged and cut ones included, and
\* whatever the size of the reads, a reader is given the bytes of the whole
\* blocks before the first damaged one, in order and once (Decompress.C:28-83).
THEOREM StreamIsTheFile == Spec => []StreamIsConcatenation
<1>1. IInv => StreamIsConcatenation
  <2> SUFFICES ASSUME IInv, pc \in {"read", "close", "check"}
               PROVE  /\ IsPrefix(taken \o buf.get, Readable(File.blocks))
                      /\ Tell(buf) = Len(taken)
                      /\ pc # "read" => taken = Readable(File.blocks)
    BY DEF StreamIsConcatenation
  <2>1. /\ f \in 1 .. Len(input) /\ buf \in Buffer /\ taken \in Content
        /\ Serves(buf, File.blocks, taken) /\ (pc # "read" => buf.eof)
    BY LenInput DEF IInv, Types, Working, Reading
  <2>2. File.blocks \in Seq(Block)
    BY <2>1, InputType DEF File
  <2>3. pc # "read" => taken = Readable(File.blocks)
    BY <2>1 DEF Serves
  <2>4. QED
    BY <2>1, <2>2, <2>3, ServesPrefix
<1>2. QED
  BY <1>1, Invariance, PTL

\* At every moment of every run, failures and kills included, a name stands for
\* what it did before or for all that an input gives (decompressTWR.C:111-145).
THEOREM OutputsAreWhole == Spec => []OutputsAreNeverPartial
<1>1. IInv => OutputsAreNeverPartial
  BY DEF IInv
<1>2. QED
  BY <1>1, Invariance, PTL

\* A run that exits with 0 has delivered every input (decompressTWR.C:92-155).
THEOREM SuccessDelivers == Spec => []SuccessMeansDelivered
<1>1. IInv => SuccessMeansDelivered
  <2> SUFFICES ASSUME IInv, pc = "done"
               PROVE  IF pipe
                      THEN bad \/ cout = FlattenSeq([k \in DOMAIN input |-> Readable(input[k].blocks)])
                      ELSE \A o \in Outputs : \A k \in LastFor(o) : dest[o] = Readable(input[k].blocks)
    BY DEF SuccessMeansDelivered
  <2>1. f - 1 = Len(input) /\ DOMAIN input = 1 .. Len(input) /\ Len(input) \in Nat
    BY LenInput DEF IInv, Types
  <2>2. CASE pipe
    <3>1. ASSUME ~bad PROVE cout = Flat(Len(input))
      BY <2>1, <2>2, <3>1 DEF IInv, Piped
    <3>2. QED
      BY <2>1, <2>2, <3>1 DEF Flat
  <2>3. CASE ~pipe
    <3>1. ASSUME NEW o \in Outputs, NEW k \in LastFor(o)
          PROVE  dest[o] = Readable(input[k].blocks)
      <4>1. k \in 1 .. Len(input) /\ input[k].to = o
            /\ \A j \in k + 1 .. Len(input) : input[j].to # input[k].to
        BY <2>1 DEF LastFor
      <4>2. QED
        BY <2>1, <2>3, <4>1 DEF IInv, Published
    <3>2. QED
      BY <2>3, <3>1
  <2>4. QED
    BY <2>2, <2>3 DEF IInv, Types
<1>2. QED
  BY <1>1, Invariance, PTL

\* A run that was not killed leaves no temporary file (decompressTWR.C:132-152).
THEOREM NoTempIsLeft == Spec => []TempsAreRemoved
<1>1. IInv => TempsAreRemoved
  BY DEF IInv, Beside, TempsAreRemoved
<1>2. QED
  BY <1>1, Invariance, PTL
=============================================================================
