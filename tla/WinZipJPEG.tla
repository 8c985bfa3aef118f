----------------------------- MODULE WinZipJPEG -----------------------------
(***************************************************************************)
(* The decompressor of JPEG files inside Zip archives (WinZipJPEG/), and   *)
(* its two callers: XADWinZipJPEGHandle and RawDecoder.c.                  *)
(*                                                                         *)
(* A file is a sequence of bundles, each the metadata of a scan and its    *)
(* blocks in slices of MCU rows.  A slice is decoded into a buffer that    *)
(* the next slice is decoded over; every block is decoded with the help    *)
(* of the blocks above and to the left.  The decoded blocks are then       *)
(* Huffman-coded again, a caller's buffer at a time, by one loop that      *)
(* looks each time round for the most urgent thing to write.  Decoding     *)
(* one block is a step here, and so is going once round that loop.         *)
(*                                                                         *)
(* What the arithmetic decoder yields, with whatever neighbours it is      *)
(* given, is the image, chosen at the start; the Huffman codes are given.  *)
(* Everything else about the writer is here, to the bit.                   *)
(***************************************************************************)
EXTENDS Integers, SequencesExt, FiniteSetsExt

CONSTANTS
    LastCoeff,          \* index of a block's last coefficient (63 in the code)
    RunLimit,           \* longest run of zeros in one code (15)
    SlicePower,         \* added to the slice value of the header (6)
    NoBlock,            \* neighbour outside the image
    Layouts,            \* what the metadata and header say: see below
    DCCode, ACCode,     \* codes: category -> bits, <<run, category>> -> bits
    BufferSizes,        \* sizes of a caller's buffer (65536 and 1024)
    Scans,              \* bundles with a scan in a file
    Caller              \* "handle" or "raw"

ASSUME SizeAssumption ==
    /\ LastCoeff \in Nat \ {0} /\ RunLimit \in Nat \ {0} /\ SlicePower \in Nat
    /\ BufferSizes \subseteq Nat \ {0} /\ Scans \in Nat

\* A layout is the MCUs of an image across and down, the sampling factors
\* <<h, v>> of its scan components, the restart interval in MCUs (0: none),
\* the slice value (0: one slice), and the blocks (0..LastCoeff -> Int) its
\* image is made of.  An image of no rows would divide by zero.
ASSUME LayoutAssumption == \A l \in Layouts :
    /\ l.hmcus \in Nat \ {0} /\ l.vmcus \in Nat \ {0}
    /\ l.factors \in Seq((Nat \ {0}) \X (Nat \ {0})) /\ Len(l.factors) \in 1..4
    /\ l.interval \in Nat /\ l.slicevalue \in 0..31
    /\ l.patterns \subseteq [0..LastCoeff -> Int]

VARIABLES
    jpeg,               \* the layout
    image,              \* history: component -> row -> column -> coefficients
    scansleft,          \* bundles with a scan the file still has
    reachedend,         \* the bundle with the end of the image was read
    op,                 \* the function at work: "none", "slice" or "encode"
    at,                 \* in a slice: component, column and row of the next block
    buffer,             \* the caller's: bytes it has room for, and if any was written
    slice,              \* sliceheight, currheight, finishedrows, slicesavailable
    blocks,             \* component -> place -> the block in the slice buffer
    w,                  \* the writer: see WriterReset
    ended,              \* the caller has stopped
    out,                \* history: bytes delivered for the scan so far
    neighbours          \* history: what the last slice's blocks were decoded with

vars == <<jpeg, image, scansleft, reachedend, op, at, buffer, slice, blocks, w, ended, out,
          neighbours>>

HBlocks(i) == jpeg.factors[i][1]
VBlocks(i) == jpeg.factors[i][2]
BlocksPerRow(i) == jpeg.hmcus * HBlocks(i)
Components == DOMAIN jpeg.factors

\* Place of block (x,y) in the buffer of component i, from 0.
Place(i, x, y) == x + y * BlocksPerRow(i)

(***************************************************************************)
(* Numbers and codes.                                                      *)
(***************************************************************************)
Abs(n) == IF n >= 0 THEN n ELSE -n
Lesser(a, b) == IF a < b THEN a ELSE b
Category(n) == IF n = 0 THEN 0 ELSE CHOOSE c \in 1..16 : 2 ^ (c - 1) <= n /\ n < 2 ^ c

Bits(n, len) == [i \in 1..len |-> (n \div 2 ^ (len - i)) % 2]
Ones(n)      == [i \in 1..n |-> 1]
Byte(b)      == 128 * b[1] + 64 * b[2] + 32 * b[3] + 16 * b[4] + 8 * b[5] + 4 * b[6] + 2 * b[7] + b[8]

\* PushEncodedValue: the code of the value's category, then its low bits,
\* less one for a negative value.
ValueBits(value) ==
    LET c == Category(Abs(value))
    IN  Bits(IF value >= 0 THEN value % 2 ^ c ELSE (value % 2 ^ c) - 1, c)

EncodedDC(diff)       == DCCode[Category(Abs(diff))] \o ValueBits(diff)
EncodedAC(value, run) == ACCode[<<run, Category(Abs(value))>>] \o ValueBits(value)
EndOfBlock            == ACCode[<<0, 0>>]

\* The tables have a code, if need be an empty one, for all that is coded.
Bit == {0, 1}
ASSUME CodeAssumption ==
    /\ EndOfBlock \in Seq(Bit) /\ ACCode[<<RunLimit, 0>>] \in Seq(Bit)
    /\ \A l \in Layouts : \A p \in l.patterns :
         /\ \A d \in {0} \cup {q[0] : q \in l.patterns} : EncodedDC(p[0] - d) \in Seq(Bit)
         /\ \A k \in 1..LastCoeff, run \in 0..RunLimit : EncodedAC(p[k], run) \in Seq(Bit)

\* Index of the last coefficient that is not zero.
Eob(c) == Max({0} \cup {k \in 1..LastCoeff : c[k] # 0})

(***************************************************************************)
(* The scan, said directly: MCU by MCU; in each the blocks of each         *)
(* component; in each block the difference of DC values since the last     *)
(* restart and the non-zero coefficients with the zeros before them.       *)
(* Every interval but the last ends with padding and a marker.             *)
(***************************************************************************)
ComponentBlocks(img, layout, i, mcu) ==
    LET h == layout.factors[i][1]
        v == layout.factors[i][2]
    IN  [n \in 1..(h * v) |->
            [comp |-> i,
             c |-> img[i][(mcu \div layout.hmcus) * v + (n - 1) \div h]
                         [(mcu % layout.hmcus) * h + ((n - 1) % h)]]]

MCUBlocks(img, layout, mcu) ==
    FlattenSeq([i \in DOMAIN layout.factors |-> ComponentBlocks(img, layout, i, mcu)])

ZerosBefore(c, k) == k - 1 - Max({0} \cup {j \in 1..(k - 1) : c[j] # 0})

CodedAC(c, k) ==
    IF c[k] = 0 THEN <<>>
    ELSE FlattenSeq([z \in 1..(ZerosBefore(c, k) \div (RunLimit + 1)) |-> ACCode[<<RunLimit, 0>>]])
         \o EncodedAC(c[k], ZerosBefore(c, k) % (RunLimit + 1))

BlockBits(c, predicted) ==
    EncodedDC(c[0] - predicted)
    \o FlattenSeq([k \in 1..LastCoeff |-> CodedAC(c, k)])
    \o (IF Eob(c) = LastCoeff THEN <<>> ELSE EndOfBlock)

\* The last DC value of component i in a list of blocks.
Predicted(list, i) ==
    LET same == {m \in DOMAIN list : list[m].comp = i}
    IN  IF same = {} THEN 0 ELSE list[Max(same)].c[0]

IntervalBits(list) ==
    FlattenSeq([n \in DOMAIN list |->
        BlockBits(list[n].c, Predicted(SubSeq(list, 1, n - 1), list[n].comp))])

Padded(bits) == bits \o Ones((-Len(bits)) % 8)

StuffedByte(bits, n) ==
    LET byte == Byte(SubSeq(bits, 8 * n - 7, 8 * n))
    IN  IF byte = 255 THEN <<255, 0>> ELSE <<byte>>

Stuffed(bits) == FlattenSeq([n \in 1..(Len(Padded(bits)) \div 8) |-> StuffedByte(Padded(bits), n)])

MCUs(layout)      == layout.hmcus * layout.vmcus
Interval(layout)  == IF layout.interval = 0 THEN MCUs(layout) ELSE layout.interval
Intervals(layout) == (MCUs(layout) + Interval(layout) - 1) \div Interval(layout)

IntervalBlocks(img, layout, n) ==
    FlattenSeq([m \in 1..Lesser(Interval(layout), MCUs(layout) - (n - 1) * Interval(layout)) |->
                   MCUBlocks(img, layout, (n - 1) * Interval(layout) + m - 1)])

MarkerBefore(n) == IF n = 1 THEN <<>> ELSE <<255, 208 + ((n - 2) % 8)>>

TheScan(img, layout) ==
    FlattenSeq([n \in 1..Intervals(layout) |->
        MarkerBefore(n) \o Stuffed(IntervalBits(IntervalBlocks(img, layout, n)))])

Rows(layout, i) == 0..(layout.vmcus * layout.factors[i][2] - 1)
Columns(layout, i) == 0..(layout.hmcus * layout.factors[i][1] - 1)
Places(layout) ==
    UNION {{i} \X (Rows(layout, i) \X Columns(layout, i)) : i \in DOMAIN layout.factors}

Image(layout) ==
    {[i \in DOMAIN layout.factors |->
        [y \in Rows(layout, i) |-> [x \in Columns(layout, i) |-> f[<<i, <<y, x>>>>]]]]
      : f \in [Places(layout) -> layout.patterns]}

(***************************************************************************)
(* Bundles and slices.                                                     *)
(***************************************************************************)

NoBuffer == [room |-> 0, empty |-> TRUE]

\* What ReadNextWinZipJPEGBundle sets for the writer.
WriterReset ==
    [mcusavailable |-> FALSE, row |-> 0, col |-> 0, comp |-> 1, x |-> 0, y |-> 0, coeff |-> 0,
     mcucounter |-> 0, restartmarkerindex |-> 0, writerestartmarker |-> FALSE,
     predicted |-> [i \in Components |-> 0], bits |-> <<>>, needsstuffing |-> FALSE]

\* MCU rows of a slice: about 2^(slicevalue+6) MCUs, spread evenly.
SliceHeight(layout) ==
    LET div1 == Max({1, 2 ^ (layout.slicevalue + SlicePower) \div layout.hmcus})
        div2 == (layout.vmcus + div1 - 1) \div div1
    IN  IF layout.slicevalue = 0 THEN layout.vmcus ELSE (layout.vmcus + div2 - 1) \div div2

\* Mutant: the row above a slice is looked for at the end of this slice.
NorthPlaceInThisSlice(i, x, y) ==
    IF y # 0 THEN Place(i, x, y - 1)
    ELSE Place(i, x, Lesser(slice.sliceheight, jpeg.vmcus - slice.finishedrows) * VBlocks(i) - 1)

\* The block above, in the slice or in the last row of the slice before.
NorthPlace(i, x, y) ==
    IF y # 0 THEN Place(i, x, y - 1)
    ELSE Place(i, x, slice.sliceheight * VBlocks(i) - 1)

MoreBytes  == w.mcusavailable \/ Len(w.bits) >= 8 \/ w.needsstuffing \/ w.writerestartmarker
MoreSlices == ~reachedend /\ slice.slicesavailable

\* ReadNextWinZipJPEGBundle: the next scan, or the end of the image.
ReadNextBundle ==
    /\ op = "none" /\ ~ended /\ ~MoreBytes /\ ~MoreSlices
    /\ IF scansleft = 0
       THEN /\ reachedend' = TRUE
            /\ ended' = TRUE
            /\ UNCHANGED <<scansleft, slice, blocks, w, out>>
       ELSE /\ scansleft' = scansleft - 1
            /\ slice' = [sliceheight |-> SliceHeight(jpeg), currheight |-> 0,
                         finishedrows |-> 0, slicesavailable |-> TRUE]
            /\ blocks' = [i \in Components |->
                            [p \in 0..(SliceHeight(jpeg) * VBlocks(i) * BlocksPerRow(i) - 1) |->
                                <<"unset">>]]
            /\ w' = WriterReset
            /\ out' = <<>>
            /\ UNCHANGED <<reachedend, ended>>
    /\ UNCHANGED <<jpeg, image, op, at, buffer, neighbours>>

\* ReadNextWinZipJPEGSlice begins: the last slice may have fewer rows.
ReadNextSlice ==
    /\ op = "none" /\ ~ended /\ ~MoreBytes /\ MoreSlices
    /\ LET last == slice.finishedrows + slice.sliceheight >= jpeg.vmcus
       IN  slice' = [slice EXCEPT !.currheight = IF last THEN jpeg.vmcus - slice.finishedrows
                                                 ELSE slice.sliceheight,
                                  !.slicesavailable = ~last]
    /\ op' = "slice"
    /\ at' = [comp |-> 1, x |-> 0, y |-> 0]
    /\ neighbours' = [i \in Components |-> {}]
    /\ UNCHANGED <<jpeg, image, scansleft, reachedend, buffer, blocks, w, ended, out>>

\* The next block, row by row and component by component.  Its eob and
\* trailing zeros are written before the neighbours are read, which are
\* noted; then the block is stored, as the place in the image it is from.
DecodeBlock ==
    /\ op = "slice" /\ at.comp \in Components
    /\ LET i     == at.comp
           gy    == slice.finishedrows * VBlocks(i) + at.y
           begun == [blocks[i] EXCEPT ![Place(i, at.x, at.y)] = <<"begun">>]
           north == IF at.y = 0 /\ slice.finishedrows = 0 THEN NoBlock
                    ELSE begun[NorthPlace(i, at.x, at.y)]
           west  == IF at.x = 0 THEN NoBlock ELSE begun[Place(i, at.x - 1, at.y)]
       IN  /\ blocks' = [blocks EXCEPT ![i] = [begun EXCEPT ![Place(i, at.x, at.y)] = <<at.x, gy>>]]
           /\ neighbours' = [neighbours EXCEPT ![i] = @ \cup {<<at.x, gy, north, west>>}]
    /\ at' = IF at.x + 1 < BlocksPerRow(at.comp) THEN [at EXCEPT !.x = @ + 1]
             ELSE IF at.y + 1 < slice.currheight * VBlocks(at.comp)
             THEN [at EXCEPT !.x = 0, !.y = @ + 1]
             ELSE [comp |-> at.comp + 1, x |-> 0, y |-> 0]
    /\ UNCHANGED <<jpeg, image, scansleft, reachedend, op, buffer, slice, w, ended, out>>

\* Behind the last block the writer is set to the first MCU of the slice.
FinishSlice ==
    /\ op = "slice" /\ at.comp \notin Components
    /\ op' = "none"
    /\ slice' = [slice EXCEPT !.finishedrows = @ + slice.currheight]
    /\ w' = [w EXCEPT !.mcusavailable = TRUE, !.row = 0, !.col = 0, !.comp = 1,
                      !.x = 0, !.y = 0, !.coeff = 0]
    /\ UNCHANGED <<jpeg, image, scansleft, reachedend, at, buffer, blocks, ended, out, neighbours>>

(***************************************************************************)
(* EncodeWinZipJPEGBlocksToBuffer.                                         *)
(***************************************************************************)
CurrBlock ==
    LET from == blocks[w.comp][Place(w.comp, w.col * HBlocks(w.comp) + w.x,
                                     w.row * VBlocks(w.comp) + w.y)]
    IN  image[w.comp][from[2]][from[1]]

\* The next coefficient of the current block: the DC value, the end of the
\* block, or a run of zeros and a value (which is zero if the run is full).
NextCoefficient(v, c) ==
    IF v.coeff = 0
    THEN [v EXCEPT !.bits = @ \o EncodedDC(c[0] - v.predicted[v.comp]),
                   !.predicted[v.comp] = c[0], !.coeff = 1]
    ELSE IF v.coeff > Eob(c) /\ Eob(c) # LastCoeff
    THEN [v EXCEPT !.bits = @ \o EndOfBlock, !.coeff = LastCoeff + 1]
    ELSE LET stop == Min({k \in v.coeff..LastCoeff :
                            k = LastCoeff \/ k = v.coeff + RunLimit \/ c[k] # 0})
         IN  [v EXCEPT !.bits = @ \o EncodedAC(c[stop], stop - v.coeff), !.coeff = stop + 1]

\* On to the next block: across, down, next component, next MCU, next row.
\* Behind the last MCU of the last slice the scan is padded to a byte.
NextBlock(v) ==
    IF v.x + 1 < HBlocks(v.comp) THEN [v EXCEPT !.coeff = 0, !.x = @ + 1]
    ELSE IF v.y + 1 < VBlocks(v.comp) THEN [v EXCEPT !.coeff = 0, !.x = 0, !.y = @ + 1]
    ELSE IF v.comp < Len(jpeg.factors)
    THEN [v EXCEPT !.coeff = 0, !.x = 0, !.y = 0, !.comp = @ + 1]
    ELSE LET u == [v EXCEPT !.coeff = 0, !.x = 0, !.y = 0, !.comp = 1, !.mcucounter = @ + 1]
         IN  IF v.col + 1 < jpeg.hmcus THEN [u EXCEPT !.col = @ + 1]
             ELSE IF v.row + 1 < slice.currheight THEN [u EXCEPT !.col = 0, !.row = @ + 1]
             ELSE [u EXCEPT !.col = 0, !.row = @ + 1, !.mcusavailable = FALSE,
                            !.bits = IF slice.slicesavailable THEN @
                                     ELSE @ \o Ones((-Len(@)) % 8)]

\* Mutant: a restart marker also ends the scan.
RestartDueAtEnd == jpeg.interval # 0 /\ w.mcucounter = jpeg.interval

RestartDue ==
    /\ jpeg.interval # 0 /\ w.mcucounter = jpeg.interval
    /\ w.mcusavailable \/ slice.slicesavailable

\* A call with a buffer.
EncodeToBuffer ==
    /\ op = "none" /\ ~ended /\ MoreBytes
    /\ op' = "encode"
    /\ \E length \in BufferSizes : buffer' = [room |-> length, empty |-> TRUE]
    /\ UNCHANGED <<jpeg, image, scansleft, reachedend, at, slice, blocks, w, ended, out, neighbours>>

\* Once round the loop: as long as the buffer has room, a stuffed zero goes
\* before a byte of what was coded, that before a marker, and that before
\* the next coefficient.
Room    == op = "encode" /\ buffer.room > 0
Emptied == Room /\ ~w.needsstuffing /\ Len(w.bits) < 8

Put(byte) ==
    /\ out' = Append(out, byte)
    /\ buffer' = [room |-> buffer.room - 1, empty |-> FALSE]

WriteStuffing ==
    /\ Room /\ w.needsstuffing
    /\ Put(0)
    /\ w' = [w EXCEPT !.needsstuffing = FALSE]

WriteByte ==
    /\ Room /\ ~w.needsstuffing /\ Len(w.bits) >= 8
    /\ Put(Byte(SubSeq(w.bits, 1, 8)))
    /\ w' = [w EXCEPT !.bits = SubSeq(@, 9, Len(@)),
                      !.needsstuffing = Byte(SubSeq(w.bits, 1, 8)) = 255]

\* The first half of the marker is not stuffed, the other cannot be.
WriteMarker ==
    /\ Emptied /\ w.writerestartmarker
    /\ Put(255)
    /\ w' = [w EXCEPT !.bits = @ \o Bits(208 + w.restartmarkerindex, 8),
                      !.restartmarkerindex = (@ + 1) % 8, !.mcucounter = 0,
                      !.predicted = [i \in Components |-> 0], !.writerestartmarker = FALSE]

PadForMarker ==
    /\ Emptied /\ ~w.writerestartmarker /\ RestartDue
    /\ w' = [w EXCEPT !.bits = IF @ = <<>> THEN <<>> ELSE @ \o Ones(8 - Len(@)),
                      !.writerestartmarker = TRUE]
    /\ UNCHANGED <<buffer, out>>

\* One coefficient, and on to the next block if it was the last.
EncodeCoefficient ==
    /\ Emptied /\ ~w.writerestartmarker /\ ~RestartDue /\ w.mcusavailable
    /\ LET v == NextCoefficient(w, CurrBlock)
       IN  w' = IF v.coeff > LastCoeff THEN NextBlock(v) ELSE v
    /\ UNCHANGED <<buffer, out>>

EncodeStep ==
    /\ WriteStuffing \/ WriteByte \/ WriteMarker \/ PadForMarker \/ EncodeCoefficient
    /\ UNCHANGED <<jpeg, image, scansleft, reachedend, op, at, slice, blocks, ended, neighbours>>

\* The buffer is full, or there is nothing left to do.  The block stream
\* handle takes an empty block for the end of the stream (CSBlockStreamHandle
\* _readNextBlock); RawDecoder.c goes on.
ReturnBuffer ==
    /\ op = "encode"
    /\ \/ buffer.room = 0
       \/ Emptied /\ ~w.writerestartmarker /\ ~RestartDue /\ ~w.mcusavailable
    /\ op' = "none"
    /\ buffer' = NoBuffer
    /\ ended' = (Caller = "handle" /\ buffer.empty)
    /\ UNCHANGED <<jpeg, image, scansleft, reachedend, at, slice, blocks, w, out, neighbours>>

\* XADWinZipJPEGHandle encodes in the call that read a slice, RawDecoder.c in
\* a loop of its own: the same calls in the same order.
Next ==
    \/ ReadNextBundle
    \/ ReadNextSlice \/ DecodeBlock \/ FinishSlice
    \/ EncodeToBuffer \/ EncodeStep \/ ReturnBuffer

Init ==
    /\ jpeg \in Layouts
    /\ image \in Image(jpeg)
    /\ scansleft = Scans
    /\ reachedend = FALSE
    /\ op = "none"
    /\ at = [comp |-> 1, x |-> 0, y |-> 0]
    /\ buffer = NoBuffer
    /\ slice = [sliceheight |-> 0, currheight |-> 0, finishedrows |-> 0, slicesavailable |-> FALSE]
    /\ blocks = [i \in Components |-> <<>>]
    /\ w = WriterReset
    /\ ended = FALSE
    /\ out = <<>>
    /\ neighbours = [i \in Components |-> {}]

Spec == Init /\ [][Next]_vars

-----------------------------------------------------------------------------
(***************************************************************************)
(* Properties.                                                             *)
(***************************************************************************)

\* The re-coded scan is the scan of the image, for every size of the
\* caller's buffer: the bytes delivered so far begin it, and when the next
\* bundle is asked for they are all of it.  Stuffing, padding, markers and
\* runs of zeros come out right wherever a buffer or a slice ends.
ScanIsReproduced ==
    /\ IsPrefix(out, TheScan(image, jpeg))
    /\ (op = "none" /\ ~MoreBytes /\ ~MoreSlices /\ scansleft < Scans) => out = TheScan(image, jpeg)

\* A slice holds a single row of component i's blocks.  The row above and the
\* row to decode are then one place in the buffer (northblock and currblock of
\* ReadNextWinZipJPEGSlice), and a block is decoded with itself, begun, as the
\* block above.
OneBlockRow(i) == SliceHeight(jpeg) * VBlocks(i) = 1

\* What block (x, y) of component i of the image is to be decoded with.
BlockAbove(i, x, y) ==
    IF y = 0 THEN NoBlock ELSE IF OneBlockRow(i) THEN <<"begun">> ELSE <<x, y - 1>>
BlockToTheLeft(x, y) == IF x = 0 THEN NoBlock ELSE <<x - 1, y>>

\* Every block is decoded with the block really to its left in the image, and
\* with the one really above it, also across the border of slices, where that
\* one is in the buffer the slice is being decoded into
\* (ReadNextWinZipJPEGSlice); except that in slices of a single row of blocks
\* the code takes the block itself, whose eob and trailing zeros it has
\* already overwritten, for the block above.
NeighboursAreAdjacent ==
    \A i \in Components : \A r \in neighbours[i] :
        r[3] = BlockAbove(i, r[1], r[2]) /\ r[4] = BlockToTheLeft(r[1], r[2])

\* A caller stops only at the end of the image: XADWinZipJPEGHandle delivers
\* all that RawDecoder.c:84-88 writes, which goes on for as long as there are
\* slices.
StreamReachesEnd == ended => reachedend
=============================================================================
