---------------------------- MODULE InputBuffer -----------------------------
(***************************************************************************)
(* CSInputBuffer: the buffer every decompressor reads its bytes and bits   *)
(* from.  It sits on a handle (here one of MappedHandle's kinds) or on a   *)
(* block in memory.  Three things move separately and have to agree: the   *)
(* parent's position, the byte the client is at (currbyte) and the bits    *)
(* already taken out of later bytes into the 32-bit word (bits, numbits).  *)
(*                                                                         *)
(* A bit is known by its number in the file: bit w of byte b (w counted    *)
(* from the least significant) is 8*(b-1)+w+1, and 0 is a zero that was    *)
(* shifted in.  So a wrong bit shows itself wherever it turns up.          *)
(***************************************************************************)
EXTENDS MappedHandle

CONSTANTS
    BufSize,        \* bytes of the buffer (16384 in the code)
    CodeSizes,      \* lengths asked for with PeekBitString, at most 25
    LongSizes,      \* lengths asked for with NextLongBitString, over 25
    SkipSizes,      \* lengths asked for with SkipBits
    ValueSizes,     \* bytes of the integers read with NextUIntXX
    StartOffsets,   \* offsets in the file the buffer is set up at
    Offsets         \* offsets clients seek to

VARIABLES
    kind,           \* handle below, or "memory": no parent, all buffered
    order,          \* "BE" or "LE": the order the client reads bits in
    startoffs,      \* the client's origin
    self,           \* the CSInputBuffer
    raised,         \* an end-of-file exception left the buffer
    pos,            \* history: the client's place in the stream, in bits
    last            \* history: what the last call was asked and answered

vars == <<kind, order, startoffs, self, raised, pos, last>>

\* With BufSize at most the lookahead, a full buffer would ask the parent for
\* nothing and take that for the end.
LookAhead == 4

ASSUME BufferAssumption ==
    /\ BufSize \in Nat /\ BufSize > LookAhead
    /\ \A n \in CodeSizes : n \in 1..25
    /\ \A n \in LongSizes : n \in 26..32
    /\ ValueSizes \subseteq 1..4
    \* A skip of nothing, behind bytes skipped past the buffer, raises.
    /\ SkipSizes \subseteq Nat \ {0}
    /\ StartOffsets \subseteq Nat /\ Offsets \subseteq Nat

Junk  == -1         \* memory past the bytes of the buffer
Mixed == -2         \* two bits in one place

Streams == [k \in Kinds \cup {"memory"} |-> Contents(k)]
Stream == Streams[kind]
Total  == Len(Stream)

(***************************************************************************)
(* Byte level.                                                             *)
(***************************************************************************)
Done(s)   == [ok |-> TRUE, s |-> s]
RaiseEOF(s) == [ok |-> FALSE, s |-> s]
Then(r, Op(_)) == IF r.ok THEN Op(r.s) ELSE r

BytesLeftInBuffer(s) == Len(s.buffer) - s.currbyte

FillBuffer(s) ==
    LET left == BytesLeftInBuffer(s)
        kept == IF left >= 0 THEN SubSeq(s.buffer, s.currbyte + 1, Len(s.buffer)) ELSE <<>>
        at   == IF left >= 0 THEN Returns(s.parent, <<>>) ELSE SkipBytes(kind, s.parent, -left)
        got  == ReadAtMost(kind, at.h, BufSize - Len(kept))
    IN  IF ~at.ok THEN RaiseEOF(s)
        ELSE Done([s EXCEPT !.parent = got.h, !.buffer = kept \o got.data, !.currbyte = 0,
                            !.eof = @ \/ got.data = <<>>])

CheckAndFillBuffer(s) ==
    IF ~s.eof /\ BytesLeftInBuffer(s) <= LookAhead THEN FillBuffer(s) ELSE Done(s)

PeekByteWithoutEOF(s, offs) ==
    IF s.currbyte + offs + 1 \in DOMAIN s.buffer THEN s.buffer[s.currbyte + offs + 1] ELSE Junk

FileOffset(s) ==
    IF kind = "memory" THEN s.currbyte
    ELSE OffsetInFile(kind, s.parent) - Len(s.buffer) + s.currbyte

BufferOffset(s) == FileOffset(s) - startoffs

(***************************************************************************)
(* Bit level.  bits maps the weight of each bit of the word to the stream  *)
(* bit it holds.                                                           *)
(***************************************************************************)
NoBits == [w \in 0..31 |-> 0]

BitOf(byte, w) == IF byte = Junk THEN Junk ELSE 8 * (byte - 1) + w + 1

Or(x, y) == IF x = 0 THEN y ELSE IF y = 0 THEN x ELSE Mixed

ShiftedLeft(bits, n)  == [w \in 0..31 |-> IF (w - n) \in 0..31 THEN bits[w - n] ELSE 0]
ShiftedRight(bits, n) == [w \in 0..31 |-> IF w + n \in 0..31 THEN bits[w + n] ELSE 0]

\* Mutant: a part of a word is shifted as if the word were empty.
ByteShiftIntoEmpty(num, i, n) == IF order = "LE" THEN 8 * i ELSE 24 - 8 * i

\* How far the i-th of num bytes is shifted when the word has n bits: the
\* four cases of _CSInputFillBits (the one for a whole word overwrites), and
\* the loop of _CSInputFillBitsLE.
ByteShift(num, i, n) ==
    IF order = "LE" THEN n + 8 * i
    ELSE IF num = 4 THEN 24 - 8 * i
    ELSE 8 * (num - 1 - i) + (8 * (4 - num) - n)

\* The word with num more bytes, the i-th shifted as above; num and so all
\* of it is less than nothing when the client is past the bytes.
OrBytes(s, from, num) ==
    [w \in 0..31 |->
        LET here == {i \in 0..(num - 1) : w - ByteShift(num, i, s.numbits) \in 0..7}
            i    == CHOOSE i \in here : TRUE
        IN  IF here = {} THEN s.bits[w]
            ELSE Or(IF num = 4 /\ order = "BE" THEN 0 ELSE s.bits[w],
                    BitOf(PeekByteWithoutEOF(s, from + i), w - ByteShift(num, i, s.numbits)))]

BytesThatFit(s) == Least((32 - s.numbits) \div 8, BytesLeftInBuffer(s))

\* Mutant: the new bytes are taken from the client's place, as if the word
\* held no whole bytes.
FillWordFromCurrentByte(s) ==
    [s EXCEPT !.bits = OrBytes(s, 0, BytesThatFit(s)), !.numbits = @ + 8 * BytesThatFit(s)]

\* Reads as many whole bytes into the word as fit, from behind the bytes it
\* already holds; near the end it may go past the bytes of the buffer.
FillWord(s) ==
    [s EXCEPT !.bits = OrBytes(s, s.numbits \div 8, BytesThatFit(s)),
              !.numbits = @ + 8 * BytesThatFit(s)]

FillBits(s) == Then(CheckAndFillBuffer(s), LAMBDA t : Done(FillWord(t)))

CheckAndFillBits(s, n) == IF n > s.numbits THEN FillBits(s) ELSE Done(s)

\* The first n bits of the word in the order the client takes them.
TopBits(s, n) == [i \in 1..n |-> IF order = "BE" THEN s.bits[32 - i] ELSE s.bits[i - 1]]

\* The bytes the client begins by taking n bits.
BytesBegun(s, n) == (n - (s.numbits % 8) + 7) \div 8

SkipPeekedBits(s, n) ==
    LET t == [s EXCEPT !.currbyte = @ + BytesBegun(s, n)]
    IN  IF BytesLeftInBuffer(t) < 0 THEN RaiseEOF(t)
        ELSE Done([t EXCEPT !.bits = IF order = "BE" THEN ShiftedLeft(@, n) ELSE ShiftedRight(@, n),
                            !.numbits = @ - n])

NextBitString(s, n) == Then(CheckAndFillBits(s, n), LAMBDA t : SkipPeekedBits(t, n))

ToByteBoundary(s) == [s EXCEPT !.bits = NoBits, !.numbits = 0]

(***************************************************************************)
(* The calls.  Each is made on a buffer no exception has left.             *)
(***************************************************************************)
UpToByte(p) == 8 * ((p + 7) \div 8)

None == [call |-> "none", bits |-> <<>>, at |-> 0, need |-> 0, atend |-> FALSE]

\* Leaves with result r; the client has then read the bits got, from
\* position at on, and stands at to.  need is the last bit the call needed.
Answer(call, r, got, at, to, need) ==
    /\ self' = r.s
    /\ raised' = ~r.ok
    /\ pos' = IF r.ok THEN to ELSE pos
    /\ last' = [call |-> call, bits |-> IF r.ok THEN got ELSE <<>>, at |-> at, need |-> need,
                atend |-> FALSE]
    /\ UNCHANGED <<kind, order, startoffs>>

\* CSInputPeekBitString(n), then CSInputSkipPeekedBits(m): how codes are
\* read, and with m = n how CSInputNextBitString(n) reads.
ReadCode ==
    /\ ~raised
    /\ \E n \in CodeSizes : \E m \in {k \in CodeSizes : k <= n} :
         \E peeked \in {CheckAndFillBits(self, n)} :
            Answer("read", Then(peeked, LAMBDA t : SkipPeekedBits(t, m)),
                   TopBits(peeked.s, m), pos, pos + m, pos + m)

\* CSInputNextLongBitString: 25 bits and then the rest.
ReadLong ==
    /\ ~raised
    /\ \E n \in LongSizes :
         \E first \in {CheckAndFillBits(self, 25)} :
           \E second \in {Then(Then(first, LAMBDA t : SkipPeekedBits(t, 25)),
                               LAMBDA t : CheckAndFillBits(t, n - 25))} :
             Answer("read", Then(second, LAMBDA t : SkipPeekedBits(t, n - 25)),
                    TopBits(first.s, 25) \o TopBits(second.s, n - 25), pos, pos + n, pos + n)

\* CSInputSkipBits.  Whole bytes are skipped unchecked.
SkipBits ==
    /\ ~raised /\ pos < 8 * Total
    /\ \E n \in SkipSizes :
         LET skipbits == n - (self.numbits % 8)
             there    == [ToByteBoundary(self) EXCEPT !.currbyte = @ + skipbits \div 8]
         IN  \E r \in {IF n <= self.numbits THEN SkipPeekedBits(self, n)
                       ELSE IF skipbits % 8 = 0 THEN Done(there)
                       ELSE NextBitString(there, skipbits % 8)} :
                Answer("skip", r, <<>>, pos, pos + n, pos + n)

SkipToByteBoundary ==
    /\ ~raised
    /\ Answer("skip", Done(ToByteBoundary(self)), <<>>, pos, UpToByte(pos), 0)

\* CSInputSkipTo16BitBoundary, counted from the client's origin.
SkipTo16BitBoundary ==
    /\ ~raised /\ pos < 8 * Total
    /\ LET odd  == BufferOffset(self) % 2
           bytes == (UpToByte(pos) \div 8) - startoffs
       IN  Answer("skip", Done([ToByteBoundary(self) EXCEPT !.currbyte = @ + odd]), <<>>,
                  pos, 8 * (startoffs + bytes + (bytes % 2)), 0)

\* Bytes are read with no bits left over (clients go to a byte boundary
\* first): CSInputPeekByte and CSInputNextByte.
ByteBits(byte) == [i \in 1..8 |-> BitOf(byte, IF order = "BE" THEN 8 - i ELSE i - 1)]

PeekByte(offs, skip) ==
    /\ ~raised /\ self.numbits = 0
    /\ \E filled \in {CheckAndFillBuffer(self)} :
          Answer("read", Then(filled, LAMBDA t :
                     IF offs >= BytesLeftInBuffer(t) THEN RaiseEOF(t)
                     ELSE Done([t EXCEPT !.currbyte = @ + skip])),
                 ByteBits(PeekByteWithoutEOF(filled.s, offs)), pos + 8 * offs,
                 pos + 8 * skip, pos + 8 * (offs + 1))

NextByte  == PeekByte(0, 1)
LookAtByte == \E offs \in 0..LookAhead : PeekByte(offs, 0)

\* CSInputNextUIntXX: no check for the end, so only where the value lies
\* within the stream.
NextValue ==
    /\ ~raised /\ self.numbits = 0
    /\ \E size \in ValueSizes :
         /\ pos + 8 * size <= 8 * Total
         /\ \E filled \in {CheckAndFillBuffer(self)} :
              Answer("read", Then(filled, LAMBDA t : Done([t EXCEPT !.currbyte = @ + size])),
                     [j \in 1..(8 * size) |->
                        ByteBits(PeekByteWithoutEOF(filled.s, (j - 1) \div 8))[1 + ((j - 1) % 8)]],
                     pos, pos + 8 * size, pos + 8 * size)

AtEOF ==
    /\ ~raised
    /\ \E r \in {CheckAndFillBuffer(self)} :
         /\ self' = r.s
         /\ raised' = ~r.ok
         /\ last' = [None EXCEPT !.call = IF r.ok THEN "ateof" ELSE "skip", !.at = pos,
                                 !.need = pos, !.atend = BytesLeftInBuffer(r.s) <= 0]
         /\ UNCHANGED <<kind, order, startoffs, pos>>

\* CSInputSeekToFileOffset: the buffer is flushed only if the handle below
\* accepts the offset.  Sought also after an exception.
Flushed(s) == [ToByteBoundary(s) EXCEPT !.buffer = <<>>, !.currbyte = 0]

SeekTo(offs) ==
    /\ kind # "memory"
    /\ \E sought \in {SeekToFileOffset(kind, self.parent, offs)} :
          Answer("seek",
                 IF sought.ok THEN Done([Flushed(self) EXCEPT !.parent = sought.h, !.eof = FALSE])
                 ELSE RaiseEOF(self),
                 <<>>, 8 * offs, 8 * offs, 8 * offs)

SeekToOffset == \E offs \in Offsets : SeekTo(offs)
SeekToBufferOffset == \E offs \in Offsets : SeekTo(offs + startoffs)
Restart == SeekTo(startoffs)
Synchronize == ~raised /\ SeekTo(FileOffset(self))

(***************************************************************************)
(* A buffer on a handle starts where the handle stands; one on memory      *)
(* counts as if the block stood at some offset (startoffs negated).        *)
(***************************************************************************)
Init ==
    /\ kind \in Kinds \cup {"memory"}
    /\ order \in {"BE", "LE"}
    /\ \E offs \in StartOffsets :
         /\ startoffs = IF kind = "memory" THEN -offs ELSE offs
         /\ pos = IF kind = "memory" THEN 0 ELSE 8 * offs
         /\ kind # "memory" => SeekToFileOffset(kind, Opened(kind), offs).ok
         /\ self = [parent   |-> IF kind = "memory" THEN Opened("file")
                                 ELSE SeekToFileOffset(kind, Opened(kind), offs).h,
                    eof      |-> kind = "memory",
                    buffer   |-> IF kind = "memory" THEN Stream ELSE <<>>,
                    currbyte |-> 0,
                    bits     |-> NoBits,
                    numbits  |-> 0]
    /\ raised = FALSE
    /\ last = None

Next ==
    \/ ReadCode \/ ReadLong \/ SkipBits \/ SkipToByteBoundary \/ SkipTo16BitBoundary
    \/ NextByte \/ LookAtByte \/ NextValue \/ AtEOF
    \/ SeekToOffset \/ SeekToBufferOffset \/ Restart \/ Synchronize

Spec == Init /\ [][Next]_vars

-----------------------------------------------------------------------------
(***************************************************************************)
(* Properties.                                                             *)
(***************************************************************************)

\* Types, and the word never holds more bits than it has, nor two in one
\* place; only when the buffer has been left by an exception may the count
\* have run below zero (unsigned in the code, so then a huge number).
TypeOK ==
    /\ kind \in Kinds \cup {"memory"} /\ order \in {"BE", "LE"}
    /\ startoffs \in Int /\ raised \in BOOLEAN /\ pos \in Nat
    /\ self.parent.pp \in Int /\ self.parent.curr \in Nat
    /\ self.eof \in BOOLEAN
    /\ \A i \in DOMAIN self.buffer : self.buffer[i] \in Nat \ {0}
    /\ self.currbyte \in Nat
    /\ raised \/ self.numbits \in 0..32
    /\ \A w \in 0..31 : self.bits[w] \in Nat \cup {Junk}

\* What is read is the stream: every bit a successful read hands out is the
\* bit of the handle's contents at the client's place, whatever mixture of
\* codes, long strings, bytes, values, skips, refills and seeks went before,
\* for both bit orders (_CSInputFillBits, CSInputSkipPeekedBits, readAtMost
\* and seekToFileOffset of the handle below).
StreamBit(p) ==
    BitOf(Stream[1 + p \div 8], IF order = "BE" THEN 7 - (p % 8) ELSE p % 8)

ReadsAreTheStream ==
    last.bits = [i \in 1..Len(last.bits) |-> StreamBit(last.at + i - 1)]

\* The end is where the stream ends: a read raises the end-of-file exception
\* exactly when it needs a bit past the end, nothing else raises it before
\* the end, and CSInputAtEOF answers yes exactly when no whole byte is left.
\* After every call the reported offset is that of the next unbegun byte.
EndIsTheEnd ==
    /\ last.call = "read" => (raised <=> last.need > 8 * Total)
    /\ raised => last.need > 8 * Total
    /\ last.call = "ateof" => (last.atend <=> UpToByte(pos) >= 8 * Total)
    /\ ~raised => 8 * FileOffset(self) = UpToByte(pos)

=============================================================================
