---------------------------- MODULE MappedHandle ----------------------------
(***************************************************************************)
(* The handles that present part of another handle: CSSubHandle (a range), *)
(* XADBlockHandle (a chain of blocks), XADPaddedBlockHandle (blocks with   *)
(* padding between them), XADSkipHandle (everything but some gaps); and    *)
(* several handles end to end (CSSegmentedHandle as a CSMultiHandle).      *)
(* Each keeps its place in the file below it and recomputes its own        *)
(* offset from there; the block handle keeps a position of its own, and    *)
(* the segmented one the segment it is in.                                 *)
(*                                                                         *)
(* The operators below are the methods: what a handle with state h does,   *)
(* as a record of whether it returned (ok), the state it left (h) and the  *)
(* bytes it read (data).  A byte of the file is its number, 1..FileLen.    *)
(***************************************************************************)
EXTENDS Integers, Sequences, FiniteSets

CONSTANTS
    FileLen,                        \* length of the file below
    SubStart, SubLength,            \* the range of the sub-handle
    BlockSize, BlockTable,          \* block size, and each block's successor
    FirstBlock, HeaderSize,         \* where the chain begins
    BlockLength,                    \* length limit of the block handle
    PadStart, LogicalSize, PhysicalSize,
    Skips,                          \* gaps <<from, to>>, in the order added
    SegmentSizes                    \* lengths of the handles put end to end

ASSUME FileAssumption ==
    /\ FileLen \in Nat
    /\ {SubStart, SubLength, HeaderSize, BlockLength, PadStart} \subseteq Nat
    \* A chain has a block, and blocks are of more than one byte: seeking to 0
    \* reads the place of the block that byte 0 - 1 would be in.
    /\ BlockSize \in Nat \ {0, 1} /\ BlockTable \in Seq(Nat)
    /\ FirstBlock \in 0..(Len(BlockTable) - 1)
    /\ {LogicalSize, PhysicalSize} \subseteq Nat \ {0} /\ PhysicalSize >= LogicalSize
    \* The parsers add gaps from the front to the back, none touching the
    \* one before: XADALZipParser.m:97, XADStuffItSplitParser.m:117.
    /\ Skips \in Seq(Nat \X Nat)
    /\ \A i \in DOMAIN Skips : Skips[i][1] < Skips[i][2]
    /\ \A i \in 1..(Len(Skips) - 1) : Skips[i][2] < Skips[i + 1][1]
    \* One handle alone is used as it is (CSMultiHandle handleWithHandleArray:).
    /\ SegmentSizes \in Seq(Nat) /\ Len(SegmentSizes) > 1

Kinds == {"file", "sub", "block", "padded", "skip", "multi"}

Least(a, b) == IF a < b THEN a ELSE b

Returns(h, data) == [ok |-> TRUE, h |-> h, data |-> data]
Raises(h)        == [ok |-> FALSE, h |-> h, data |-> <<>>]

\* A loop, n times round.
After(Round(_), first, n) ==
    LET state[k \in 0..n] == IF k = 0 THEN first ELSE Round(state[k - 1]) IN state[n]

\* What a loop that reads has done: where the handles are, the bytes that are
\* still to be read and those that have been.
Begun(h, n) == [pp |-> h.pp, curr |-> h.curr, want |-> n, data |-> <<>>]
Ended(r)    == Returns([pp |-> r.pp, curr |-> r.curr], r.data)

(***************************************************************************)
(* CSFileHandle: seeking past the end is allowed, reading there gives      *)
(* nothing.                                                                *)
(***************************************************************************)
FileBytes(pos, n) == [i \in 1..(IF pos >= FileLen THEN 0 ELSE Least(n, FileLen - pos))
                          |-> pos + i]

(***************************************************************************)
(* CSSubHandle.                                                            *)
(***************************************************************************)
SubEnd == SubStart + SubLength

\* Mutant: the reader is not stopped at the end of the range.
SubReadPastEnd(h, n) ==
    Returns([h EXCEPT !.pp = @ + Len(FileBytes(h.pp, n))], FileBytes(h.pp, n))

SubRead(h, n) ==
    LET num  == IF h.pp + n > SubEnd THEN SubEnd - h.pp ELSE n
        data == IF num <= 0 THEN <<>> ELSE FileBytes(h.pp, num)
    IN  Returns([h EXCEPT !.pp = @ + Len(data)], data)

\* The limit is the end in the parent, although offs counts from the start
\* of the range: offsets up to SubStart past the end are accepted.
SubSeek(h, offs) ==
    IF offs < 0 \/ offs > SubEnd THEN Raises(h)
    ELSE Returns([h EXCEPT !.pp = offs + SubStart], <<>>)

(***************************************************************************)
(* XADBlockHandle.                                                         *)
(***************************************************************************)

\* setBlockChain: the table is followed from the first block to the first
\* number outside it.
FollowChain(c) ==
    IF c.block >= Len(BlockTable) THEN c
    ELSE [block |-> BlockTable[c.block + 1], chain |-> Append(c.chain, c.block)]

Followed == After(FollowChain, [block |-> FirstBlock, chain |-> <<>>], Len(BlockTable))

\* A chain with a cycle would be followed forever.
ASSUME ChainAssumption == Followed.block >= Len(BlockTable)

BlockOffsets == [i \in DOMAIN Followed.chain |-> HeaderSize + Followed.chain[i] * BlockSize]
NumBlocks    == Len(BlockOffsets)

\* C's division, rounding towards zero.
TowardsZero(a, b) == IF a < 0 THEN -((-a) \div b) ELSE a \div b

\* At a border the offset below is the end of the block before: the next
\* read moves on.
BlockSeek(h, offs) ==
    LET block == TowardsZero(offs - 1, BlockSize)
    IN  IF offs < 0 \/ offs > NumBlocks * BlockSize \/ offs > BlockLength THEN Raises(h)
        ELSE Returns([pp |-> BlockOffsets[block + 1] + offs - block * BlockSize,
                      curr |-> offs], <<>>)

\* A block once begun is read where the handle below stands.
BlockRound(r) ==
    LET blockpos == r.curr % BlockSize
        block    == r.curr \div BlockSize
        pp       == IF blockpos = 0 THEN BlockOffsets[block + 1] ELSE r.pp
        data     == FileBytes(pp, Least(r.want, BlockSize - blockpos))
    IN  IF r.want <= 0 \/ (blockpos = 0 /\ block = NumBlocks) THEN r
        ELSE [pp |-> pp + Len(data), curr |-> r.curr + Len(data), want |-> r.want - Len(data),
              data |-> r.data \o data]

BlockRead(h, n) == Ended(After(BlockRound, Begun(h, Least(n, BlockLength - h.curr)), n))

(***************************************************************************)
(* XADPaddedBlockHandle.                                                   *)
(***************************************************************************)
PhysicalToLogical(physical) ==
    LET block  == (physical - PadStart) \div PhysicalSize
        offset == (physical - PadStart) % PhysicalSize
        inside == IF offset > LogicalSize THEN physical - (offset - LogicalSize)
                  ELSE physical
    IN  inside - PadStart - block * (PhysicalSize - LogicalSize)

LogicalToPhysical(logical) ==
    logical + PadStart + (logical \div LogicalSize) * (PhysicalSize - LogicalSize)

PaddedSeek(h, offs) ==
    IF offs < 0 THEN Raises(h)
    ELSE Returns([h EXCEPT !.pp = LogicalToPhysical(offs)], <<>>)

PaddedRound(r) ==
    LET offset == (r.pp - PadStart) % PhysicalSize
        pos    == IF offset >= LogicalSize THEN r.pp + PhysicalSize - offset ELSE r.pp
        room   == IF offset >= LogicalSize THEN LogicalSize ELSE LogicalSize - offset
        data   == FileBytes(pos, Least(room, r.want))
    IN  IF r.want = 0 THEN r
        ELSE [r EXCEPT !.pp = pos + Len(data), !.want = @ - Len(data), !.data = @ \o data]

PaddedRead(h, n) == Ended(After(PaddedRound, Begun(h, n), n))

(***************************************************************************)
(* XADSkipHandle: regions of the file, each with its offset there (actual) *)
(* and its offset without the gaps (skip); indices count from 0.           *)
(***************************************************************************)

\* addSkipFrom:to: behind every region so far.  (The loop that would move
\* later regions runs away; no parser adds a gap in front of another.)
AddSkip(regions) ==
    LET gap  == Skips[Len(regions)]
        last == regions[Len(regions)]
    IN  Append(regions, [actual |-> gap[2], skip |-> last.skip + gap[1] - last.actual])

Regions    == After(AddSkip, <<[actual |-> 0, skip |-> 0]>>, Len(Skips))
LastRegion == Len(Regions) - 1

\* The last region ends at CSHandleMaxLength, which no offset reaches.
Start(side, i)      == Regions[i + 1][side]
Ends(side, i, pos)  == i < LastRegion /\ pos >= Start(side, i + 1)
GapStart(i)         == Start("actual", i) + Start("skip", i + 1) - Start("skip", i)
InGap(i, pos)       == i < LastRegion /\ pos >= GapStart(i)

Halve(side, pos, s) ==
    LET mid == (s.last + s.first) \div 2
    IN  IF s.last - s.first <= 1 THEN s
        ELSE IF Start(side, mid) > pos THEN [s EXCEPT !.last = mid]
        ELSE IF Ends(side, mid, pos) THEN [s EXCEPT !.first = mid]
        ELSE [first |-> mid, last |-> mid + 1]

FindIndexOfRegion(side, pos) ==
    IF Start(side, LastRegion) <= pos THEN LastRegion
    ELSE IF ~Ends(side, 0, pos) THEN 0
    ELSE After(LAMBDA s : Halve(side, pos, s), [first |-> 0, last |-> LastRegion],
               LastRegion).first

SkipOffsetToActual(pos) ==
    LET i == FindIndexOfRegion("skip", pos) IN pos + Start("actual", i) - Start("skip", i)

ActualOffsetToSkip(pos) ==
    LET i == FindIndexOfRegion("actual", pos)
    IN  IF InGap(i, pos) THEN Start("skip", i + 1)
        ELSE pos - Start("actual", i) + Start("skip", i)

\* curr is the region here.
SkipRound(r) ==
    LET ends == r.curr < LastRegion /\ r.want >= GapStart(r.curr) - r.pp
        data == FileBytes(r.pp, IF ends THEN GapStart(r.curr) - r.pp ELSE r.want)
        next == [r EXCEPT !.pp = @ + Len(data), !.want = @ - Len(data), !.data = @ \o data]
    IN  IF ends /\ r.pp + Len(data) = GapStart(r.curr)
        THEN [next EXCEPT !.pp = Start("actual", r.curr + 1), !.curr = @ + 1]
        ELSE next

SkipRead(h, n) ==
    LET i    == FindIndexOfRegion("actual", h.pp)
        from == IF InGap(i, h.pp) THEN [pp |-> Start("actual", i + 1), curr |-> i + 1]
                ELSE [pp |-> h.pp, curr |-> i]
        done == After(SkipRound, Begun(from, n), Len(Regions))
    IN  Returns([h EXCEPT !.pp = done.pp], done.data)

(***************************************************************************)
(* CSSegmentedHandle: pp is the place in the segment curr, from 0, whose   *)
(* bytes in the file are those after SegmentStart(curr).                   *)
(***************************************************************************)
LastSegment == Len(SegmentSizes) - 1

AddSegment(s) == [segments |-> s.segments + 1, total |-> s.total + SegmentSizes[s.segments + 1]]

SegmentStart(i) == After(AddSegment, [segments |-> 0, total |-> 0], i).total
SegmentEnd(i)   == SegmentStart(i + 1)

\* A border belongs to the next segment that has bytes; the end to the last.
MultiSeek(h, offs) ==
    LET Holds(i) == offs < SegmentEnd(i) \/ (i = LastSegment /\ offs = SegmentEnd(i))
        fit      == {i \in 0..LastSegment : Holds(i)}
        first    == CHOOSE i \in fit : \A j \in fit : i <= j
    IN  IF offs < 0 \/ fit = {} THEN Raises(h)
        ELSE Returns([pp |-> offs - SegmentStart(first), curr |-> first], <<>>)

SegmentBytes(i, pos, n) ==
    [k \in 1..Least(n, SegmentSizes[i + 1] - pos) |-> SegmentStart(i) + pos + k]

\* A segment that gives less than is asked for is taken to be over.
MultiRound(r) ==
    LET data == SegmentBytes(r.curr, r.pp, r.want)
        next == [r EXCEPT !.pp = @ + Len(data), !.want = @ - Len(data), !.data = @ \o data]
    IN  IF next.want = 0 \/ r.curr = LastSegment THEN next
        ELSE [next EXCEPT !.pp = 0, !.curr = @ + 1]

MultiRead(h, n) == Ended(After(MultiRound, Begun(h, n), Len(SegmentSizes)))

(***************************************************************************)
(* The three methods the input buffer calls, by kind of handle.            *)
(***************************************************************************)
Opened(kind) == [pp |-> IF kind = "sub" THEN SubStart ELSE IF kind = "padded" THEN PadStart ELSE 0,
                 curr |-> 0]

OffsetInFile(kind, h) ==
    CASE kind = "file"   -> h.pp
      [] kind = "sub"    -> h.pp - SubStart
      [] kind = "block"  -> h.curr
      [] kind = "padded" -> PhysicalToLogical(h.pp)
      [] kind = "skip"   -> ActualOffsetToSkip(h.pp)
      [] kind = "multi"  -> SegmentStart(h.curr) + h.pp

SeekToFileOffset(kind, h, offs) ==
    CASE kind = "file"   -> Returns([h EXCEPT !.pp = offs], <<>>)
      [] kind = "sub"    -> SubSeek(h, offs)
      [] kind = "block"  -> BlockSeek(h, offs)
      [] kind = "padded" -> PaddedSeek(h, offs)
      [] kind = "skip"   -> Returns([h EXCEPT !.pp = SkipOffsetToActual(offs)], <<>>)
      [] kind = "multi"  -> MultiSeek(h, offs)

ReadAtMost(kind, h, n) ==
    CASE kind = "file"   -> LET data == FileBytes(h.pp, n)
                            IN  Returns([h EXCEPT !.pp = @ + Len(data)], data)
      [] kind = "sub"    -> SubRead(h, n)
      [] kind = "block"  -> BlockRead(h, n)
      [] kind = "padded" -> PaddedRead(h, n)
      [] kind = "skip"   -> SkipRead(h, n)
      [] kind = "multi"  -> MultiRead(h, n)

SkipBytes(kind, h, n) == SeekToFileOffset(kind, h, OffsetInFile(kind, h) + n)

(***************************************************************************)
(* What each handle is to present, said without positions: the bytes of    *)
(* the file that belong to it, in order.                                   *)
(***************************************************************************)
Belongs(kind, b) ==
    CASE kind = "sub"    -> SubStart < b /\ b <= SubEnd
      [] kind = "padded" -> b > PadStart /\ (b - 1 - PadStart) % PhysicalSize < LogicalSize
      [] kind = "skip"   -> \A i \in DOMAIN Skips : ~(Skips[i][1] < b /\ b <= Skips[i][2])

InOrder(bytes) ==
    [p \in 1..Cardinality(bytes) |->
        CHOOSE b \in bytes : Cardinality({c \in bytes : c <= b}) = p]

Contents(kind) ==
    CASE kind \in {"file", "memory"} -> [i \in 1..FileLen |-> i]
      [] kind \in {"sub", "padded", "skip"} -> InOrder({b \in 1..FileLen : Belongs(kind, b)})
      [] kind = "block"  ->
             [p \in 1..Least(BlockLength, NumBlocks * BlockSize) |->
                BlockOffsets[1 + (p - 1) \div BlockSize] + 1 + ((p - 1) % BlockSize)]
      [] kind = "multi"  -> [i \in 1..SegmentEnd(LastSegment) |-> i]

\* The blocks are in the file: of an archive that is cut off the handle gives
\* less than the length it was made with.
ASSUME BlocksAssumption == \A p \in DOMAIN Contents("block") : Contents("block")[p] <= FileLen
=============================================================================
