------------------------ MODULE BlockStreamFile_proofs ------------------------
(***************************************************************************)
(* BlockStream implements ByteFile: to its client, the handle over a       *)
(* forward-only decoder is a file that can be read and sought in.          *)
(*                                                                         *)
(* The file's position is the handle's between calls, and the position the *)
(* client last saw during a call, so the loops over blocks stutter and the *)
(* step that returns from the call is the file's operation.  The invariant *)
(* of BlockStream_proofs says where the bytes come from; MemoryInv adds    *)
(* how the call under way remembers what the client last saw.              *)
(***************************************************************************)
EXTENDS BlockStream_proofs

FileSize == Smaller(Total, streamlength)
SeenPos == IF Seen THEN streampos ELSE call.pos
SeenShort == IF Seen THEN short ELSE call.short
SeenBroken == IF Seen THEN raised ELSE call.raised

\* What a call remembers.  A read changes nothing the client saw before it
\* returns; a seek may have rewound the handle, but only for a target that
\* lies within the data.
MemoryInv ==
  /\ pc = "fill" => /\ call.raised = raised /\ call.short = short
                    /\ call.arg <= MaxRequest
  /\ pc = "skip" => /\ raised => call.raised
                    /\ short => call.short
                    /\ call.raised \/ call.pos <= streampos \/ call.arg <= Total

FileInv == IInv /\ MemoryInv

\* Positions add up to positions.
LEMMA SumInNat == \A a, b \in Nat : a + b \in Nat
OBVIOUS

\* The remembered position and history have their types.
LEMMA CallMemory ==
  \A c \in Calls : c.raised \in BOOLEAN /\ c.short \in BOOLEAN
BY DEF Calls

\* In terms of the handle: the file has a size, and the client a position.
LEMMA FileTypes ==
  ASSUME IInv
  PROVE  /\ FileSize \in Nat /\ SeenPos \in Nat /\ SeenShort \in BOOLEAN
         /\ SeenBroken \in BOOLEAN
         /\ FileSize <= Total /\ FileSize <= streamlength
         /\ FileSize = Total \/ FileSize = streamlength
<1>1. streamlength \in Nat /\ streampos \in Nat /\ Total \in Nat
  BY StartFacts, BoundsAssumption DEF IInv, TypeOK, StreamTypeOK
<1> QED BY <1>1, CallFields, CallMemory
        DEF IInv, TypeOK, StreamTypeOK, CallTypeOK, FileSize, SeenPos, SeenShort, SeenBroken, Smaller

-----------------------------------------------------------------------------
\* MemoryInv is kept, call by call.
LEMMA MemoryKept == FileInv /\ [Next]_vars => MemoryInv'
<1> SUFFICES ASSUME IInv, MemoryInv, [Next]_vars PROVE MemoryInv'
  BY DEF FileInv
<1> USE DEF MemoryInv
<1>1. CASE ResetIfNeeded
  BY <1>1 DEF ResetIfNeeded, callVars
<1>2. ASSUME NEW num \in 0..MaxRequest, ReadNothing(num) \/ ReadLookahead(num)
      PROVE  MemoryInv'
  BY <1>2 DEF ReadNothing, ReadLookahead, Return
<1>3. ASSUME NEW num \in 0..MaxRequest, ReadStart(num)
      PROVE  MemoryInv'
  <2>1. Clip(num) <= MaxRequest
    BY BoundsAssumption DEF Clip, IInv, TypeOK, StreamTypeOK
  <2> QED BY <1>3, <2>1 DEF ReadStart, Call
<1>4. ASSUME NEW offs \in 0..streamlength + 1,
             SeekNowhere(offs) \/ SeekRefused(offs) \/ SeekOverLookahead(offs)
      PROVE  MemoryInv'
  BY <1>4 DEF SeekNowhere, SeekRefused, SeekOverLookahead, Return
<1>5. ASSUME NEW offs \in 0..streamlength + 1, SeekForward(offs)
      PROVE  MemoryInv'
  <2>1. streampos <= Prepared
    BY BoundsAssumption DEF Prepared, IInv, TypeOK, StreamTypeOK
  <2> QED BY <1>5, <2>1 DEF SeekForward, Call
<1>6. ASSUME NEW offs \in 0..streamlength + 1, SeekBackward(offs)
      PROVE  MemoryInv'
  <2>1. ~raised => blockstartpos <= Total
    BY <1>6, StartFacts DEF SeekBackward, Seekable, Enter, IInv, TypeOK, BlockTypeOK,
       DecoderInv
  <2>2. ~raised => offs <= Total
    BY <1>6, <2>1, StartFacts, BoundsAssumption
    DEF SeekBackward, IInv, TypeOK, BlockTypeOK, StreamTypeOK
  <2> QED BY <1>6, <2>2 DEF SeekBackward, Call
<1>7. CASE AtEndKnown \/ PeekInBlock \/ PeekNextBlock \/ PeekEnded \/ PeekRaised
  BY <1>7 DEF AtEndKnown, PeekInBlock, PeekNextBlock, PeekEnded, PeekRaised, Return
<1>8. CASE FillEnded \/ FillDone \/ FillRaised \/ SkipEnded \/ SkipRaised \/ SkipDone
  BY <1>8 DEF FillEnded, FillDone, FillRaised, SkipEnded, SkipRaised, SkipDone, Return
<1>9. CASE FillBlock \/ SkipBlock
  BY <1>9 DEF FillBlock, SkipBlock, callVars, Skipping
<1>10. CASE UNCHANGED vars
  BY <1>10 DEF vars, streamVars, callVars
<1> QED BY <1>1, <1>2, <1>3, <1>4, <1>5, <1>6, <1>7, <1>8, <1>9, <1>10 DEF Next, Client, Loop

\* So the two invariants hold together.
THEOREM FileInductive == Spec => []FileInv
<1>1. Init => FileInv
  BY InitIInv DEF FileInv, MemoryInv, Init
<1>2. FileInv /\ [Next]_vars => FileInv'
  BY NextIInv, MemoryKept DEF FileInv
<1> QED BY <1>1, <1>2, PTL DEF Spec

-----------------------------------------------------------------------------
(***************************************************************************)
(* The operations of ByteFile, in terms of the handle: what a step must do *)
(* to be one of them.                                                      *)
(***************************************************************************)
\* A step the client cannot see.
LEMMA UnseenStep ==
  ASSUME FileSize' = FileSize, SeenPos' = SeenPos, SeenShort' = SeenShort,
         SeenBroken' = SeenBroken, ret' = ret
  PROVE  UNCHANGED File!fileVars
BY DEF File!fileVars, FileSize, SeenPos, SeenShort, SeenBroken

\* The bytes a read delivers begin at the position the client last saw.
LEMMA ReadStep ==
  ASSUME NEW num \in 0..MaxRequest, NEW k \in 0..num,
         SeenPos + k <= FileSize,
         k = 0 => num = 0 \/ SeenPos = FileSize \/ SeenShort,
         ret' = Reply("read", "ok", [i \in 1..k |-> SeenPos + i - 1]),
         SeenPos' = SeenPos + k,
         FileSize' = FileSize, SeenShort' = SeenShort, SeenBroken' = SeenBroken
  PROVE  File!FileNext
<1>1. File!Read(num)
  BY DEF File!Read, File!Reply, File!BytesAt, Reply, FileSize, SeenPos, SeenShort, SeenBroken
<1> QED BY <1>1 DEF File!FileNext, FileSize

\* A seek within the data arrives.
LEMMA SeekStep ==
  ASSUME NEW offs \in Nat, FileSize \in Nat, offs <= FileSize,
         SeenPos' = offs, ret' = Reply("seek", "ok", NoBytes),
         SeenShort' \in {SeenShort, FALSE},
         FileSize' = FileSize, SeenBroken' = SeenBroken
  PROVE  File!FileNext
<1>1. File!Seek(offs)
  BY DEF File!Seek, File!Reply, Reply, File!NoBytes, NoBytes, FileSize, SeenPos, SeenShort, SeenBroken
<1>2. offs \in 0..FileSize + 1
  OBVIOUS
<1> QED BY <1>1, <1>2 DEF File!FileNext, FileSize

\* A seek past the end, or into what pretends to be missing, is refused.
LEMMA RefuseStep ==
  ASSUME NEW offs \in Nat, FileSize \in Nat,
         offs > FileSize \/ SeenShort,
         SeenPos' \in SeenPos..FileSize, ret' = Reply("seek", "eof", NoBytes),
         SeenShort' \in {SeenShort, TRUE},
         FileSize' = FileSize, SeenBroken' = SeenBroken
  PROVE  File!FileNext
<1> DEFINE o == IF offs > FileSize THEN FileSize + 1 ELSE offs
<1>1. o \in 0..FileSize + 1 /\ (o > FileSize \/ SeenShort)
  OBVIOUS
<1>2. File!SeekRefused(o)
  <2> HIDE DEF o
  <2> QED BY <1>1 DEF File!SeekRefused, File!Reply, Reply, File!NoBytes, NoBytes, FileSize,
             SeenPos, SeenShort, SeenBroken
<1> QED BY <1>1, <1>2 DEF File!FileNext, FileSize

\* The question whether the file is at its end is answered truthfully.
LEMMA AtEndStep ==
  ASSUME NEW answer \in {"yes", "no"}, ret' = Reply("atend", answer, NoBytes),
         answer = "yes" => SeenPos = FileSize \/ SeenShort,
         answer = "no" => SeenPos < FileSize,
         FileSize' = FileSize, SeenPos' = SeenPos, SeenShort' = SeenShort,
         SeenBroken' = SeenBroken
  PROVE  File!FileNext
<1>1. File!AtEnd
  BY DEF File!AtEnd, File!Reply, Reply, File!NoBytes, NoBytes, FileSize, SeenPos, SeenShort, SeenBroken
<1> QED BY <1>1 DEF File!FileNext, FileSize

\* The source raises.
LEMMA FailStep ==
  ASSUME ret'.outcome \in {"raised", "yes"}, SeenPos' \in Nat, SeenShort' \in BOOLEAN,
         SeenBroken' = TRUE, FileSize' = FileSize
  PROVE  File!FileNext
<1>1. File!Fail
  BY DEF File!Fail, SeenPos, SeenShort, SeenBroken
<1> QED BY <1>1 DEF File!FileNext, FileSize

\* After the source has raised nothing is promised, except that only a seek
\* mends the file.
LEMMA BrokenStep ==
  ASSUME SeenBroken, SeenPos' \in Nat, SeenShort' \in BOOLEAN,
         SeenBroken' = FALSE => ret'.call = "seek", FileSize' = FileSize
  PROVE  File!FileNext
<1>1. File!Unreliable
  BY DEF File!Unreliable, SeenPos, SeenShort, SeenBroken
<1> QED BY <1>1 DEF File!FileNext, FileSize

-----------------------------------------------------------------------------
\* A call cannot change how long the file is.
LEMMA SizeKept == [Next]_vars => FileSize' = FileSize
<1>1. [Next]_vars => streamlength' = streamlength
  BY DEF Next, Client, Loop, vars, streamVars, ResetIfNeeded, ReadNothing, ReadLookahead,
         ReadStart, SeekNowhere, SeekRefused, SeekOverLookahead, SeekForward, SeekBackward,
         AtEndKnown, PeekInBlock, PeekNextBlock, PeekEnded, PeekRaised, FillBlock, FillEnded,
         FillDone, FillRaised, SkipBlock, SkipEnded, SkipRaised, SkipDone
<1> QED BY <1>1 DEF FileSize, Smaller

\* Between calls the client's position lies in the file; at its end only
\* when the data, or the declared length, ends there.
LEMMA IdleFacts ==
  ASSUME IInv, Enter, ~raised
  PROVE  /\ streampos <= FileSize
         /\ endofstream /\ ~short => streampos = FileSize /\ streampos = Total
         /\ streampos = streamlength => streampos = FileSize
         /\ HasLookahead => streampos < FileSize /\ nextstreambyte = streampos
         /\ InBlock(streampos) /\ ~endofstream => streampos < Total
<1> USE FileTypes, StartFacts, BoundsAssumption DEF IInv, Enter
<1>1. streampos <= Total /\ streampos <= streamlength /\ streampos \in Nat /\ streamlength \in Nat
  BY DEF PositionInv, TypeOK, StreamTypeOK
<1>2. ~endofstream => blockstartpos + blocklength <= Total
  BY DEF DecoderInv, TypeOK, BlockTypeOK
<1>3. HasLookahead => /\ streampos < Total /\ streampos < streamlength
                      /\ nextstreambyte = streampos
  BY <1>1, <1>2 DEF CallInv, PositionInv, TypeOK, BlockTypeOK, BytesInOrder
<1>4. InBlock(streampos) /\ ~endofstream => streampos < Total
  BY <1>1, <1>2 DEF InBlock, TypeOK, BlockTypeOK
<1> QED BY <1>1, <1>3, <1>4 DEF EndIsTheEnd

\* A step of an idle handle that leaves it idle and not unbroken is, when the
\* source has raised before, one of the steps a broken file may take.
LEMMA BrokenIdleStep ==
  ASSUME IInv, IInv', [Next]_vars, pc = "idle", pc' = "idle", raised, raised'
  PROVE  File!FileNext
<1>1. SeenPos' \in Nat /\ SeenShort' \in BOOLEAN
  BY BoundsAssumption DEF IInv, TypeOK, StreamTypeOK, SeenPos, SeenShort, Seen
<1> QED BY <1>1, SizeKept, BrokenStep DEF SeenBroken, Seen

\* A read that delivers nothing: nothing was asked for, or the file ends.
LEMMA ReadNothingMaps ==
  ASSUME IInv, IInv', NEW num \in 0..MaxRequest, ReadNothing(num), FileSize' = FileSize, [Next]_vars
  PROVE  File!FileNext
<1>1. /\ Enter /\ pc = "idle" /\ pc' = "idle"
      /\ streampos' = streampos /\ raised' = raised /\ short' = short
      /\ ret' = Reply("read", "ok", NoBytes)
  BY DEF ReadNothing, Return, Enter, streamVars
<1>2. CASE raised
  BY <1>1, <1>2, BrokenIdleStep
<1>3. CASE ~raised
  <2>1. streampos \in Nat /\ streamlength \in Nat /\ streampos <= streamlength
    BY BoundsAssumption DEF IInv, TypeOK, StreamTypeOK
  <2>2. num = 0 \/ streampos = FileSize \/ short
    BY <1>1, <1>3, <2>1, IdleFacts, BoundsAssumption DEF ReadNothing, Clip
  <2>3. NoBytes = [i \in 1..0 |-> SeenPos + i - 1]
    BY DEF NoBytes
  <2>4. 0 \in 0..num /\ SeenPos + 0 <= FileSize /\ SeenPos' = SeenPos + 0
    BY <1>1, <1>3, <2>1, IdleFacts, FileTypes, BoundsAssumption DEF SeenPos, Seen
  <2>5. SeenShort' = SeenShort /\ SeenBroken' = SeenBroken
    BY <1>1 DEF SeenShort, SeenBroken, Seen
  <2>6. num = 0 \/ SeenPos = FileSize \/ SeenShort
    BY <1>1, <2>2 DEF SeenPos, SeenShort, Seen
  <2> HIDE DEF NoBytes
  <2> QED BY <1>1, <2>3, <2>4, <2>5, <2>6, ReadStep
<1> QED BY <1>2, <1>3

\* A read of the one byte that atEndOfFile had looked at.
LEMMA ReadLookaheadMaps ==
  ASSUME IInv, IInv', NEW num \in 0..MaxRequest, ReadLookahead(num), FileSize' = FileSize, [Next]_vars
  PROVE  File!FileNext
<1>1. /\ Enter /\ pc = "idle" /\ pc' = "idle" /\ HasLookahead
      /\ streampos' = streampos + 1 /\ raised' = raised /\ short' = short
      /\ ret' = Reply("read", "ok", [i \in 1..1 |-> nextstreambyte])
  BY DEF ReadLookahead, Return, Enter
<1>2. CASE raised
  BY <1>1, <1>2, BrokenIdleStep
<1>3. CASE ~raised
  <2>1. streampos \in Nat /\ streamlength \in Nat /\ FileSize \in Nat
    BY BoundsAssumption, FileTypes DEF IInv, TypeOK, StreamTypeOK
  <2>2. 1 \in 0..num
    BY <2>1, BoundsAssumption DEF ReadLookahead, Clip
  <2>3. nextstreambyte = streampos /\ streampos < FileSize
    BY <1>1, <1>3, IdleFacts
  <2>4. SeenPos = streampos /\ SeenPos' = SeenPos + 1 /\ SeenPos + 1 <= FileSize
    BY <1>1, <2>1, <2>3 DEF SeenPos, Seen
  <2>5. [i \in 1..1 |-> nextstreambyte] = [i \in 1..1 |-> SeenPos + i - 1]
    BY <2>1, <2>3, <2>4
  <2>6. SeenShort' = SeenShort /\ SeenBroken' = SeenBroken
    BY <1>1 DEF SeenShort, SeenBroken, Seen
  <2> DEFINE k == 1
  <2>7. /\ k \in 0..num /\ k # 0 /\ SeenPos' = SeenPos + k /\ SeenPos + k <= FileSize
        /\ ret' = Reply("read", "ok", [i \in 1..k |-> SeenPos + i - 1])
    BY <1>1, <2>2, <2>4, <2>5
  <2> HIDE DEF k
  <2> QED BY <2>6, <2>7, ReadStep
<1> QED BY <1>2, <1>3

\* The loop of a read ends, because it has everything or the data is at its
\* end: the client gets the bytes that were gathered.
LEMMA FillReturnMaps ==
  ASSUME FileInv, IInv', FillDone \/ FillEnded, FileSize' = FileSize
  PROVE  File!FileNext
<1> USE DEF FileInv
<1>1. /\ pc = "fill" /\ pc' = "idle" /\ ret' = Reply("read", "ok", buffer)
      /\ raised' = raised /\ short' = short /\ ~endofstream
      /\ call.raised = raised /\ call.short = short /\ call.arg <= MaxRequest
  BY DEF FillDone, FillEnded, Return, MemoryInv, IInv, CallInv
<1>2. /\ call.pos \in Nat /\ call.arg \in Nat /\ n \in Nat /\ n <= call.arg
      /\ call.pos + call.arg <= streamlength /\ streamlength \in Nat
      /\ call.head \in Nat /\ call.head < call.arg
      /\ streampos = call.pos + call.head
  BY <1>1, CallFields, BoundsAssumption DEF IInv, CallInv, TypeOK, CallTypeOK, StreamTypeOK
<1>3. /\ SeenPos = call.pos /\ SeenPos' = call.pos + n
      /\ SeenShort' = SeenShort /\ SeenBroken' = SeenBroken
      /\ SeenShort = short /\ SeenBroken = raised
  <2>1. streampos' = call.pos + n
    BY <1>2 DEF FillDone, FillEnded
  <2> QED BY <1>1, <2>1 DEF SeenPos, SeenShort, SeenBroken, Seen
<1>4. CASE raised
  <2>1. SeenShort' \in BOOLEAN /\ SeenBroken' # FALSE
    BY <1>1, <1>3, <1>4 DEF IInv, TypeOK, StreamTypeOK
  <2> QED BY <1>2, <1>3, <1>4, <2>1, BrokenStep
<1>5. CASE ~raised
  <2>1. /\ blockstartpos + blocklength <= Total
        /\ call.pos + n <= blockstartpos + blocklength
    BY <1>1, <1>5, StartFacts DEF IInv, DecoderInv, LoopInv, CallInv, TypeOK, BlockTypeOK
  <2>2. SeenPos + n <= FileSize
    BY <1>2, <1>3, <2>1, FileTypes, StartFacts DEF IInv, TypeOK, BlockTypeOK
  <2>3. n = 0 => SeenPos = FileSize
    <3>1. CASE FillDone
      BY <1>2, <3>1 DEF FillDone
    <3>2. CASE FillEnded
      <4>1. blockstartpos' = Total /\ blockstartpos' = blockstartpos + blocklength
        BY <1>1, <1>5, <3>2, EndedFacts DEF FillEnded, IInv, CallInv
      <4>2. blockstartpos + blocklength = call.pos + n
        BY <1>1, <1>5, <3>2 DEF FillEnded, IInv, LoopInv
      <4> QED BY <4>1, <4>2, <1>2, <1>3, <2>2, FileTypes, StartFacts
    <3> QED BY <3>1, <3>2
  <2>4. buffer = [i \in 1..n |-> SeenPos + i - 1]
    BY <1>3, <1>5 DEF IInv, BytesInOrder, TypeOK, CallTypeOK
  <2>5. call.arg \in 0..MaxRequest /\ n \in 0..call.arg
    BY <1>1, <1>2, BoundsAssumption
  <2> QED BY <1>1, <1>3, <2>2, <2>3, <2>4, <2>5, ReadStep
<1> QED BY <1>4, <1>5

\* A seek that takes no loop: to where the handle is, or over the lookahead.
LEMMA SeekAtOnceMaps ==
  ASSUME IInv, IInv', [Next]_vars, FileSize' = FileSize,
         NEW offs \in 0..streamlength + 1, SeekNowhere(offs) \/ SeekOverLookahead(offs)
  PROVE  File!FileNext
<1>1. /\ Enter /\ pc = "idle" /\ pc' = "idle" /\ raised' = raised /\ short' = short
      /\ ret' = Reply("seek", "ok", NoBytes)
  BY DEF SeekNowhere, SeekOverLookahead, Seekable, Return, Enter, streamVars
<1>2. CASE raised
  BY <1>1, <1>2, BrokenIdleStep
<1>3. CASE ~raised
  <2>1. streampos' = offs /\ offs <= FileSize /\ offs \in Nat
    <3>1. streampos \in Nat /\ streampos <= FileSize /\ FileSize \in Nat
      BY <1>1, <1>3, IdleFacts, FileTypes, BoundsAssumption DEF IInv, TypeOK, StreamTypeOK
    <3>2. CASE SeekNowhere(offs)
      BY <3>1, <3>2 DEF SeekNowhere, streamVars
    <3>3. CASE SeekOverLookahead(offs)
      BY <1>1, <1>3, <3>1, <3>3, IdleFacts DEF SeekOverLookahead, Prepared
    <3> QED BY <3>2, <3>3
  <2>2. SeenPos' = offs /\ SeenShort' = SeenShort /\ SeenBroken' = SeenBroken
    BY <1>1, <2>1 DEF SeenPos, SeenShort, SeenBroken, Seen
  <2> QED BY <1>1, <2>1, <2>2, FileTypes, SeekStep
<1> QED BY <1>2, <1>3

\* A seek that is refused at once: past the declared length, or forwards when
\* the stream has ended.
LEMMA SeekRefusedMaps ==
  ASSUME IInv, IInv', [Next]_vars, FileSize' = FileSize,
         NEW offs \in 0..streamlength + 1, SeekRefused(offs)
  PROVE  File!FileNext
<1>1. /\ Enter /\ pc = "idle" /\ pc' = "idle" /\ raised' = raised /\ short' = short
      /\ streampos' = streampos /\ ret' = Reply("seek", "eof", NoBytes)
      /\ (endofstream /\ offs > streampos) \/ offs > streamlength
  BY DEF SeekRefused, Return, Enter, streamVars
<1>2. CASE raised
  BY <1>1, <1>2, BrokenIdleStep
<1>3. CASE ~raised
  <2>1. /\ streampos \in Nat /\ streampos <= FileSize /\ FileSize \in Nat
        /\ streamlength \in Nat /\ FileSize <= streamlength
    BY <1>1, <1>3, IdleFacts, FileTypes, BoundsAssumption DEF IInv, TypeOK, StreamTypeOK
  <2>2. offs \in Nat /\ (offs > FileSize \/ short)
    BY <1>1, <1>3, <2>1, IdleFacts
  <2>3. /\ SeenPos' = SeenPos /\ SeenPos = streampos
        /\ SeenShort' = SeenShort /\ SeenShort = short /\ SeenBroken' = SeenBroken
    BY <1>1 DEF SeenPos, SeenShort, SeenBroken, Seen
  <2> QED BY <1>1, <2>1, <2>2, <2>3, RefuseStep
<1> QED BY <1>2, <1>3

\* The skipping loop reaches the target of a seek.
LEMMA SkipDoneMaps ==
  ASSUME FileInv, IInv', SkipDone, FileSize' = FileSize
  PROVE  File!FileNext
<1> USE DEF FileInv
<1>1. /\ pc = "skip" /\ pc' = "idle" /\ ret' = Reply("seek", "ok", NoBytes)
      /\ raised' = raised /\ short' = short /\ streampos' = call.arg
      /\ blockstartpos + blocklength >= call.arg
      /\ raised => call.raised
      /\ short => call.short
  BY DEF SkipDone, Return, MemoryInv
<1>2. /\ SeenPos' = call.arg /\ SeenShort' = short /\ SeenBroken' = raised
      /\ SeenShort = call.short /\ SeenBroken = call.raised
  BY <1>1 DEF SeenPos, SeenShort, SeenBroken, Seen
<1>3. call.arg \in Nat /\ short \in BOOLEAN /\ raised \in BOOLEAN
      /\ call.raised \in BOOLEAN /\ call.short \in BOOLEAN
  BY CallFields, CallMemory DEF IInv, TypeOK, CallTypeOK, StreamTypeOK
<1>4. CASE call.raised
  <2>1. ret'.call = "seek"
    BY <1>1 DEF Reply
  <2> QED BY <1>2, <1>3, <1>4, <2>1, BrokenStep
<1>5. CASE ~call.raised
  <2>1. ~raised /\ blockstartpos + blocklength <= Total
    BY <1>1, <1>5, StartFacts DEF IInv, DecoderInv, LoopInv, CallInv, TypeOK, BlockTypeOK
  <2>2. call.arg <= FileSize
    BY <1>1, <1>3, <2>1, FileTypes, StartFacts DEF IInv, CallInv, TypeOK, BlockTypeOK
  <2>3. SeenShort' \in {SeenShort, FALSE} /\ SeenBroken' = SeenBroken
    BY <1>1, <1>2, <1>3, <1>5, <2>1
  <2> QED BY <1>1, <1>2, <1>3, <2>2, <2>3, FileTypes, SeekStep
<1> QED BY <1>4, <1>5

\* The data ends before the target: the seek is refused wherever it stands.
LEMMA SkipEndedMaps ==
  ASSUME FileInv, IInv', SkipEnded, FileSize' = FileSize
  PROVE  File!FileNext
<1> USE DEF FileInv
<1>1. /\ pc = "skip" /\ raised' = raised /\ blockstartpos + blocklength < call.arg
      /\ blockstartpos' = blockstartpos + blocklength
      /\ raised => call.raised
      /\ call.raised \/ call.pos <= streampos \/ call.arg <= Total
  BY DEF SkipEnded, Skipping, StreamEnded, MemoryInv
<1>2. call.arg \in Nat /\ call.pos \in Nat /\ call.raised \in BOOLEAN /\ call.short \in BOOLEAN
      /\ raised \in BOOLEAN /\ streampos \in Nat /\ blockstartpos \in Nat /\ blocklength \in Nat
  BY CallFields, CallMemory, BoundsAssumption
  DEF IInv, TypeOK, CallTypeOK, StreamTypeOK, BlockTypeOK
<1>3. /\ pc' = "idle" /\ ret' = Reply("seek", "eof", NoBytes)
      /\ short' = TRUE /\ streampos' = streampos
  BY <1>1, <1>2 DEF SkipEnded, Return
<1>4. /\ SeenPos' = streampos /\ SeenShort' = TRUE /\ SeenBroken' = raised
      /\ SeenPos = call.pos /\ SeenShort = call.short /\ SeenBroken = call.raised
  BY <1>1, <1>3 DEF SeenPos, SeenShort, SeenBroken, Seen
<1>5. CASE call.raised
  <2>1. ret'.call = "seek"
    BY <1>3 DEF Reply
  <2> QED BY <1>2, <1>4, <1>5, <2>1, BrokenStep
<1>6. CASE ~call.raised
  <2>1. ~raised /\ ~needsreset /\ DecoderInv /\ ~endofstream /\ streampos <= Total
    BY <1>1, <1>6 DEF IInv, CallInv, LoopInv, PositionInv
  <2>2. blockstartpos' = Total
    BY <2>1, EndedFacts DEF SkipEnded, IInv
  <2>3. call.arg > Total /\ call.pos <= streampos /\ streampos <= FileSize
    BY <1>1, <1>2, <1>6, <2>1, <2>2, FileTypes, StartFacts, BoundsAssumption
    DEF IInv, TypeOK, StreamTypeOK
  <2>4. call.arg > FileSize /\ SeenPos' \in SeenPos..FileSize /\ SeenBroken' = SeenBroken
    BY <1>2, <1>4, <1>6, <2>1, <2>3, FileTypes, StartFacts
  <2> QED BY <1>2, <1>3, <1>4, <2>4, FileTypes, RefuseStep
<1> QED BY <1>5, <1>6

\* The decoder raises in a loop.
LEMMA RaisedMaps ==
  ASSUME FileInv, IInv', FillRaised \/ SkipRaised, FileSize' = FileSize
  PROVE  File!FileNext
<1>1. pc' = "idle" /\ raised' = TRUE /\ ret'.outcome = "raised"
  BY DEF FillRaised, SkipRaised, Return, Reply
<1>2. SeenPos' \in Nat /\ SeenShort' \in BOOLEAN /\ SeenBroken' = TRUE
  BY <1>1, BoundsAssumption DEF IInv, TypeOK, StreamTypeOK, SeenPos, SeenShort, SeenBroken, Seen
<1> QED BY <1>1, <1>2, FailStep

\* atEndOfFile answers truthfully, whether it knew or had to look.
LEMMA AtEndMaps ==
  ASSUME IInv, IInv', [Next]_vars, FileSize' = FileSize,
         AtEndKnown \/ PeekInBlock \/ PeekNextBlock \/ PeekEnded
  PROVE  File!FileNext
<1>1. /\ Enter /\ pc = "idle" /\ pc' = "idle" /\ raised' = raised /\ short' = short
      /\ streampos' = streampos
  BY DEF AtEndKnown, PeekInBlock, PeekNextBlock, PeekEnded, MustPeek, Return, Enter, streamVars
<1>2. /\ SeenPos = streampos /\ SeenPos' = SeenPos
      /\ SeenShort' = SeenShort /\ SeenShort = short /\ SeenBroken' = SeenBroken
  BY <1>1 DEF SeenPos, SeenShort, SeenBroken, Seen
<1>3. CASE raised
  BY <1>1, <1>3, BrokenIdleStep
<1>4. CASE ~raised
  <2>1. /\ streampos \in Nat /\ streamlength \in Nat /\ streampos <= streamlength
        /\ FileSize \in Nat /\ streampos <= FileSize
    BY <1>1, <1>4, BoundsAssumption, FileTypes, IdleFacts DEF IInv, TypeOK, StreamTypeOK
  <2>2. CASE AtEndKnown
    <3>1. CASE endofstream \/ streampos = streamlength
      <4>1. ret' = Reply("atend", "yes", NoBytes)
        BY <2>2, <3>1 DEF AtEndKnown, Return
      <4>2. SeenPos = FileSize \/ SeenShort
        BY <1>1, <1>2, <1>4, <3>1, IdleFacts
      <4> QED BY <1>2, <4>1, <4>2, AtEndStep
    <3>2. CASE ~(endofstream \/ streampos = streamlength)
      <4>1. ret' = Reply("atend", "no", NoBytes) /\ HasLookahead
        BY <2>2, <3>2 DEF AtEndKnown, Return
      <4>2. SeenPos < FileSize
        BY <1>1, <1>2, <1>4, <4>1, IdleFacts
      <4> QED BY <1>2, <4>1, <4>2, AtEndStep
    <3> QED BY <3>1, <3>2
  <2>3. CASE PeekInBlock \/ PeekNextBlock
    <3>1. ret' = Reply("atend", "no", NoBytes) /\ MustPeek
      BY <2>3 DEF PeekInBlock, PeekNextBlock, Return
    <3>2. streampos < Total
      <4>1. CASE PeekInBlock
        BY <1>1, <1>4, <4>1, IdleFacts DEF PeekInBlock, MustPeek
      <4>2. CASE PeekNextBlock
        <5>1. HasLookahead'
          BY <4>2, <2>1, StartFacts DEF PeekNextBlock, BlockByte, HasLookahead, NoByte,
             IInv, TypeOK, BlockTypeOK
        <5>2. Enter' /\ ~raised'
          BY <1>1, <1>4, <4>2 DEF PeekNextBlock, Enter
        <5> DEFINE end == blockstartpos' + blocklength'
        <5>3. end <= Total /\ streampos < end
          BY <5>1, <5>2, <1>1, StartFacts
          DEF IInv, DecoderInv, PositionInv, TypeOK, BlockTypeOK, Enter
        <5>4. blockstartpos' \in Nat /\ blocklength' \in Nat /\ Total \in Nat
          BY StartFacts DEF IInv, TypeOK, BlockTypeOK
        <5>5. end \in Nat
          BY <5>4, SumInNat
        <5> HIDE DEF end
        <5> QED BY <5>3, <5>4, <5>5, <2>1
      <4> QED BY <2>3, <4>1, <4>2
    <3>3. SeenPos < FileSize
      BY <1>2, <2>1, <3>1, <3>2, FileTypes DEF MustPeek
    <3> QED BY <1>2, <3>1, <3>3, AtEndStep
  <2>4. CASE PeekEnded
    <3>1. ret' = Reply("atend", "yes", NoBytes) /\ endofstream' = TRUE
      BY <2>4 DEF PeekEnded, Return, StreamEnded
    <3>2. short \/ streampos = Total
      BY <1>1, <1>4, <3>1 DEF IInv, EndIsTheEnd
    <3>3. SeenPos = FileSize \/ SeenShort
      BY <1>2, <2>1, <3>2, FileTypes, StartFacts
    <3> QED BY <1>2, <3>1, <3>3, AtEndStep
  <2> QED BY <2>2, <2>3, <2>4
<1> QED BY <1>3, <1>4

\* atEndOfFile swallows what the decoder raises and answers yes.
LEMMA PeekRaisedMaps ==
  ASSUME IInv, IInv', PeekRaised, FileSize' = FileSize
  PROVE  File!FileNext
<1>1. pc' = "idle" /\ raised' = TRUE /\ ret'.outcome = "yes"
  BY DEF PeekRaised, Return, Reply
<1>2. SeenPos' \in Nat /\ SeenShort' \in BOOLEAN /\ SeenBroken' = TRUE
  BY <1>1, BoundsAssumption DEF IInv, TypeOK, StreamTypeOK, SeenPos, SeenShort, SeenBroken, Seen
<1> QED BY <1>1, <1>2, FailStep

\* The lazy reset, the start of a call and the rounds of its loop are not
\* seen by the client.
LEMMA UnseenMaps ==
  ASSUME FileInv, FileSize' = FileSize,
         \/ ResetIfNeeded \/ FillBlock \/ SkipBlock
         \/ \E num \in 0..MaxRequest : ReadStart(num)
         \/ \E offs \in 0..streamlength + 1 : SeekForward(offs) \/ SeekBackward(offs)
  PROVE  UNCHANGED File!fileVars
<1>1. CASE ResetIfNeeded
  BY <1>1, UnseenStep DEF ResetIfNeeded, callVars, SeenPos, SeenShort, SeenBroken, Seen
<1>2. CASE FillBlock \/ SkipBlock
  BY <1>2, UnseenStep DEF FillBlock, SkipBlock, Skipping, callVars, SeenPos, SeenShort, SeenBroken, Seen
<1>3. ASSUME NEW num \in 0..MaxRequest, ReadStart(num)
      PROVE  UNCHANGED File!fileVars
  BY <1>3, UnseenStep DEF ReadStart, Enter, Call, SeenPos, SeenShort, SeenBroken, Seen
<1>4. ASSUME NEW offs \in 0..streamlength + 1, SeekForward(offs) \/ SeekBackward(offs)
      PROVE  UNCHANGED File!fileVars
  BY <1>4, UnseenStep DEF SeekForward, SeekBackward, Seekable, Enter, Call, SeenPos, SeenShort,
     SeenBroken, Seen
<1> QED BY <1>1, <1>2, <1>3, <1>4

\* Every step of the handle is a step of the file or none.
LEMMA StepMaps == FileInv /\ IInv' /\ [Next]_vars => [File!FileNext]_(File!fileVars)
<1> SUFFICES ASSUME FileInv, IInv, IInv', [Next]_vars
             PROVE  File!FileNext \/ UNCHANGED File!fileVars
  BY DEF FileInv
<1>1. FileSize' = FileSize
  BY SizeKept
<1>2. CASE ResetIfNeeded \/ FillBlock \/ SkipBlock
  BY <1>1, <1>2, UnseenMaps
<1>3. ASSUME NEW num \in 0..MaxRequest, ReadNothing(num) \/ ReadLookahead(num) \/ ReadStart(num)
      PROVE  File!FileNext \/ UNCHANGED File!fileVars
  BY <1>1, <1>3, ReadNothingMaps, ReadLookaheadMaps, UnseenMaps
<1>4. ASSUME NEW offs \in 0..streamlength + 1,
             \/ SeekNowhere(offs) \/ SeekRefused(offs) \/ SeekOverLookahead(offs)
             \/ SeekForward(offs) \/ SeekBackward(offs)
      PROVE  File!FileNext \/ UNCHANGED File!fileVars
  BY <1>1, <1>4, SeekAtOnceMaps, SeekRefusedMaps, UnseenMaps
<1>5. CASE AtEndKnown \/ PeekInBlock \/ PeekNextBlock \/ PeekEnded \/ PeekRaised
  BY <1>1, <1>5, AtEndMaps, PeekRaisedMaps
<1>6. CASE FillEnded \/ FillDone \/ FillRaised \/ SkipEnded \/ SkipRaised \/ SkipDone
  BY <1>1, <1>6, FillReturnMaps, RaisedMaps, SkipEndedMaps, SkipDoneMaps
<1>7. CASE UNCHANGED vars
  BY <1>1, <1>7, UnseenStep DEF vars, streamVars, callVars, SeenPos, SeenShort, SeenBroken, Seen
<1> QED BY <1>2, <1>3, <1>4, <1>5, <1>6, <1>7 DEF Next, Client, Loop

\* A handle that has just been made is a file at its start.
LEMMA InitMaps == Init => File!FileInit
<1> SUFFICES ASSUME Init PROVE File!FileInit
  OBVIOUS
<1>1. FileSize \in Nat
  BY InitIInv, FileTypes
<1> QED BY <1>1 DEF Init, File!FileInit, File!Reply, Reply, File!NoBytes, NoBytes, FileSize, Seen

\* Whatever the decoder, the declared length and the calls, a client of
\* CSBlockStreamHandle sees a file: reads deliver the bytes that follow the
\* position, seeks arrive or are refused, atEndOfFile tells the truth.
THEOREM ImplementsFile == Spec => IsAFile
<1>1. FileInv => IInv
  BY DEF FileInv
<1> QED BY <1>1, InitMaps, StepMaps, FileInductive, PTL DEF Spec, IsAFile, File!FileSpec

=============================================================================
