-------------------------- MODULE BlockStream_proofs --------------------------
(***************************************************************************)
(* For every decoder (any number of blocks of any sizes), every declared   *)
(* length and every request size: BlockStream keeps TypeOK, delivers the   *)
(* bytes in order and reports the end only at the end.                     *)
(*                                                                         *)
(* None of these is inductive.  The strengthening says how the three       *)
(* positions of the handle relate: where the client is (streampos), which  *)
(* stretch of the data _currblock holds (blockstartpos, blocklength) and   *)
(* how far the decoder has got (decoder).                                  *)
(***************************************************************************)
EXTENDS BlockStream, TLAPS

\* The bookkeeping of a running call.  It holds whatever the decoder did.
CallInv ==
  /\ needsreset => pc = "idle" /\ streampos = 0 /\ ~endofstream /\ ~HasLookahead
                   /\ blockstartpos = 0 /\ blocklength = 0 /\ ~endofblocks /\ ~raised
  /\ HasLookahead => streampos < streamlength /\ pc = "idle"
  /\ pc = "idle" => n = 0
  /\ pc = "fill" => /\ call.pos + call.head = streampos
                    /\ call.head <= n /\ n <= call.arg
                    /\ call.pos + call.arg <= streamlength
                    /\ call.head < call.arg
                    /\ ~endofstream
  /\ pc = "skip" => call.arg <= streamlength /\ n = 0

\* The decoder stands right behind the current block.
DecoderInv ==
  /\ endofblocks => decoder = NBlocks
  /\ ~endofstream => /\ blockstartpos + blocklength = Start[decoder]
                     /\ blocklength = 0 => decoder = 0 /\ blockstartpos = 0
                     /\ blocklength > 0 => /\ decoder = currblock + 1
                                           /\ blockstartpos = Start[currblock]
  /\ endofstream => blockstartpos = Total

\* Between calls the position lies in the current block or at its end.
PositionInv ==
  /\ pc = "idle" /\ ~endofstream => /\ blockstartpos <= streampos
                                    /\ streampos <= blockstartpos + blocklength
                                    /\ HasLookahead => streampos < blockstartpos + blocklength
  /\ pc # "fill" => streampos <= Total
  /\ HasLookahead => ~endofstream

\* The loops: what is left to copy, or to skip, begins behind the block.
LoopInv ==
  /\ pc = "fill" /\ n < call.arg => blockstartpos + blocklength = call.pos + n
  /\ pc = "fill" => /\ blockstartpos <= call.pos + n
                    /\ call.pos + n <= blockstartpos + blocklength
  /\ pc = "skip" => ~endofstream /\ blockstartpos <= call.arg

IInv ==
  /\ TypeOK
  /\ CallInv
  /\ ~raised => /\ ~needsreset => DecoderInv
                /\ PositionInv
                /\ LoopInv
  /\ BytesInOrder
  /\ EndIsTheEnd


-----------------------------------------------------------------------------
\* Blocks tile the data: none is empty, and none lies beyond the end.
LEMMA StartFacts ==
  /\ NBlocks \in Nat /\ Total \in Nat /\ Start[0] = 0
  /\ \A k \in 0..NBlocks : Start[k] \in Nat /\ Start[k] <= Total
  /\ \A k \in 0..NBlocks - 1 : /\ BlockLen(k) \in Nat \ {0}
                               /\ k + 1 \in 0..NBlocks
                               /\ Start[k] + BlockLen(k) = Start[k + 1]
BY BlocksAssumption DEF Total, BlockLen

\* The call records are well formed.
LEMMA NoCallFact == NoCall \in Calls /\ NoBytes \in [1..0 -> Nat]
<1>1. NoBytes \in [1..0 -> Nat]
  BY DEF NoBytes
<1> QED BY <1>1 DEF NoCall, Calls

\* The fields of a call are numbers.
LEMMA CallFields ==
  \A c \in Calls : c.arg \in Nat /\ c.pos \in Nat /\ c.head \in {0, 1}
BY DEF Calls

\* A block that is decoded is not empty, and the decoder stays right behind it.
LEMMA ProducedFacts ==
  ASSUME TypeOK, BlockProduced
  PROVE  /\ blocklength' \in Nat /\ blocklength' > 0
         /\ blockstartpos' = blockstartpos + blocklength
         /\ currblock' \in 0..NBlocks /\ decoder' \in 0..NBlocks
         /\ endofblocks' \in BOOLEAN /\ endofstream' = endofstream
         /\ DecoderInv /\ ~endofstream =>
              DecoderInv' /\ Start[currblock'] = blockstartpos'
<1> USE StartFacts DEF TypeOK, StreamTypeOK, BlockTypeOK, CallTypeOK, BlockProduced
<1>1. decoder \in 0..NBlocks - 1
  OBVIOUS
<1>2. /\ BlockLen(decoder) \in Nat \ {0} /\ decoder + 1 \in 0..NBlocks
      /\ Start[decoder] + BlockLen(decoder) = Start[decoder + 1]
  BY <1>1
<1>3. endofblocks' \in BOOLEAN /\ (endofblocks' => decoder' = NBlocks)
  OBVIOUS
<1>4. ASSUME DecoderInv, ~endofstream
      PROVE  DecoderInv' /\ Start[currblock'] = blockstartpos'
  BY <1>2, <1>3, <1>4 DEF DecoderInv
<1>5. /\ blocklength' \in Nat /\ blocklength' > 0
      /\ blockstartpos' = blockstartpos + blocklength
  BY <1>2
<1>6. currblock' \in 0..NBlocks /\ decoder' \in 0..NBlocks /\ endofstream' = endofstream
  BY <1>1, <1>2
<1> HIDE DEF TypeOK, StreamTypeOK, BlockTypeOK, CallTypeOK, BlockProduced
<1> QED BY ONLY <1>3, <1>4, <1>5, <1>6

\* When the decoder is at its end, so is the current block.
LEMMA EndedFacts ==
  ASSUME TypeOK, StreamEnded
  PROVE  /\ blocklength' \in Nat /\ blockstartpos' = blockstartpos + blocklength
         /\ endofstream' = TRUE
         /\ UNCHANGED <<currblock, endofblocks, decoder>>
         /\ DecoderInv /\ ~endofstream => DecoderInv' /\ blockstartpos' = Total
BY StartFacts DEF TypeOK, StreamTypeOK, BlockTypeOK, CallTypeOK, StreamEnded, DecoderInv, Total

\* The lazy reset leaves an unread handle at the start of the data.
LEMMA ResetIfNeededKeeps ==
  ASSUME IInv, ResetIfNeeded
  PROVE  IInv'
<1> USE StartFacts, BoundsAssumption, NoCallFact, CallFields DEF IInv, HasLookahead, NoByte
<1>1. TypeOK'
  <2> USE DEF TypeOK, StreamTypeOK, BlockTypeOK, CallTypeOK, CallInv, ResetIfNeeded, streamVars, blockVars, callVars, ResetStream
  <2>1. streamlength' \in Lengths /\ streampos' \in 0..streamlength'
    OBVIOUS
  <2>2. /\ needsreset' \in BOOLEAN /\ endofstream' \in BOOLEAN
        /\ endofblocks' \in BOOLEAN /\ raised' \in BOOLEAN /\ short' \in BOOLEAN
    OBVIOUS
  <2>3. blockstartpos' \in Nat /\ blocklength' \in Nat
    OBVIOUS
  <2>4. currblock' \in 0..NBlocks /\ decoder' \in 0..NBlocks
    OBVIOUS
  <2>5. nextstreambyte' \in {NoByte} \cup Nat
    OBVIOUS
  <2>6. /\ pc' \in {"idle", "fill", "skip"}
        /\ call' \in Calls
    OBVIOUS
  <2>7. n' \in Nat /\ buffer' \in [1..n' -> Nat]
    OBVIOUS
  <2> QED BY <2>1, <2>2, <2>3, <2>4, <2>5, <2>6, <2>7
<1>2. CallInv'
  BY DEF TypeOK, StreamTypeOK, BlockTypeOK, CallTypeOK, CallInv, ResetIfNeeded, streamVars, blockVars, callVars, ResetStream
<1>3. (~raised => (~needsreset => DecoderInv) /\ PositionInv /\ LoopInv)'
  BY DEF TypeOK, StreamTypeOK, BlockTypeOK, CallTypeOK, CallInv, DecoderInv, PositionInv, LoopInv,
         ResetIfNeeded, streamVars, blockVars, callVars, ResetStream
<1>4. BytesInOrder'
  BY DEF TypeOK, StreamTypeOK, BlockTypeOK, CallTypeOK, CallInv, DecoderInv, PositionInv, LoopInv, BytesInOrder,
         ResetIfNeeded, streamVars, blockVars, callVars, ResetStream
<1>5. EndIsTheEnd'
  BY DEF TypeOK, StreamTypeOK, BlockTypeOK, CallTypeOK, CallInv, DecoderInv, PositionInv, LoopInv, EndIsTheEnd,
         ResetIfNeeded, streamVars, blockVars, callVars, ResetStream
<1> QED BY <1>1, <1>2, <1>3, <1>4, <1>5

\* A read that asks for nothing, or comes after the end, changes only ret.
LEMMA ReadNothingKeeps ==
  ASSUME IInv, NEW num \in 0..MaxRequest, ReadNothing(num)
  PROVE  IInv'
<1> USE StartFacts, BoundsAssumption, NoCallFact, CallFields DEF IInv, HasLookahead, NoByte
<1>1. TypeOK'
  BY DEF TypeOK, StreamTypeOK, BlockTypeOK, CallTypeOK, CallInv, ReadNothing, streamVars, blockVars, callVars, Enter, Clip, Return
<1>2. CallInv'
  BY DEF TypeOK, StreamTypeOK, BlockTypeOK, CallTypeOK, CallInv, ReadNothing, streamVars, blockVars, callVars, Enter, Clip, Return
<1>3. (~raised => (~needsreset => DecoderInv) /\ PositionInv /\ LoopInv)'
  BY DEF TypeOK, StreamTypeOK, BlockTypeOK, CallTypeOK, CallInv, DecoderInv, PositionInv, LoopInv,
         ReadNothing, streamVars, blockVars, callVars, Enter, Clip, Return
<1>4. BytesInOrder'
  BY DEF TypeOK, StreamTypeOK, BlockTypeOK, CallTypeOK, CallInv, DecoderInv, PositionInv, LoopInv, BytesInOrder,
         ReadNothing, streamVars, blockVars, callVars, Enter, Clip, Return
<1>5. EndIsTheEnd'
  BY DEF TypeOK, StreamTypeOK, BlockTypeOK, CallTypeOK, CallInv, DecoderInv, PositionInv, LoopInv, EndIsTheEnd,
         ReadNothing, streamVars, blockVars, callVars, Enter, Clip, Return
<1> QED BY <1>1, <1>2, <1>3, <1>4, <1>5

\* A read of one byte that the lookahead satisfies.
LEMMA ReadLookaheadKeeps ==
  ASSUME IInv, NEW num \in 0..MaxRequest, ReadLookahead(num)
  PROVE  IInv'
<1> USE StartFacts, BoundsAssumption, NoCallFact, CallFields DEF IInv, HasLookahead, NoByte
<1>1. TypeOK'
  BY DEF TypeOK, StreamTypeOK, BlockTypeOK, CallTypeOK, CallInv, ReadLookahead, streamVars, blockVars, callVars, Enter, Clip, Return
<1>2. CallInv'
  BY DEF TypeOK, StreamTypeOK, BlockTypeOK, CallTypeOK, CallInv, ReadLookahead, streamVars, blockVars, callVars, Enter, Clip, Return
<1>3. (~raised => (~needsreset => DecoderInv) /\ PositionInv /\ LoopInv)'
  BY DEF TypeOK, StreamTypeOK, BlockTypeOK, CallTypeOK, CallInv, DecoderInv, PositionInv, LoopInv,
         ReadLookahead, streamVars, blockVars, callVars, Enter, Clip, Return
<1>4. BytesInOrder'
  BY DEF TypeOK, StreamTypeOK, BlockTypeOK, CallTypeOK, CallInv, DecoderInv, PositionInv, LoopInv, BytesInOrder,
         ReadLookahead, streamVars, blockVars, callVars, Enter, Clip, Return
<1>5. EndIsTheEnd'
  BY DEF TypeOK, StreamTypeOK, BlockTypeOK, CallTypeOK, CallInv, DecoderInv, PositionInv, LoopInv, EndIsTheEnd,
         ReadLookahead, streamVars, blockVars, callVars, Enter, Clip, Return
<1> QED BY <1>1, <1>2, <1>3, <1>4, <1>5

\* A read takes the lookahead byte and the rest of the current block; the
\* bytes gathered are the ones that follow the position.
LEMMA ReadStartKeeps ==
  ASSUME IInv, NEW num \in 0..MaxRequest, ReadStart(num)
  PROVE  IInv'
<1> USE DEF IInv
<1> DEFINE head == IF HasLookahead THEN 1 ELSE 0
           pos == streampos + head
           left == blockstartpos + blocklength - pos
           count == IF InBlock(pos) THEN Smaller(left, Clip(num) - head) ELSE 0
<1>0. /\ TypeOK /\ pc = "idle" /\ ~needsreset /\ ~endofstream
      /\ Clip(num) \in Nat /\ Clip(num) > head /\ streampos + Clip(num) <= streamlength
      /\ head \in {0, 1} /\ pos \in Nat /\ streampos \in Nat /\ streamlength \in Nat
  BY BoundsAssumption DEF ReadStart, Enter, TypeOK, StreamTypeOK, BlockTypeOK, CallTypeOK, Clip
<1>1. /\ UNCHANGED <<streamlength, needsreset, endofstream, raised, short>>
      /\ UNCHANGED blockVars
      /\ streampos' = pos /\ nextstreambyte' = NoByte /\ pc' = "fill"
      /\ n' = head + count
      /\ buffer' = Copy([i \in 1..head |-> nextstreambyte], head, count,
                        currblock, pos - blockstartpos)
      /\ call' = [op |-> "read", arg |-> Clip(num), head |-> head,
                  pos |-> streampos, raised |-> raised, short |-> short]
  BY DEF ReadStart, Call
<1>2. /\ count \in Nat /\ head + count <= Clip(num)
      /\ InBlock(pos) => /\ pos >= blockstartpos
                         /\ pos + count <= blockstartpos + blocklength
                         /\ head + count < Clip(num) => pos + count = blockstartpos + blocklength
      /\ ~InBlock(pos) => count = 0
  <2>1. CASE InBlock(pos)
    <3>1. left \in Nat /\ pos >= blockstartpos
      BY <2>1, <1>0 DEF TypeOK, BlockTypeOK, InBlock
    <3>2. count = Smaller(left, Clip(num) - head)
      BY <2>1
    <3> HIDE DEF count, head
    <3> QED BY <2>1, <3>1, <3>2, <1>0 DEF Smaller, TypeOK, BlockTypeOK
  <2>2. CASE ~InBlock(pos)
    BY <2>2, <1>0
  <2> QED BY <2>1, <2>2
<1>3. HasLookahead => nextstreambyte \in Nat
  BY DEF HasLookahead, TypeOK, StreamTypeOK, BlockTypeOK, CallTypeOK
<1> HIDE DEF head, pos, left, count
<1>4. /\ n' \in Nat /\ buffer' \in [1..n' -> Nat]
      /\ \A i \in 1..n' : buffer'[i] = IF i <= head THEN nextstreambyte
                                       ELSE Start[currblock] + pos - blockstartpos + i - head - 1
  <2>1. Start[currblock] \in Nat /\ blockstartpos \in Nat
    BY <1>0, StartFacts DEF TypeOK, StreamTypeOK, BlockTypeOK, CallTypeOK
  <2>2. buffer' = [j \in 1..n' |->
                     IF j <= head THEN [i \in 1..head |-> nextstreambyte][j]
                     ELSE Start[currblock] + (pos - blockstartpos + j - head - 1)]
    BY <1>1 DEF Copy, BlockByte
  <2>3. ASSUME NEW j \in 1..n', j <= head
        PROVE  nextstreambyte \in Nat /\ [i \in 1..head |-> nextstreambyte][j] = nextstreambyte
    BY <2>3, <1>0, <1>1, <1>2, <1>3 DEF head
  <2>4. ASSUME NEW j \in 1..n', ~(j <= head)
        PROVE  Start[currblock] + (pos - blockstartpos + j - head - 1) \in Nat
    <3>1. InBlock(pos) /\ j - head - 1 \in Nat /\ pos - blockstartpos \in Nat
      BY <2>1, <2>4, <1>0, <1>1, <1>2
    <3> QED BY <3>1, <2>1
  <2>5. n' \in Nat
    BY <1>0, <1>1, <1>2
  <2>6. ASSUME NEW j \in 1..n'
        PROVE  buffer'[j] = IF j <= head THEN nextstreambyte
                            ELSE Start[currblock] + pos - blockstartpos + j - head - 1
    BY <2>1, <2>2, <2>3, <2>5, <2>6, <1>0
  <2> QED BY <2>2, <2>3, <2>4, <2>5, <2>6
<1>5. TypeOK'
  <2>1. pos <= streamlength
    BY <1>0 DEF pos
  <2>2. StreamTypeOK'
    BY <2>1, <1>0, <1>1, <1>4 DEF TypeOK, StreamTypeOK, blockVars
  <2>3. BlockTypeOK'
    BY <2>1, <1>0, <1>1, <1>4 DEF TypeOK, BlockTypeOK, blockVars
  <2>4. CallTypeOK'
    <3>1. call' \in Calls
      BY <1>0, <1>1 DEF TypeOK, StreamTypeOK, Calls
    <3> QED BY <3>1, <1>1, <1>4 DEF CallTypeOK
  <2> QED BY <2>2, <2>3, <2>4 DEF TypeOK
<1>6. CallInv'
  BY <1>0, <1>1, <1>2 DEF CallInv, HasLookahead, NoByte, pos
<1>7. ASSUME ~raised'
      PROVE  PositionInv' /\ LoopInv' /\ DecoderInv' /\ BytesInOrder'
  <2>1. DecoderInv'
    BY <1>0, <1>1, <1>7 DEF DecoderInv, blockVars
  <2>2. blockstartpos <= pos /\ pos <= blockstartpos + blocklength
    BY <1>0, <1>1, <1>7 DEF PositionInv, TypeOK, StreamTypeOK, BlockTypeOK, CallTypeOK, pos, head
  <2>3. PositionInv'
    BY <1>0, <1>1 DEF PositionInv, HasLookahead, NoByte
  <2>4. LoopInv'
    BY <2>2, <1>0, <1>1, <1>2 DEF LoopInv, TypeOK, StreamTypeOK, BlockTypeOK, CallTypeOK, InBlock, pos, blockVars
  <2>5. ASSUME NEW i \in 1..n'
        PROVE  buffer'[i] = streampos + i - 1
    <3>1. CASE i <= head
      <4>1. HasLookahead /\ head = 1 /\ i = 1
        BY <3>1, <1>0, <1>1, <1>4 DEF head
      <4>2. buffer'[i] = nextstreambyte /\ nextstreambyte = streampos
        BY <4>1, <3>1, <1>1, <1>4, <1>7 DEF BytesInOrder
      <4> QED BY <4>1, <4>2, <1>0
    <3>2. CASE ~(i <= head)
      <4>1. InBlock(pos)
        BY <3>2, <1>0, <1>1, <1>2
      <4>2. Start[currblock] = blockstartpos /\ blockstartpos \in Nat
        BY <4>1, <1>0, <1>1, <1>7 DEF DecoderInv, InBlock, TypeOK, BlockTypeOK
      <4>3. buffer'[i] = Start[currblock] + pos - blockstartpos + i - head - 1
        BY <3>2, <1>4
      <4> QED BY <4>2, <4>3, <1>0, <1>1 DEF pos
    <3> QED BY <3>1, <3>2
  <2>6. BytesInOrder'
    BY <2>5, <1>1 DEF BytesInOrder, HasLookahead, NoByte
  <2> QED BY <2>1, <2>3, <2>4, <2>6
<1> QED BY <1>0, <1>1, <1>5, <1>6, <1>7 DEF BytesInOrder, EndIsTheEnd

\* A seek to where the handle already is.
LEMMA SeekNowhereKeeps ==
  ASSUME IInv, NEW offs \in 0..streamlength + 1, SeekNowhere(offs)
  PROVE  IInv'
<1> USE StartFacts, BoundsAssumption, NoCallFact, CallFields DEF IInv, HasLookahead, NoByte
<1>1. TypeOK'
  BY DEF TypeOK, StreamTypeOK, BlockTypeOK, CallTypeOK, CallInv, SeekNowhere, streamVars, blockVars, callVars, Enter, Return
<1>2. CallInv'
  BY DEF TypeOK, StreamTypeOK, BlockTypeOK, CallTypeOK, CallInv, SeekNowhere, streamVars, blockVars, callVars, Enter, Return
<1>3. (~raised => (~needsreset => DecoderInv) /\ PositionInv /\ LoopInv)'
  BY DEF TypeOK, StreamTypeOK, BlockTypeOK, CallTypeOK, CallInv, DecoderInv, PositionInv, LoopInv,
         SeekNowhere, streamVars, blockVars, callVars, Enter, Return
<1>4. BytesInOrder'
  BY DEF TypeOK, StreamTypeOK, BlockTypeOK, CallTypeOK, CallInv, DecoderInv, PositionInv, LoopInv, BytesInOrder,
         SeekNowhere, streamVars, blockVars, callVars, Enter, Return
<1>5. EndIsTheEnd'
  BY DEF TypeOK, StreamTypeOK, BlockTypeOK, CallTypeOK, CallInv, DecoderInv, PositionInv, LoopInv, EndIsTheEnd,
         SeekNowhere, streamVars, blockVars, callVars, Enter, Return
<1> QED BY <1>1, <1>2, <1>3, <1>4, <1>5

\* A seek beyond the declared length, or forwards after the end, is refused.
LEMMA SeekRefusedKeeps ==
  ASSUME IInv, NEW offs \in 0..streamlength + 1, SeekRefused(offs)
  PROVE  IInv'
<1> USE StartFacts, BoundsAssumption, NoCallFact, CallFields DEF IInv, HasLookahead, NoByte
<1>1. TypeOK'
  BY DEF TypeOK, StreamTypeOK, BlockTypeOK, CallTypeOK, CallInv, SeekRefused, streamVars, blockVars, callVars, Enter, Return
<1>2. CallInv'
  BY DEF TypeOK, StreamTypeOK, BlockTypeOK, CallTypeOK, CallInv, SeekRefused, streamVars, blockVars, callVars, Enter, Return
<1>3. (~raised => (~needsreset => DecoderInv) /\ PositionInv /\ LoopInv)'
  BY DEF TypeOK, StreamTypeOK, BlockTypeOK, CallTypeOK, CallInv, DecoderInv, PositionInv, LoopInv,
         SeekRefused, streamVars, blockVars, callVars, Enter, Return
<1>4. BytesInOrder'
  BY DEF TypeOK, StreamTypeOK, BlockTypeOK, CallTypeOK, CallInv, DecoderInv, PositionInv, LoopInv, BytesInOrder,
         SeekRefused, streamVars, blockVars, callVars, Enter, Return
<1>5. EndIsTheEnd'
  BY DEF TypeOK, StreamTypeOK, BlockTypeOK, CallTypeOK, CallInv, DecoderInv, PositionInv, LoopInv, EndIsTheEnd,
         SeekRefused, streamVars, blockVars, callVars, Enter, Return
<1> QED BY <1>1, <1>2, <1>3, <1>4, <1>5

\* A seek of one byte that consumes the lookahead.
LEMMA SeekOverLookaheadKeeps ==
  ASSUME IInv, NEW offs \in 0..streamlength + 1, SeekOverLookahead(offs)
  PROVE  IInv'
<1> USE StartFacts, BoundsAssumption, NoCallFact, CallFields DEF IInv, HasLookahead, NoByte
<1>1. TypeOK'
  BY DEF TypeOK, StreamTypeOK, BlockTypeOK, CallTypeOK, CallInv, SeekOverLookahead, streamVars, blockVars, callVars, Enter, Seekable, Prepared, Return
<1>2. CallInv'
  BY DEF TypeOK, StreamTypeOK, BlockTypeOK, CallTypeOK, CallInv, SeekOverLookahead, streamVars, blockVars, callVars, Enter, Seekable, Prepared, Return
<1>3. (~raised => (~needsreset => DecoderInv) /\ PositionInv /\ LoopInv)'
  BY DEF TypeOK, StreamTypeOK, BlockTypeOK, CallTypeOK, CallInv, DecoderInv, PositionInv, LoopInv,
         SeekOverLookahead, streamVars, blockVars, callVars, Enter, Seekable, Prepared, Return
<1>4. BytesInOrder'
  BY DEF TypeOK, StreamTypeOK, BlockTypeOK, CallTypeOK, CallInv, DecoderInv, PositionInv, LoopInv, BytesInOrder,
         SeekOverLookahead, streamVars, blockVars, callVars, Enter, Seekable, Prepared, Return
<1>5. EndIsTheEnd'
  BY DEF TypeOK, StreamTypeOK, BlockTypeOK, CallTypeOK, CallInv, DecoderInv, PositionInv, LoopInv, EndIsTheEnd,
         SeekOverLookahead, streamVars, blockVars, callVars, Enter, Seekable, Prepared, Return
<1> QED BY <1>1, <1>2, <1>3, <1>4, <1>5

\* A seek into the current block or beyond it enters the skipping loop.
LEMMA SeekForwardKeeps ==
  ASSUME IInv, NEW offs \in 0..streamlength + 1, SeekForward(offs)
  PROVE  IInv'
<1> USE StartFacts, BoundsAssumption, NoCallFact, CallFields DEF IInv, HasLookahead, NoByte
<1>0. call' \in Calls
  BY DEF TypeOK, StreamTypeOK, SeekForward, Call, Calls
<1>1. TypeOK'
  BY <1>0 DEF TypeOK, StreamTypeOK, BlockTypeOK, CallTypeOK, CallInv, SeekForward, streamVars, blockVars, callVars, Enter, Seekable, Prepared
<1>2. CallInv'
  BY DEF TypeOK, StreamTypeOK, BlockTypeOK, CallTypeOK, CallInv, SeekForward, streamVars, blockVars, callVars, Enter, Seekable, Prepared, Call
<1>3. (~raised => (~needsreset => DecoderInv) /\ PositionInv /\ LoopInv)'
  BY DEF TypeOK, StreamTypeOK, BlockTypeOK, CallTypeOK, CallInv, DecoderInv, PositionInv, LoopInv,
         SeekForward, streamVars, blockVars, callVars, Enter, Seekable, Prepared, Call
<1>4. BytesInOrder'
  BY DEF TypeOK, StreamTypeOK, BlockTypeOK, CallTypeOK, CallInv, DecoderInv, PositionInv, LoopInv, BytesInOrder,
         SeekForward, streamVars, blockVars, callVars, Enter, Seekable, Prepared, Call
<1>5. EndIsTheEnd'
  BY DEF TypeOK, StreamTypeOK, BlockTypeOK, CallTypeOK, CallInv, DecoderInv, PositionInv, LoopInv, EndIsTheEnd,
         SeekForward, streamVars, blockVars, callVars, Enter, Seekable, Prepared, Call
<1> QED BY <1>1, <1>2, <1>3, <1>4, <1>5

\* A seek to before the current block rewinds everything.
LEMMA SeekBackwardKeeps ==
  ASSUME IInv, NEW offs \in 0..streamlength + 1, SeekBackward(offs)
  PROVE  IInv'
<1> USE StartFacts, BoundsAssumption, NoCallFact, CallFields DEF IInv, HasLookahead, NoByte
<1>1. TypeOK'
  <2> USE DEF TypeOK, StreamTypeOK, BlockTypeOK, CallTypeOK, CallInv, SeekBackward, streamVars, blockVars, callVars, Enter, Seekable, Prepared, Call, ResetStream
  <2>1. streamlength' \in Lengths /\ streampos' \in 0..streamlength'
    OBVIOUS
  <2>2. /\ needsreset' \in BOOLEAN /\ endofstream' \in BOOLEAN
        /\ endofblocks' \in BOOLEAN /\ raised' \in BOOLEAN /\ short' \in BOOLEAN
    OBVIOUS
  <2>3. blockstartpos' \in Nat /\ blocklength' \in Nat
    OBVIOUS
  <2>4. currblock' \in 0..NBlocks /\ decoder' \in 0..NBlocks
    OBVIOUS
  <2>5. nextstreambyte' \in {NoByte} \cup Nat
    OBVIOUS
  <2>6. /\ pc' \in {"idle", "fill", "skip"}
        /\ call' \in Calls
    BY DEF Calls
  <2>7. n' \in Nat /\ buffer' \in [1..n' -> Nat]
    OBVIOUS
  <2> QED BY <2>1, <2>2, <2>3, <2>4, <2>5, <2>6, <2>7
<1>2. CallInv'
  BY DEF TypeOK, StreamTypeOK, BlockTypeOK, CallTypeOK, CallInv, SeekBackward, streamVars, blockVars, callVars, Enter, Seekable, Prepared, Call, ResetStream
<1>3. (~raised => (~needsreset => DecoderInv) /\ PositionInv /\ LoopInv)'
  BY DEF TypeOK, StreamTypeOK, BlockTypeOK, CallTypeOK, CallInv, DecoderInv, PositionInv, LoopInv,
         SeekBackward, streamVars, blockVars, callVars, Enter, Seekable, Prepared, Call, ResetStream
<1>4. BytesInOrder'
  BY DEF TypeOK, StreamTypeOK, BlockTypeOK, CallTypeOK, CallInv, DecoderInv, PositionInv, LoopInv, BytesInOrder,
         SeekBackward, streamVars, blockVars, callVars, Enter, Seekable, Prepared, Call, ResetStream
<1>5. EndIsTheEnd'
  BY DEF TypeOK, StreamTypeOK, BlockTypeOK, CallTypeOK, CallInv, DecoderInv, PositionInv, LoopInv, EndIsTheEnd,
         SeekBackward, streamVars, blockVars, callVars, Enter, Seekable, Prepared, Call, ResetStream
<1> QED BY <1>1, <1>2, <1>3, <1>4, <1>5

\* atEndOfFile answers from the flags.
LEMMA AtEndKnownKeeps ==
  ASSUME IInv, AtEndKnown
  PROVE  IInv'
<1> USE StartFacts, BoundsAssumption, NoCallFact, CallFields DEF IInv, HasLookahead, NoByte
<1>1. TypeOK'
  BY DEF TypeOK, StreamTypeOK, BlockTypeOK, CallTypeOK, CallInv, AtEndKnown, streamVars, blockVars, callVars, Enter, Return
<1>2. CallInv'
  BY DEF TypeOK, StreamTypeOK, BlockTypeOK, CallTypeOK, CallInv, AtEndKnown, streamVars, blockVars, callVars, Enter, Return
<1>3. (~raised => (~needsreset => DecoderInv) /\ PositionInv /\ LoopInv)'
  BY DEF TypeOK, StreamTypeOK, BlockTypeOK, CallTypeOK, CallInv, DecoderInv, PositionInv, LoopInv,
         AtEndKnown, streamVars, blockVars, callVars, Enter, Return
<1>4. BytesInOrder'
  BY DEF TypeOK, StreamTypeOK, BlockTypeOK, CallTypeOK, CallInv, DecoderInv, PositionInv, LoopInv, BytesInOrder,
         AtEndKnown, streamVars, blockVars, callVars, Enter, Return
<1>5. EndIsTheEnd'
  BY DEF TypeOK, StreamTypeOK, BlockTypeOK, CallTypeOK, CallInv, DecoderInv, PositionInv, LoopInv, EndIsTheEnd,
         AtEndKnown, streamVars, blockVars, callVars, Enter, Return
<1> QED BY <1>1, <1>2, <1>3, <1>4, <1>5

\* atEndOfFile takes the next byte of the current block as lookahead.
LEMMA PeekInBlockKeeps ==
  ASSUME IInv, PeekInBlock
  PROVE  IInv'
<1> USE StartFacts, BoundsAssumption, NoCallFact, CallFields DEF IInv, HasLookahead, NoByte
<1>1. TypeOK'
  BY DEF TypeOK, StreamTypeOK, BlockTypeOK, CallTypeOK, CallInv, PeekInBlock, streamVars, blockVars, callVars, MustPeek, Enter, InBlock, BlockByte, Return
<1>2. CallInv'
  BY DEF TypeOK, StreamTypeOK, BlockTypeOK, CallTypeOK, CallInv, PeekInBlock, streamVars, blockVars, callVars, MustPeek, Enter, InBlock, BlockByte, Return
<1>3. (~raised => (~needsreset => DecoderInv) /\ PositionInv /\ LoopInv)'
  BY DEF TypeOK, StreamTypeOK, BlockTypeOK, CallTypeOK, CallInv, DecoderInv, PositionInv, LoopInv,
         PeekInBlock, streamVars, blockVars, callVars, MustPeek, Enter, InBlock, BlockByte, Return
<1>4. BytesInOrder'
  BY DEF TypeOK, StreamTypeOK, BlockTypeOK, CallTypeOK, CallInv, DecoderInv, PositionInv, LoopInv, BytesInOrder,
         PeekInBlock, streamVars, blockVars, callVars, MustPeek, Enter, InBlock, BlockByte, Return
<1>5. EndIsTheEnd'
  BY DEF TypeOK, StreamTypeOK, BlockTypeOK, CallTypeOK, CallInv, DecoderInv, PositionInv, LoopInv, EndIsTheEnd,
         PeekInBlock, streamVars, blockVars, callVars, MustPeek, Enter, InBlock, BlockByte, Return
<1> QED BY <1>1, <1>2, <1>3, <1>4, <1>5

\* atEndOfFile decodes a block and takes its first byte as lookahead.
LEMMA PeekNextBlockKeeps ==
  ASSUME IInv, PeekNextBlock
  PROVE  IInv'
<1> USE DEF IInv
<1>0. TypeOK /\ BlockProduced /\ ~endofstream /\ ~needsreset /\ pc = "idle" /\ n = 0
  BY DEF PeekNextBlock, MustPeek, Enter, CallInv
<1>1. /\ blocklength' \in Nat /\ blocklength' > 0
      /\ blockstartpos' = blockstartpos + blocklength
      /\ currblock' \in 0..NBlocks /\ decoder' \in 0..NBlocks
      /\ endofblocks' \in BOOLEAN /\ endofstream' = FALSE
      /\ ~raised => DecoderInv' /\ Start[currblock'] = blockstartpos'
  BY <1>0, ProducedFacts DEF TypeOK, StreamTypeOK, BlockTypeOK, CallTypeOK
<1>2. nextstreambyte' = Start[currblock'] /\ nextstreambyte' \in Nat
  BY <1>0, <1>1, StartFacts DEF PeekNextBlock, BlockByte
<1>3. /\ UNCHANGED <<streamlength, needsreset, streampos, raised, short>>
      /\ pc' = "idle" /\ call' = NoCall /\ n' = 0 /\ buffer' = NoBytes
  BY DEF PeekNextBlock, Return
<1>4. TypeOK'
  <2>1. StreamTypeOK'
    BY <1>0, <1>1, <1>2, <1>3 DEF TypeOK, StreamTypeOK
  <2>2. BlockTypeOK'
    BY <1>0, <1>1, <1>2, <1>3 DEF TypeOK, BlockTypeOK
  <2>3. CallTypeOK'
    BY <1>0, <1>1, <1>2, <1>3, NoCallFact DEF TypeOK, CallTypeOK
  <2> QED BY <2>1, <2>2, <2>3 DEF TypeOK
<1>5. CallInv'
  BY <1>0, <1>1, <1>2, <1>3, BoundsAssumption
  DEF TypeOK, StreamTypeOK, BlockTypeOK, CallTypeOK, CallInv, PeekNextBlock, MustPeek, HasLookahead, NoByte
<1>6. ASSUME ~raised'
      PROVE  PositionInv' /\ LoopInv' /\ DecoderInv' /\ nextstreambyte' = streampos'
  <2>1. streampos = blockstartpos + blocklength
    BY <1>0, <1>3, <1>6, BoundsAssumption
    DEF TypeOK, StreamTypeOK, BlockTypeOK, CallTypeOK, PositionInv, PeekNextBlock, MustPeek, InBlock
  <2>2. Start[currblock'] = blockstartpos'
    BY <1>1, <1>3, <1>6
  <2>3. streampos' <= Total
    BY <2>1, <2>2, <1>1, <1>3, StartFacts
  <2>4. PositionInv'
    <3>1. streampos' = blockstartpos' /\ streampos' < blockstartpos' + blocklength'
      BY <2>1, <1>0, <1>1, <1>3 DEF TypeOK, StreamTypeOK
    <3> QED BY <3>1, <2>3, <1>1, <1>3, <1>0 DEF PositionInv, TypeOK, StreamTypeOK
  <2> QED BY <2>1, <2>2, <2>4, <1>1, <1>2, <1>3, <1>6 DEF LoopInv
<1> QED BY <1>1, <1>3, <1>4, <1>5, <1>6, <1>0 DEF BytesInOrder, EndIsTheEnd

\* atEndOfFile meets the end: the position is the end of the data.
LEMMA PeekEndedKeeps ==
  ASSUME IInv, PeekEnded
  PROVE  IInv'
<1> USE DEF IInv
<1>0. TypeOK /\ StreamEnded /\ ~endofstream /\ ~needsreset /\ pc = "idle" /\ n = 0
  BY DEF PeekEnded, MustPeek, Enter, CallInv
<1>1. /\ blocklength' \in Nat /\ blockstartpos' = blockstartpos + blocklength
      /\ endofstream' = TRUE /\ UNCHANGED <<currblock, endofblocks, decoder>>
      /\ ~raised => DecoderInv' /\ blockstartpos' = Total
  BY <1>0, EndedFacts DEF TypeOK, StreamTypeOK, BlockTypeOK, CallTypeOK
<1>2. /\ UNCHANGED <<streamlength, needsreset, streampos, nextstreambyte, raised, short>>
      /\ pc' = "idle" /\ call' = NoCall /\ n' = 0 /\ buffer' = NoBytes
      /\ ~HasLookahead
  BY DEF PeekEnded, Return, MustPeek
<1>3. TypeOK'
  BY <1>0, <1>1, <1>2, NoCallFact DEF TypeOK, StreamTypeOK, BlockTypeOK, CallTypeOK
<1>4. CallInv'
  BY <1>0, <1>1, <1>2 DEF CallInv, HasLookahead
<1>5. ASSUME ~raised'
      PROVE  PositionInv' /\ LoopInv' /\ DecoderInv' /\ streampos' = Total
  <2>1. streampos = blockstartpos + blocklength
    BY <1>0, <1>2, <1>5, BoundsAssumption
    DEF TypeOK, StreamTypeOK, BlockTypeOK, CallTypeOK, PositionInv, PeekEnded, MustPeek, InBlock
  <2> QED BY <2>1, <1>0, <1>1, <1>2, <1>5, StartFacts
          DEF PositionInv, LoopInv, HasLookahead
<1> QED BY <1>1, <1>2, <1>3, <1>4, <1>5 DEF BytesInOrder, EndIsTheEnd, HasLookahead

\* atEndOfFile swallows the exception of the decoder.
LEMMA PeekRaisedKeeps ==
  ASSUME IInv, PeekRaised
  PROVE  IInv'
<1> USE StartFacts, BoundsAssumption, NoCallFact, CallFields DEF IInv, HasLookahead, NoByte
<1>1. TypeOK'
  BY DEF TypeOK, StreamTypeOK, BlockTypeOK, CallTypeOK, CallInv, PeekRaised, streamVars, blockVars, callVars, MustPeek, Enter, InBlock, BlockRaised, Return
<1>2. CallInv'
  BY DEF TypeOK, StreamTypeOK, BlockTypeOK, CallTypeOK, CallInv, PeekRaised, streamVars, blockVars, callVars, MustPeek, Enter, InBlock, BlockRaised, Return
<1>3. (~raised => (~needsreset => DecoderInv) /\ PositionInv /\ LoopInv)'
  BY DEF TypeOK, StreamTypeOK, BlockTypeOK, CallTypeOK, CallInv, DecoderInv, PositionInv, LoopInv,
         PeekRaised, streamVars, blockVars, callVars, MustPeek, Enter, InBlock, BlockRaised, Return
<1>4. BytesInOrder'
  BY DEF TypeOK, StreamTypeOK, BlockTypeOK, CallTypeOK, CallInv, DecoderInv, PositionInv, LoopInv, BytesInOrder,
         PeekRaised, streamVars, blockVars, callVars, MustPeek, Enter, InBlock, BlockRaised, Return
<1>5. EndIsTheEnd'
  BY DEF TypeOK, StreamTypeOK, BlockTypeOK, CallTypeOK, CallInv, DecoderInv, PositionInv, LoopInv, EndIsTheEnd,
         PeekRaised, streamVars, blockVars, callVars, MustPeek, Enter, InBlock, BlockRaised, Return
<1> QED BY <1>1, <1>2, <1>3, <1>4, <1>5

\* A block is decoded and its bytes are appended in order.
LEMMA FillBlockKeeps ==
  ASSUME IInv, FillBlock
  PROVE  IInv'
<1> USE DEF IInv
<1> DEFINE count == Smaller(blocklength', call.arg - n)
<1>0. TypeOK /\ BlockProduced /\ pc = "fill" /\ ~endofstream /\ ~needsreset /\ n < call.arg
  BY DEF FillBlock, CallInv
<1>1. /\ blocklength' \in Nat /\ blocklength' > 0
      /\ blockstartpos' = blockstartpos + blocklength
      /\ currblock' \in 0..NBlocks /\ decoder' \in 0..NBlocks
      /\ endofblocks' \in BOOLEAN /\ endofstream' = FALSE
      /\ ~raised => DecoderInv' /\ Start[currblock'] = blockstartpos'
  BY <1>0, ProducedFacts DEF TypeOK, StreamTypeOK, BlockTypeOK, CallTypeOK
<1>2. /\ UNCHANGED <<streamlength, needsreset, streampos, nextstreambyte, pc, call>>
      /\ UNCHANGED <<ret, raised, short>>
      /\ n' = n + count
      /\ buffer' = Copy(buffer, n, count, currblock', 0)
  BY DEF FillBlock
<1>3. count \in Nat \ {0} /\ n + count <= call.arg /\ count <= blocklength'
      /\ (n + count < call.arg => count = blocklength')
  BY <1>0, <1>1, CallFields DEF TypeOK, BlockTypeOK, CallTypeOK, Smaller
<1> HIDE DEF count
<1>4. n' \in Nat /\ buffer' \in [1..n' -> Nat]
      /\ \A i \in 1..n' : buffer'[i] = IF i <= n THEN buffer[i] ELSE Start[currblock'] + i - n - 1
  <2>1. Start[currblock'] \in Nat
    BY <1>1, StartFacts
  <2>2. buffer' = [j \in 1..n' |-> IF j <= n THEN buffer[j]
                                   ELSE Start[currblock'] + (0 + j - n - 1)]
    BY <1>2 DEF Copy, BlockByte
  <2> QED BY <2>1, <2>2, <1>0, <1>2, <1>3 DEF TypeOK, StreamTypeOK, BlockTypeOK, CallTypeOK
<1>5. TypeOK'
  <2>1. StreamTypeOK'
    BY <1>0, <1>1, <1>2, <1>4 DEF TypeOK, StreamTypeOK
  <2>2. BlockTypeOK'
    BY <1>0, <1>1, <1>2, <1>4 DEF TypeOK, BlockTypeOK
  <2>3. CallTypeOK'
    BY <1>0, <1>1, <1>2, <1>4, NoCallFact DEF TypeOK, CallTypeOK
  <2> QED BY <2>1, <2>2, <2>3 DEF TypeOK
<1>6. CallInv'
  BY <1>0, <1>1, <1>2, <1>3, CallFields DEF TypeOK, CallTypeOK, CallInv, HasLookahead
<1>7. ASSUME ~raised'
      PROVE  PositionInv' /\ LoopInv' /\ DecoderInv' /\ BytesInOrder'
  <2>1. Start[currblock'] = blockstartpos' /\ blockstartpos' = call.pos + n
    BY <1>0, <1>1, <1>2, <1>7 DEF LoopInv
  <2>2. \A i \in 1..n' : buffer'[i] = call.pos + i - 1
    <3> SUFFICES ASSUME NEW i \in 1..n'
                 PROVE  buffer'[i] = call.pos + i - 1
      OBVIOUS
    <3>1. call.pos \in Nat /\ n \in Nat /\ i \in Nat /\ ~raised
      BY CallFields, <1>0, <1>2, <1>4, <1>7 DEF TypeOK, CallTypeOK
    <3>2. CASE i <= n
      <4>1. i \in 1..n /\ buffer'[i] = buffer[i]
        BY <3>1, <3>2, <1>4
      <4> QED BY <4>1, <3>1 DEF BytesInOrder
    <3>3. CASE ~(i <= n)
      BY <3>1, <3>3, <2>1, <1>4
    <3> QED BY <3>2, <3>3
  <2>3. BytesInOrder'
    BY <2>2, <1>0, <1>2 DEF BytesInOrder, CallInv, HasLookahead
  <2>4. PositionInv'
    BY <1>0, <1>1, <1>2 DEF PositionInv, CallInv, HasLookahead
  <2>5. LoopInv'
    <3>1. call.pos \in Nat /\ n \in Nat /\ call.arg \in Nat
      BY CallFields, <1>0 DEF TypeOK, CallTypeOK
    <3> QED BY <3>1, <2>1, <1>0, <1>1, <1>2, <1>3 DEF LoopInv
  <2> QED BY <2>3, <2>4, <2>5, <1>1, <1>2, <1>7
<1> QED BY <1>0, <1>1, <1>2, <1>5, <1>6, <1>7 DEF BytesInOrder, EndIsTheEnd

\* The decoder ends in the middle of a read: the position is the end.
LEMMA FillEndedKeeps ==
  ASSUME IInv, FillEnded
  PROVE  IInv'
<1> USE DEF IInv
<1>0. TypeOK /\ StreamEnded /\ pc = "fill" /\ ~endofstream /\ ~needsreset /\ n < call.arg
  BY DEF FillEnded, CallInv
<1>1. /\ blocklength' \in Nat /\ blockstartpos' = blockstartpos + blocklength
      /\ endofstream' = TRUE /\ UNCHANGED <<currblock, endofblocks, decoder>>
      /\ ~raised => DecoderInv' /\ blockstartpos' = Total
  BY <1>0, EndedFacts DEF TypeOK, StreamTypeOK, BlockTypeOK, CallTypeOK
<1>2. /\ UNCHANGED <<streamlength, needsreset, nextstreambyte, raised, short>>
      /\ streampos' = call.pos + n
      /\ pc' = "idle" /\ call' = NoCall /\ n' = 0 /\ buffer' = NoBytes
      /\ ~HasLookahead
  BY <1>0, BoundsAssumption, CallFields
  DEF FillEnded, Return, CallInv, TypeOK, StreamTypeOK, CallTypeOK
<1>3. TypeOK'
  <2>1. StreamTypeOK'
    <3>1. /\ call.pos \in Nat /\ n \in Nat /\ streamlength \in Nat /\ call.arg \in Nat
          /\ n <= call.arg /\ call.pos + call.arg <= streamlength
      BY <1>0, BoundsAssumption, CallFields DEF CallInv, TypeOK, StreamTypeOK, CallTypeOK
    <3> QED BY <3>1, <1>0, <1>1, <1>2 DEF TypeOK, StreamTypeOK
  <2>2. BlockTypeOK'
    BY <1>0, <1>1, <1>2 DEF TypeOK, BlockTypeOK
  <2>3. CallTypeOK'
    BY <1>0, <1>1, <1>2, NoCallFact DEF TypeOK, CallTypeOK
  <2> QED BY <2>1, <2>2, <2>3 DEF TypeOK
<1>4. CallInv'
  BY <1>0, <1>1, <1>2 DEF CallInv, HasLookahead
<1>5. ASSUME ~raised'
      PROVE  PositionInv' /\ LoopInv' /\ DecoderInv' /\ streampos' = Total
  BY <1>0, <1>1, <1>2, <1>5, StartFacts
  DEF PositionInv, LoopInv, HasLookahead
<1> QED BY <1>1, <1>2, <1>3, <1>4, <1>5 DEF BytesInOrder, EndIsTheEnd, HasLookahead

\* A read has all it asked for.
LEMMA FillDoneKeeps ==
  ASSUME IInv, FillDone
  PROVE  IInv'
<1> USE DEF IInv
<1>0. TypeOK /\ pc = "fill" /\ ~endofstream /\ ~needsreset /\ n = call.arg
  BY DEF FillDone, CallInv
<1>1. /\ UNCHANGED <<streamlength, needsreset, endofstream, nextstreambyte, raised, short>>
      /\ UNCHANGED blockVars
      /\ streampos' = call.pos + n
      /\ pc' = "idle" /\ call' = NoCall /\ n' = 0 /\ buffer' = NoBytes
      /\ ~HasLookahead
  <2>1. /\ call.arg \in Nat /\ call.pos \in Nat /\ call.head \in {0, 1} /\ n \in Nat /\ streampos \in Nat
        /\ call.pos + call.head = streampos /\ ~HasLookahead
    BY <1>0, CallFields DEF CallInv, TypeOK, StreamTypeOK, CallTypeOK
  <2>2. streampos' = streampos + n - call.head
    BY DEF FillDone
  <2>3. streampos' = call.pos + n
    BY <2>1, <2>2
  <2> QED BY <2>1, <2>3 DEF FillDone, Return
<1>2. TypeOK'
  <2>1. StreamTypeOK'
    <3>1. /\ call.pos \in Nat /\ n \in Nat /\ streamlength \in Nat /\ call.arg \in Nat
          /\ n <= call.arg /\ call.pos + call.arg <= streamlength
      BY <1>0, BoundsAssumption, CallFields DEF CallInv, TypeOK, StreamTypeOK, CallTypeOK
    <3> QED BY <3>1, <1>0, <1>1 DEF TypeOK, StreamTypeOK
  <2>2. BlockTypeOK'
    BY <1>0, <1>1 DEF TypeOK, BlockTypeOK, blockVars
  <2>3. CallTypeOK'
    BY <1>0, <1>1, NoCallFact DEF TypeOK, CallTypeOK
  <2> QED BY <2>1, <2>2, <2>3 DEF TypeOK
<1>3. CallInv'
  BY <1>0, <1>1 DEF CallInv, HasLookahead, blockVars
<1>4. ASSUME ~raised'
      PROVE  PositionInv' /\ LoopInv' /\ DecoderInv'
  <2>1. DecoderInv'
    BY <1>0, <1>1, <1>4 DEF DecoderInv, blockVars
  <2>2. blockstartpos + blocklength <= Total
    BY <1>0, <1>1, <1>4, StartFacts DEF DecoderInv, TypeOK, StreamTypeOK, BlockTypeOK, CallTypeOK
  <2> QED BY <2>1, <2>2, <1>0, <1>1, <1>4, StartFacts
          DEF TypeOK, StreamTypeOK, BlockTypeOK, CallTypeOK, PositionInv, LoopInv, HasLookahead, blockVars
<1> QED BY <1>0, <1>1, <1>2, <1>3, <1>4 DEF BytesInOrder, EndIsTheEnd, HasLookahead

\* The decoder raises in the middle of a read.
LEMMA FillRaisedKeeps ==
  ASSUME IInv, FillRaised
  PROVE  IInv'
<1> USE StartFacts, BoundsAssumption, NoCallFact, CallFields DEF IInv, HasLookahead, NoByte
<1>1. TypeOK'
  BY DEF TypeOK, StreamTypeOK, BlockTypeOK, CallTypeOK, CallInv, FillRaised, streamVars, blockVars, callVars, BlockRaised, Return
<1>2. CallInv'
  BY DEF TypeOK, StreamTypeOK, BlockTypeOK, CallTypeOK, CallInv, FillRaised, streamVars, blockVars, callVars, BlockRaised, Return
<1>3. (~raised => (~needsreset => DecoderInv) /\ PositionInv /\ LoopInv)'
  BY DEF TypeOK, StreamTypeOK, BlockTypeOK, CallTypeOK, CallInv, DecoderInv, PositionInv, LoopInv,
         FillRaised, streamVars, blockVars, callVars, BlockRaised, Return
<1>4. BytesInOrder'
  BY DEF TypeOK, StreamTypeOK, BlockTypeOK, CallTypeOK, CallInv, DecoderInv, PositionInv, LoopInv, BytesInOrder,
         FillRaised, streamVars, blockVars, callVars, BlockRaised, Return
<1>5. EndIsTheEnd'
  BY DEF TypeOK, StreamTypeOK, BlockTypeOK, CallTypeOK, CallInv, DecoderInv, PositionInv, LoopInv, EndIsTheEnd,
         FillRaised, streamVars, blockVars, callVars, BlockRaised, Return
<1> QED BY <1>1, <1>2, <1>3, <1>4, <1>5

\* A block is decoded and skipped.
LEMMA SkipBlockKeeps ==
  ASSUME IInv, SkipBlock
  PROVE  IInv'
<1> USE DEF IInv
<1>0. /\ TypeOK /\ BlockProduced /\ pc = "skip" /\ ~needsreset
      /\ blockstartpos + blocklength < call.arg
  BY DEF SkipBlock, Skipping, CallInv
<1>1. /\ blocklength' \in Nat /\ blocklength' > 0
      /\ blockstartpos' = blockstartpos + blocklength
      /\ currblock' \in 0..NBlocks /\ decoder' \in 0..NBlocks
      /\ endofblocks' \in BOOLEAN /\ endofstream' = endofstream
      /\ ~raised => DecoderInv'
  BY <1>0, ProducedFacts DEF TypeOK, StreamTypeOK, BlockTypeOK, CallTypeOK, LoopInv
<1>2. UNCHANGED <<streamlength, needsreset, streampos, nextstreambyte, callVars, raised, short>>
  BY DEF SkipBlock
<1>3. TypeOK'
  BY <1>0, <1>1, <1>2 DEF TypeOK, StreamTypeOK, BlockTypeOK, CallTypeOK, callVars
<1>4. CallInv'
  BY <1>0, <1>1, <1>2 DEF CallInv, HasLookahead, callVars
<1>5. ASSUME ~raised'
      PROVE  PositionInv' /\ LoopInv' /\ DecoderInv'
  <2>1. PositionInv'
    BY <1>0, <1>1, <1>2, <1>5 DEF PositionInv, HasLookahead, callVars, CallInv
  <2>2. LoopInv'
    BY <1>0, <1>1, <1>2, <1>5, CallFields
    DEF LoopInv, callVars, TypeOK, BlockTypeOK, CallTypeOK
  <2> QED BY <2>1, <2>2, <1>1, <1>2, <1>5
<1> QED BY <1>0, <1>1, <1>2, <1>3, <1>4, <1>5
        DEF BytesInOrder, EndIsTheEnd, HasLookahead, callVars

\* The decoder ends before the target of a seek.
LEMMA SkipEndedKeeps ==
  ASSUME IInv, SkipEnded
  PROVE  IInv'
<1> USE DEF IInv
<1>0. /\ TypeOK /\ StreamEnded /\ pc = "skip" /\ ~needsreset
      /\ blockstartpos + blocklength < call.arg
  BY DEF SkipEnded, Skipping, CallInv
<1>1. /\ blocklength' \in Nat /\ blockstartpos' = blockstartpos + blocklength
      /\ endofstream' = TRUE /\ UNCHANGED <<currblock, endofblocks, decoder>>
      /\ ~raised => DecoderInv'
  BY <1>0, EndedFacts DEF TypeOK, StreamTypeOK, BlockTypeOK, CallTypeOK, LoopInv
<1>2. /\ UNCHANGED <<streamlength, needsreset, streampos, nextstreambyte, raised>>
      /\ short' = TRUE
      /\ pc' = "idle" /\ call' = NoCall /\ n' = 0 /\ buffer' = NoBytes
      /\ ~HasLookahead
  BY <1>0, <1>1 DEF SkipEnded, Return, CallInv, TypeOK, StreamTypeOK, BlockTypeOK, CallTypeOK
<1>3. TypeOK'
  <2>1. StreamTypeOK'
    BY <1>0, <1>1, <1>2 DEF TypeOK, StreamTypeOK
  <2>2. BlockTypeOK'
    BY <1>0, <1>1, <1>2 DEF TypeOK, BlockTypeOK
  <2>3. CallTypeOK'
    BY <1>0, <1>1, <1>2, NoCallFact DEF TypeOK, CallTypeOK
  <2> QED BY <2>1, <2>2, <2>3 DEF TypeOK
<1>4. CallInv'
  BY <1>0, <1>1, <1>2 DEF CallInv, HasLookahead
<1>5. ASSUME ~raised'
      PROVE  PositionInv' /\ LoopInv' /\ DecoderInv'
  BY <1>0, <1>1, <1>2, <1>5, StartFacts
  DEF TypeOK, StreamTypeOK, BlockTypeOK, CallTypeOK, PositionInv, LoopInv, HasLookahead
<1> QED BY <1>1, <1>2, <1>3, <1>4, <1>5 DEF BytesInOrder, EndIsTheEnd, HasLookahead

\* The decoder raises in the middle of a seek.
LEMMA SkipRaisedKeeps ==
  ASSUME IInv, SkipRaised
  PROVE  IInv'
<1> USE StartFacts, BoundsAssumption, NoCallFact, CallFields DEF IInv, HasLookahead, NoByte
<1>1. TypeOK'
  BY DEF TypeOK, StreamTypeOK, BlockTypeOK, CallTypeOK, CallInv, SkipRaised, streamVars, blockVars, callVars, Skipping, BlockRaised, Return
<1>2. CallInv'
  BY DEF TypeOK, StreamTypeOK, BlockTypeOK, CallTypeOK, CallInv, SkipRaised, streamVars, blockVars, callVars, Skipping, BlockRaised, Return
<1>3. (~raised => (~needsreset => DecoderInv) /\ PositionInv /\ LoopInv)'
  BY DEF TypeOK, StreamTypeOK, BlockTypeOK, CallTypeOK, CallInv, DecoderInv, PositionInv, LoopInv,
         SkipRaised, streamVars, blockVars, callVars, Skipping, BlockRaised, Return
<1>4. BytesInOrder'
  BY DEF TypeOK, StreamTypeOK, BlockTypeOK, CallTypeOK, CallInv, DecoderInv, PositionInv, LoopInv, BytesInOrder,
         SkipRaised, streamVars, blockVars, callVars, Skipping, BlockRaised, Return
<1>5. EndIsTheEnd'
  BY DEF TypeOK, StreamTypeOK, BlockTypeOK, CallTypeOK, CallInv, DecoderInv, PositionInv, LoopInv, EndIsTheEnd,
         SkipRaised, streamVars, blockVars, callVars, Skipping, BlockRaised, Return
<1> QED BY <1>1, <1>2, <1>3, <1>4, <1>5

\* The target of a seek is in the current block or right behind it.
LEMMA SkipDoneKeeps ==
  ASSUME IInv, SkipDone
  PROVE  IInv'
<1> USE StartFacts, BoundsAssumption, NoCallFact, CallFields DEF IInv, HasLookahead, NoByte
<1>1. TypeOK'
  BY DEF TypeOK, StreamTypeOK, BlockTypeOK, CallTypeOK, CallInv, SkipDone, streamVars, blockVars, callVars, Return
<1>2. CallInv'
  BY DEF TypeOK, StreamTypeOK, BlockTypeOK, CallTypeOK, CallInv, SkipDone, streamVars, blockVars, callVars, Return
<1>3. (~raised => (~needsreset => DecoderInv) /\ PositionInv /\ LoopInv)'
  BY DEF TypeOK, StreamTypeOK, BlockTypeOK, CallTypeOK, CallInv, DecoderInv, PositionInv, LoopInv,
         SkipDone, streamVars, blockVars, callVars, Return
<1>4. BytesInOrder'
  BY DEF TypeOK, StreamTypeOK, BlockTypeOK, CallTypeOK, CallInv, DecoderInv, PositionInv, LoopInv, BytesInOrder,
         SkipDone, streamVars, blockVars, callVars, Return
<1>5. EndIsTheEnd'
  BY DEF TypeOK, StreamTypeOK, BlockTypeOK, CallTypeOK, CallInv, DecoderInv, PositionInv, LoopInv, EndIsTheEnd,
         SkipDone, streamVars, blockVars, callVars, Return
<1> QED BY <1>1, <1>2, <1>3, <1>4, <1>5

-----------------------------------------------------------------------------
\* A fresh handle satisfies the invariant.
LEMMA InitIInv == Init => IInv
<1> SUFFICES ASSUME Init PROVE IInv
  OBVIOUS
<1> USE BlocksAssumption, BoundsAssumption, NoCallFact DEF Init, HasLookahead, NoByte
<1>1. StreamTypeOK /\ BlockTypeOK
  <2>1. StreamTypeOK
    <3>1. streamlength \in Lengths /\ streamlength \in Nat
      OBVIOUS
    <3>2. 0 \in 0..streamlength
      BY <3>1
    <3>3. nextstreambyte \in {NoByte} \cup Nat
      OBVIOUS
    <3> QED BY <3>1, <3>2, <3>3 DEF StreamTypeOK
  <2>2. BlockTypeOK
    <3>1. 0 \in 0..NBlocks
      OBVIOUS
    <3> QED BY <3>1 DEF BlockTypeOK
  <2> QED BY <2>1, <2>2
<1>2. CallTypeOK
  BY DEF CallTypeOK
<1>3. CallInv
  BY DEF CallInv
<1>4. PositionInv /\ LoopInv
  BY <1>1, StartFacts DEF PositionInv, LoopInv
<1>5. BytesInOrder /\ EndIsTheEnd
  BY DEF BytesInOrder, EndIsTheEnd
<1> QED BY <1>1, <1>2, <1>3, <1>4, <1>5 DEF IInv, TypeOK

\* Nothing happens to the handle while nobody calls it.
LEMMA StutterKeeps ==
  ASSUME IInv, UNCHANGED vars
  PROVE  IInv'
BY DEF vars, streamVars, blockVars, callVars, IInv, TypeOK, StreamTypeOK, BlockTypeOK, CallTypeOK,
       CallInv, DecoderInv, PositionInv, LoopInv, BytesInOrder, EndIsTheEnd, HasLookahead

\* Every step of the handle, and every stutter, preserves the invariant.
LEMMA NextIInv == IInv /\ [Next]_vars => IInv'
<1> SUFFICES ASSUME IInv, [Next]_vars PROVE IInv'
  OBVIOUS
<1>1. CASE ResetIfNeeded
  BY <1>1, ResetIfNeededKeeps
<1>2. ASSUME NEW num \in 0..MaxRequest, ReadNothing(num) \/ ReadLookahead(num) \/ ReadStart(num)
      PROVE  IInv'
  BY <1>2, ReadNothingKeeps, ReadLookaheadKeeps, ReadStartKeeps
<1>3. ASSUME NEW offs \in 0..streamlength + 1,
             \/ SeekNowhere(offs) \/ SeekRefused(offs) \/ SeekOverLookahead(offs)
             \/ SeekForward(offs) \/ SeekBackward(offs)
      PROVE  IInv'
  BY <1>3, SeekNowhereKeeps, SeekRefusedKeeps, SeekOverLookaheadKeeps, SeekForwardKeeps,
     SeekBackwardKeeps
<1>4. CASE AtEndKnown \/ PeekInBlock \/ PeekNextBlock \/ PeekEnded \/ PeekRaised
  BY <1>4, AtEndKnownKeeps, PeekInBlockKeeps, PeekNextBlockKeeps, PeekEndedKeeps, PeekRaisedKeeps
<1>5. CASE Loop
  BY <1>5, FillBlockKeeps, FillEndedKeeps, FillDoneKeeps, FillRaisedKeeps,
     SkipBlockKeeps, SkipEndedKeeps, SkipRaisedKeeps, SkipDoneKeeps DEF Loop
<1>6. CASE UNCHANGED vars
  BY <1>6, StutterKeeps
<1> QED BY <1>1, <1>2, <1>3, <1>4, <1>5, <1>6 DEF Next, Client

\* The strengthened invariant holds throughout.
THEOREM Inductive == Spec => []IInv
BY InitIInv, NextIInv, PTL DEF Spec

\* The state of CSStreamHandle and CSBlockStreamHandle keeps its types: the
\* position never passes the declared length.
THEOREM TypeCorrect == Spec => []TypeOK
<1>1. IInv => TypeOK
  BY DEF IInv
<1> QED BY <1>1, Inductive, PTL

\* readAtMost: gathers the bytes behind the position in order, across any
\* number of blocks, lookaheads and rewinds, unless the decoder has raised.
THEOREM ReadsInOrder == Spec => []BytesInOrder
<1>1. IInv => BytesInOrder
  BY DEF IInv
<1> QED BY <1>1, Inductive, PTL

\* endofstream is never set before the end of the data has been delivered,
\* unless the decoder raised or a seek past the end was refused.
THEOREM EndHonest == Spec => []EndIsTheEnd
<1>1. IInv => EndIsTheEnd
  BY DEF IInv
<1> QED BY <1>1, Inductive, PTL

=============================================================================
