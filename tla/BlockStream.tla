------------------------------ MODULE BlockStream ------------------------------
(***************************************************************************)
(* CSBlockStreamHandle, with what it inherits from CSStreamHandle: the     *)
(* random-access view of a decoder that can only be run forwards, one      *)
(* block at a time.  Every block decompressor of the library is read       *)
(* through it, and the handle of a solid archive is shared by all the      *)
(* entries in it.                                                          *)
(*                                                                         *)
(* The decoder is the environment.  It produces NBlocks blocks; block k    *)
(* holds the bytes from Start[k] up to Start[k+1], and the byte at         *)
(* position p is represented by p.  It may announce the end together with  *)
(* its last block (endBlockStream) or answer 0 afterwards, and it may      *)
(* raise while it is asked for a block.                                    *)
(*                                                                         *)
(* The loops of the code take one step per block; pc says which loop the   *)
(* handle is in.  The handle is used by one thread, so a client call       *)
(* starts only when pc is "idle".                                          *)
(***************************************************************************)
EXTENDS Integers

CONSTANTS NBlocks,     \* blocks the decoder produces
          Start,       \* Start[k] is the position of the first byte of block k
          Lengths,     \* the values of streamlength given to the initialiser
          MaxRequest   \* bound on the size of a read

Total == Start[NBlocks]

ASSUME BlocksAssumption ==
  /\ NBlocks \in Nat
  /\ Start \in [0..NBlocks -> Nat]
  /\ Start[0] = 0
  /\ \A j, k \in 0..NBlocks : j < k => Start[j] < Start[k]

ASSUME BoundsAssumption == Lengths \subseteq Nat /\ MaxRequest \in Nat

VARIABLES
  streamlength, needsreset, streampos, endofstream,         \* CSStreamHandle
  nextstreambyte,
  blockstartpos, blocklength, currblock, endofblocks,       \* CSBlockStreamHandle
  decoder,         \* the next block the decoder will produce
  pc, call,        \* the loop being run and the client's call
  n, buffer,       \* bytes copied so far by the read being run
  ret,             \* what the last completed call returned
  raised, short    \* history: see ByteFile

streamVars == <<streamlength, needsreset, streampos, endofstream, nextstreambyte>>
blockVars == <<blockstartpos, blocklength, currblock, endofblocks, decoder>>
callVars == <<pc, call, n, buffer>>
vars == <<streamVars, blockVars, callVars, ret, raised, short>>

NoByte == -1
NoBytes == [i \in {} |-> 0]

Smaller(a, b) == IF a < b THEN a ELSE b

Reply(op, outcome, bytes) ==
  [call |-> op, outcome |-> outcome, bytes |-> bytes]

\* A call in progress: operation, argument, bytes taken from the lookahead,
\* and the position and history the client last saw.
Call(op, arg, head) ==
  [op |-> op, arg |-> arg, head |-> head,
   pos |-> streampos, raised |-> raised, short |-> short]

NoCall == [op |-> "none", arg |-> 0, head |-> 0, pos |-> 0, raised |-> FALSE, short |-> FALSE]

BlockLen(k) == Start[k + 1] - Start[k]

\* The byte at offset i of the block _currblock points to.
BlockByte(k, i) == Start[k] + i

-----------------------------------------------------------------------------
Init ==
  /\ streamlength \in Lengths
  /\ needsreset = TRUE /\ streampos = 0
  /\ endofstream = FALSE /\ nextstreambyte = NoByte
  /\ blockstartpos = 0 /\ blocklength = 0
  /\ currblock = 0 /\ endofblocks = FALSE
  /\ decoder \in 0..NBlocks        \* meaningless until resetBlockStream
  /\ pc = "idle" /\ call = NoCall
  /\ n = 0 /\ buffer = NoBytes
  /\ ret = Reply("init", "ok", NoBytes)
  /\ raised = FALSE /\ short = FALSE

Return(op, outcome, bytes) ==
  /\ pc' = "idle"
  /\ ret' = Reply(op, outcome, bytes)
  /\ call' = NoCall
  /\ n' = 0 /\ buffer' = NoBytes

\* Mutant: a reset that leaves _blockstartpos where it was.
ResetStreamKeepingStart ==
  /\ blocklength' = 0 /\ endofblocks' = FALSE
  /\ decoder' = 0
  /\ UNCHANGED <<blockstartpos, currblock>>

\* resetStream: the block bookkeeping and the decoder start over.
ResetStream ==
  /\ blockstartpos' = 0 /\ blocklength' = 0 /\ endofblocks' = FALSE
  /\ decoder' = 0
  /\ UNCHANGED currblock

(***************************************************************************)
(* The lazy reset at the head of every entry point.  It is a step of its   *)
(* own only here: every public operation is guarded by ~needsreset and the *)
(* client calls nothing before it, so that it always precedes the first    *)
(* operation.                                                              *)
(***************************************************************************)
ResetIfNeeded ==
  /\ pc = "idle" /\ needsreset
  /\ needsreset' = FALSE
  /\ ResetStream
  /\ UNCHANGED <<streamlength, streampos, endofstream, nextstreambyte, callVars, ret, raised, short>>

Enter == pc = "idle" /\ ~needsreset

InBlock(p) == p >= blockstartpos /\ p < blockstartpos + blocklength

(***************************************************************************)
(* _readNextBlock.  The three outcomes that matter to the callers.         *)
(***************************************************************************)
BlockProduced ==
  /\ ~endofblocks /\ decoder < NBlocks
  /\ blockstartpos' = blockstartpos + blocklength
  /\ currblock' = decoder
  /\ blocklength' = BlockLen(decoder)
  /\ decoder' = decoder + 1
  /\ endofblocks' \in {FALSE, decoder' = NBlocks}
  /\ UNCHANGED endofstream

StreamEnded ==
  /\ endofblocks \/ decoder = NBlocks
  /\ blockstartpos' = blockstartpos + blocklength
  /\ blocklength' = IF endofblocks THEN blocklength ELSE 0
  /\ endofstream' = TRUE
  /\ UNCHANGED <<currblock, endofblocks, decoder>>

\* produceBlockAtOffset: raises.  Whether the decoder resumes with the block
\* it was working on or with the next is up to the decoder.  Bound: it raises
\* once between two rewinds.
BlockRaised ==
  /\ ~endofblocks /\ decoder < NBlocks
  /\ ~raised
  /\ blockstartpos' = blockstartpos + blocklength
  /\ decoder' \in {decoder, decoder + 1}
  /\ UNCHANGED <<blocklength, currblock, endofblocks>>

-----------------------------------------------------------------------------
(***************************************************************************)
(* readAtMost:toBuffer: and the streamAtMost:toBuffer: it calls.           *)
(***************************************************************************)
\* Mutant: no clipping to the declared length.
ClipForgotten(num) == num

Clip(num) == IF streampos + num > streamlength THEN streamlength - streampos ELSE num

HasLookahead == nextstreambyte # NoByte

\* Copy count bytes of block k from offset i on behind the n bytes of buffer.
Copy(buf, done, count, k, i) ==
  [j \in 1..done + count |-> IF j <= done THEN buf[j] ELSE BlockByte(k, i + j - done - 1)]

ReadNothing(num) ==
  /\ Enter
  /\ endofstream \/ Clip(num) = 0
  /\ Return("read", "ok", NoBytes)
  /\ UNCHANGED <<streamVars, blockVars, raised, short>>

ReadLookahead(num) ==
  /\ Enter /\ ~endofstream
  /\ HasLookahead /\ Clip(num) = 1
  /\ streampos' = streampos + 1 /\ nextstreambyte' = NoByte
  /\ Return("read", "ok", [i \in 1..1 |-> nextstreambyte])
  /\ UNCHANGED <<streamlength, needsreset, endofstream, blockVars, raised, short>>

\* The call reaches streamAtMost:, which first copies what is left of the
\* current block.
ReadStart(num) ==
  LET head == IF HasLookahead THEN 1 ELSE 0
      pos == streampos + head
      left == blockstartpos + blocklength - pos
      count == IF InBlock(pos) THEN Smaller(left, Clip(num) - head) ELSE 0
  IN  /\ Enter /\ ~endofstream
      /\ Clip(num) > head
      /\ streampos' = pos /\ nextstreambyte' = NoByte
      /\ call' = Call("read", Clip(num), head)
      /\ n' = head + count
      /\ buffer' = Copy([i \in 1..head |-> nextstreambyte], head, count,
                        currblock, pos - blockstartpos)
      /\ pc' = "fill"
      /\ UNCHANGED <<streamlength, needsreset, endofstream, blockVars, ret, raised, short>>

FillBlock ==
  /\ pc = "fill" /\ n < call.arg
  /\ BlockProduced
  /\ LET count == Smaller(blocklength', call.arg - n)
     IN  /\ buffer' = Copy(buffer, n, count, currblock', 0)
         /\ n' = n + count
  /\ UNCHANGED <<streamlength, needsreset, streampos, nextstreambyte, pc, call, ret, raised, short>>

FillEnded ==
  /\ pc = "fill" /\ n < call.arg
  /\ StreamEnded
  /\ streampos' = streampos + n - call.head
  /\ Return("read", "ok", buffer)
  /\ UNCHANGED <<streamlength, needsreset, nextstreambyte, raised, short>>

FillDone ==
  /\ pc = "fill" /\ n = call.arg
  /\ streampos' = streampos + n - call.head
  /\ Return("read", "ok", buffer)
  /\ UNCHANGED <<streamlength, needsreset, endofstream, nextstreambyte, blockVars, raised, short>>

\* The exception leaves streampos where streamAtMost: found it: the bytes
\* copied so far, and a lookahead byte already consumed, are lost.
FillRaised ==
  /\ pc = "fill" /\ n < call.arg
  /\ BlockRaised
  /\ raised' = TRUE
  /\ Return("read", "raised", NoBytes)
  /\ UNCHANGED <<streamVars, short>>

-----------------------------------------------------------------------------
(***************************************************************************)
(* seekToFileOffset: and _prepareStreamSeekTo:.                            *)
(***************************************************************************)
SeekNowhere(offs) ==
  /\ Enter
  /\ offs = streampos
  /\ Return("seek", "ok", NoBytes)
  /\ UNCHANGED <<streamVars, blockVars, raised, short>>

SeekRefused(offs) ==
  /\ Enter
  /\ offs # streampos
  /\ (endofstream /\ offs > streampos) \/ offs > streamlength
  /\ Return("seek", "eof", NoBytes)
  /\ UNCHANGED <<streamVars, blockVars, raised, short>>

\* _prepareStreamSeekTo: drops a lookahead byte by stepping over it.
Prepared == IF HasLookahead THEN streampos + 1 ELSE streampos

Seekable(offs) ==
  /\ Enter
  /\ offs # streampos
  /\ offs <= streamlength
  /\ ~(endofstream /\ offs > streampos)

SeekOverLookahead(offs) ==
  /\ Seekable(offs)
  /\ HasLookahead /\ offs = Prepared
  /\ streampos' = Prepared /\ nextstreambyte' = NoByte
  /\ Return("seek", "ok", NoBytes)
  /\ UNCHANGED <<streamlength, needsreset, endofstream, blockVars, raised, short>>

\* Mutant: the lookahead byte survives the seek.
SeekForwardKeepingByte(offs) ==
  /\ Seekable(offs) /\ offs # Prepared
  /\ offs >= blockstartpos \/ Prepared = 0
  /\ pc' = "skip" /\ call' = Call("seek", offs, 0)
  /\ UNCHANGED <<streamVars, blockVars, n, buffer, ret, raised, short>>

\* A target in or after the current block: on to the skipping loop.
SeekForward(offs) ==
  /\ Seekable(offs) /\ offs # Prepared
  /\ offs >= blockstartpos \/ Prepared = 0
  /\ streampos' = Prepared /\ nextstreambyte' = NoByte
  /\ pc' = "skip" /\ call' = Call("seek", offs, 0)
  /\ UNCHANGED <<streamlength, needsreset, endofstream, blockVars, n, buffer, ret, raised, short>>

\* Mutant: the rewind forgets endofstream=NO.
SeekBackwardStillEnded(offs) ==
  /\ Seekable(offs) /\ offs # Prepared
  /\ offs < blockstartpos /\ Prepared # 0
  /\ streampos' = 0 /\ nextstreambyte' = NoByte
  /\ ResetStream
  /\ raised' = FALSE /\ short' = FALSE
  /\ pc' = "skip" /\ call' = Call("seek", offs, 0)
  /\ UNCHANGED <<streamlength, needsreset, endofstream, n, buffer, ret>>

\* A target before the current block: [super seekToFileOffset:0] rewinds.
SeekBackward(offs) ==
  /\ Seekable(offs) /\ offs # Prepared
  /\ offs < blockstartpos /\ Prepared # 0
  /\ streampos' = 0 /\ nextstreambyte' = NoByte /\ endofstream' = FALSE
  /\ ResetStream
  /\ raised' = FALSE /\ short' = FALSE
  /\ pc' = "skip" /\ call' = Call("seek", offs, 0)
  /\ UNCHANGED <<streamlength, needsreset, n, buffer, ret>>

Skipping == pc = "skip" /\ blockstartpos + blocklength < call.arg

SkipBlock ==
  /\ Skipping
  /\ BlockProduced
  /\ UNCHANGED <<streamlength, needsreset, streampos, nextstreambyte, callVars, ret, raised, short>>

\* Mutant: the loop does not look at endofstream.
SkipEndedUnnoticed ==
  /\ Skipping
  /\ StreamEnded
  /\ UNCHANGED <<streamlength, needsreset, streampos, nextstreambyte, callVars, ret, raised, short>>

SkipEnded ==
  /\ Skipping
  /\ StreamEnded
  /\ IF call.arg = blockstartpos'
       THEN streampos' = call.arg /\ short' = short /\ Return("seek", "ok", NoBytes)
       ELSE streampos' = streampos /\ short' = TRUE /\ Return("seek", "eof", NoBytes)
  /\ UNCHANGED <<streamlength, needsreset, nextstreambyte, raised>>

SkipRaised ==
  /\ Skipping
  /\ BlockRaised
  /\ raised' = TRUE
  /\ Return("seek", "raised", NoBytes)
  /\ UNCHANGED <<streamVars, short>>

SkipDone ==
  /\ pc = "skip" /\ blockstartpos + blocklength >= call.arg
  /\ streampos' = call.arg
  /\ Return("seek", "ok", NoBytes)
  /\ UNCHANGED <<streamlength, needsreset, endofstream, nextstreambyte, blockVars, raised, short>>

-----------------------------------------------------------------------------
(***************************************************************************)
(* atEndOfFile: tries to decode one byte and keeps it as lookahead.        *)
(***************************************************************************)
AtEndKnown ==
  /\ Enter
  /\ endofstream \/ streampos = streamlength \/ HasLookahead
  /\ Return("atend", IF endofstream \/ streampos = streamlength THEN "yes" ELSE "no", NoBytes)
  /\ UNCHANGED <<streamVars, blockVars, raised, short>>

MustPeek == Enter /\ ~endofstream /\ streampos # streamlength /\ ~HasLookahead

PeekInBlock ==
  /\ MustPeek /\ InBlock(streampos)
  /\ nextstreambyte' = BlockByte(currblock, streampos - blockstartpos)
  /\ Return("atend", "no", NoBytes)
  /\ UNCHANGED <<streamlength, needsreset, streampos, endofstream, blockVars, raised, short>>

PeekNextBlock ==
  /\ MustPeek /\ ~InBlock(streampos)
  /\ BlockProduced
  /\ nextstreambyte' = BlockByte(currblock', 0)
  /\ Return("atend", "no", NoBytes)
  /\ UNCHANGED <<streamlength, needsreset, streampos, raised, short>>

PeekEnded ==
  /\ MustPeek /\ ~InBlock(streampos)
  /\ StreamEnded
  /\ Return("atend", "yes", NoBytes)
  /\ UNCHANGED <<streamlength, needsreset, streampos, nextstreambyte, raised, short>>

\* @catch(id e) {}: an exception counts as the end of the file.
PeekRaised ==
  /\ MustPeek /\ ~InBlock(streampos)
  /\ BlockRaised
  /\ endofstream' = TRUE
  /\ raised' = TRUE
  /\ Return("atend", "yes", NoBytes)
  /\ UNCHANGED <<streamlength, needsreset, streampos, nextstreambyte, short>>

-----------------------------------------------------------------------------
Client ==
  \/ \E num \in 0..MaxRequest : ReadNothing(num) \/ ReadLookahead(num) \/ ReadStart(num)
  \/ \E offs \in 0..streamlength + 1 :
       \/ SeekNowhere(offs) \/ SeekRefused(offs) \/ SeekOverLookahead(offs)
       \/ SeekForward(offs) \/ SeekBackward(offs)
  \/ AtEndKnown \/ PeekInBlock \/ PeekNextBlock \/ PeekEnded \/ PeekRaised

\* The steps of a loop the handle is in.
Loop ==
  \/ FillBlock \/ FillEnded \/ FillDone \/ FillRaised
  \/ SkipBlock \/ SkipEnded \/ SkipRaised \/ SkipDone

Next == ResetIfNeeded \/ Client \/ Loop

\* A call that has started is run by its caller's thread until it returns.
Spec == Init /\ [][Next]_vars /\ WF_vars(Loop)

-----------------------------------------------------------------------------
Calls == [op : {"none", "read", "seek"}, arg : Nat, head : {0, 1},
          pos : Nat, raised : BOOLEAN, short : BOOLEAN]

StreamTypeOK ==
  /\ streamlength \in Lengths /\ streampos \in 0..streamlength
  /\ needsreset \in BOOLEAN /\ endofstream \in BOOLEAN
  /\ nextstreambyte \in {NoByte} \cup Nat
  /\ raised \in BOOLEAN /\ short \in BOOLEAN

BlockTypeOK ==
  /\ blockstartpos \in Nat /\ blocklength \in Nat
  /\ currblock \in 0..NBlocks /\ decoder \in 0..NBlocks
  /\ endofblocks \in BOOLEAN

CallTypeOK ==
  /\ pc \in {"idle", "fill", "skip"} /\ call \in Calls
  /\ n \in Nat /\ buffer \in [1..n -> Nat]

TypeOK == StreamTypeOK /\ BlockTypeOK /\ CallTypeOK

(***************************************************************************)
(* As long as the decoder has not raised since the last rewind, a read     *)
(* gathers exactly the bytes that follow the position the client last saw, *)
(* whatever blocks they come from, and so does the lookahead byte that     *)
(* atEndOfFile leaves behind.                                              *)
(***************************************************************************)
BytesInOrder ==
  ~raised => /\ HasLookahead => nextstreambyte = streampos
             /\ \A i \in 1..n : buffer[i] = call.pos + i - 1

(***************************************************************************)
(* The handle reports the end only at the end: endofstream, the flag that  *)
(* makes every later read return 0, is set between calls only when the     *)
(* position is the length of the decoded data - unless the decoder raised, *)
(* or a seek past the end was refused since the last rewind.               *)
(***************************************************************************)
EndIsTheEnd ==
  pc = "idle" /\ endofstream /\ ~raised /\ ~short => streampos = Total

\* What the file looks like to the client: between calls the handle's own
\* position, during a call the position the client last saw.
Seen == pc = "idle"

File == INSTANCE ByteFile WITH
  size <- Smaller(Total, streamlength),
  pos <- IF Seen THEN streampos ELSE call.pos,
  short <- IF Seen THEN short ELSE call.short,
  broken <- IF Seen THEN raised ELSE call.raised

\* The handle is a file to its clients, in spite of lookahead, blocks and
\* rewinding: every call of it is a call of ByteFile.
IsAFile == File!FileSpec

\* Every call returns: the loops over blocks of streamAtMost: and
\* seekToFileOffset: end, because a block that is empty ends the stream.
CallsReturn == (pc # "idle") ~> (pc = "idle")
=============================================================================
