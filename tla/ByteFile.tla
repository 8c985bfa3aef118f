------------------------------- MODULE ByteFile -------------------------------
(***************************************************************************)
(* What a client of a CSHandle may rely on, whatever the handle reads its  *)
(* bytes from: a file of size bytes and a position in it.  The byte at     *)
(* position p is represented by p itself, so a byte delivered from the     *)
(* wrong place is visible.                                                 *)
(*                                                                         *)
(* Two things weaken the promise, and both are part of it because callers  *)
(* of the stream handles meet them:                                        *)
(*   short   a seek past the end was refused, and since then the file may  *)
(*           pretend to be exhausted earlier than it is, until a rewind;   *)
(*   broken  the source raised in the middle of a call, and since then     *)
(*           nothing is promised, until a rewind.                          *)
(***************************************************************************)
EXTENDS Integers

CONSTANT MaxRequest   \* bound on the size of a read

VARIABLES size, pos, ret, short, broken

fileVars == <<size, pos, ret, short, broken>>

Reply(call, outcome, bytes) ==
  [call |-> call, outcome |-> outcome, bytes |-> bytes]

NoBytes == [i \in {} |-> 0]

\* The k bytes of the file from position p on.
BytesAt(p, k) == [i \in 1..k |-> p + i - 1]

FileInit ==
  /\ size \in Nat /\ pos = 0
  /\ ret = Reply("init", "ok", NoBytes)
  /\ short = FALSE /\ broken = FALSE

(***************************************************************************)
(* A read delivers the next bytes in order, at most as many as asked for.  *)
(* It comes back empty only at the end of the file.                        *)
(***************************************************************************)
Read(n) ==
  /\ \E k \in 0..n :
       /\ pos + k <= size
       /\ k = 0 => n = 0 \/ pos = size \/ short
       /\ ret' = Reply("read", "ok", BytesAt(pos, k))
       /\ pos' = pos + k
  /\ UNCHANGED <<short, broken>>

\* A seek within the file arrives.  Going backwards may rewind the source.
Seek(offs) ==
  /\ offs <= size
  /\ pos' = offs
  /\ ret' = Reply("seek", "ok", NoBytes)
  /\ short' \in {short, FALSE}
  /\ UNCHANGED broken

\* A seek past the end is refused; it may have moved forward on the way.
SeekRefused(offs) ==
  /\ offs > size \/ short
  /\ ret' = Reply("seek", "eof", NoBytes)
  /\ pos' \in pos..size
  /\ short' \in {short, TRUE}
  /\ UNCHANGED broken

AtEnd ==
  /\ ret' \in {Reply("atend", "yes", NoBytes), Reply("atend", "no", NoBytes)}
  /\ ret'.outcome = "yes" => pos = size \/ short
  /\ ret'.outcome = "no" => pos < size
  /\ UNCHANGED <<pos, short, broken>>

\* The source raises.  atEndOfFile swallows the exception and says yes.
Fail ==
  /\ ret'.outcome \in {"raised", "yes"}
  /\ pos' \in Nat
  /\ short' \in BOOLEAN
  /\ broken' = TRUE

\* After a failure anything goes; only a backward seek can mend the file.
Unreliable ==
  /\ broken
  /\ pos' \in Nat
  /\ short' \in BOOLEAN
  /\ broken' = FALSE => ret'.call = "seek"

FileNext ==
  /\ UNCHANGED size
  /\ \/ \E n \in 0..MaxRequest : Read(n)
     \/ \E offs \in 0..size + 1 : Seek(offs) \/ SeekRefused(offs)
     \/ AtEnd
     \/ Fail
     \/ Unreliable

FileSpec == FileInit /\ [][FileNext]_fileVars
=============================================================================
