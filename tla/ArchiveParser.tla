----------------------------- MODULE ArchiveParser -----------------------------
(***************************************************************************)
(* XADArchiveParser, the base class of every format: how the entries a     *)
(* parser finds are numbered and chained into solid runs, how the handle   *)
(* of a solid stream is shared by the entries in it, and what happens when *)
(* the delegate, called back for each entry, opens entries, changes the    *)
(* password, asks to stop or fails.                                        *)
(*                                                                         *)
(* The format parser is the environment: it finds NEntries entries in      *)
(* order, and may raise instead of finding the next one.  Entry i belongs  *)
(* to the solid stream Solid[i], or to none.  The delegate is one thread   *)
(* with the parser, so it acts only while it is called back ("callback")   *)
(* and when parsing is over.                                               *)
(***************************************************************************)
EXTENDS Integers, Sequences

CONSTANTS NEntries,       \* entries in the archive
          Objects,        \* solid streams
          Solid,          \* the solid object the format parser gives entry i
          Encrypted,      \* streams that need a password to be opened
          Passwords,
          NoObject,       \* no solid object (nil)
          Source,         \* the source handle, in its use as a solid object
          NoPassword,
          MaxHandles,     \* bound on the solid handles made in a behaviour
          MaxRaises       \* bound on the failures to make one

ASSUME EntriesAssumption ==
  /\ NEntries \in Nat
  /\ Solid \in [1..NEntries -> Objects \cup {NoObject}]
  /\ Encrypted \subseteq Objects
  /\ NoObject \notin Objects /\ Source \notin Objects /\ NoObject # Source
  /\ NoPassword \notin Passwords

ASSUME LimitsAssumption == MaxHandles \in Nat /\ MaxRaises \in Nat

VARIABLES
  forcesolid, retainpos,        \* fixed: the source cannot seek; the parser asks
                                \* addEntry to keep its position
  scan,                         \* "parsing", "callback", "ok", "break", "error"
  next,                         \* the next entry the format parser will find
  entries,                      \* the dictionaries handed to the delegate
  parsersolidobj, firstsoliddict, prevsoliddict,
  issolid,                      \* the archive's XADIsSolidKey property
  shouldstop,
  srcpos, savedpos,             \* position of sourcehandle, and addEntry's copy of it
  currsolidobj, currsolidhandle,
  password,
  made, raises,                 \* solid handles made, failures to make one
  opened,                       \* the last entry opened and what came of it
  poisoned                      \* history: making the current stream's handle raised

scanVars == <<scan, next, entries, shouldstop>>
chainVars == <<parsersolidobj, firstsoliddict, prevsoliddict, issolid>>
positionVars == <<srcpos, savedpos>>
solidVars == <<currsolidobj, currsolidhandle, made, raises, poisoned>>
fixedVars == <<forcesolid, retainpos>>
vars == <<fixedVars, scanVars, chainVars, positionVars, solidVars, password, opened>>

NoHandle == [stream |-> NoObject, password |-> NoPassword, id |-> 0]
NotOpened == [entry |-> 0, outcome |-> "none", handle |-> NoHandle, suspect |-> FALSE]

\* Positions of the source: the headers are at 1..NEntries+1, data elsewhere.
Elsewhere == 0

-----------------------------------------------------------------------------
\* init and setHandle:.
Init ==
  /\ forcesolid \in BOOLEAN /\ retainpos \in BOOLEAN
  /\ scan = "parsing" /\ next = 1 /\ entries = <<>> /\ shouldstop = FALSE
  /\ parsersolidobj = NoObject /\ firstsoliddict = 0 /\ prevsoliddict = 0
  /\ issolid = FALSE
  /\ srcpos = 1 /\ savedpos = Elsewhere
  /\ currsolidobj = NoObject /\ currsolidhandle = NoHandle
  /\ password \in Passwords \cup {NoPassword}
  /\ made = 0 /\ raises = 0 /\ poisoned = FALSE
  /\ opened = NotOpened

(***************************************************************************)
(* addEntryWithDictionary:retainPosition: up to the callback.              *)
(***************************************************************************)
\* Mutant: every poll asks the delegate, even after it has asked to stop.
PollAgain(answer) == answer

\* shouldKeepParsing, with the delegate's answer: a stop is final.
Stops(answer) == shouldstop \/ answer

\* The solid object of entry i after addEntry: a source that cannot seek
\* makes every entry solid.
SolidObject(i) ==
  IF forcesolid /\ Solid[i] = NoObject THEN Source ELSE Solid[i]

Dict(obj, solid, first) == [obj |-> obj, solid |-> solid, first |-> first, next |-> 0]

StartsChain(obj) == obj # NoObject /\ obj # parsersolidobj
JoinsChain(obj) == obj # NoObject /\ obj = parsersolidobj

\* Mutant: an entry outside every stream does not end the chain.
UnchainedLeavingChain(obj) ==
  /\ obj = NoObject
  /\ entries' = Append(entries, Dict(obj, FALSE, 0))
  /\ UNCHANGED chainVars

Unchained(obj) ==
  /\ obj = NoObject
  /\ entries' = Append(entries, Dict(obj, FALSE, 0))
  /\ parsersolidobj' = NoObject /\ firstsoliddict' = 0 /\ prevsoliddict' = 0
  /\ UNCHANGED issolid

\* Mutant: the entry is numbered after currindex has moved on.
ChainedOffByOne(obj) ==
  LET i == Len(entries) + 2
  IN  /\ StartsChain(obj) \/ JoinsChain(obj)
      /\ entries' = Append(entries, Dict(obj, JoinsChain(obj), firstsoliddict))
      /\ parsersolidobj' = obj /\ prevsoliddict' = i
      /\ firstsoliddict' = IF StartsChain(obj) THEN i ELSE firstsoliddict
      /\ UNCHANGED issolid

Chained(obj) ==
  LET i == Len(entries) + 1
  IN  \/ /\ StartsChain(obj)
         /\ entries' = Append(entries, Dict(obj, FALSE, 0))
         /\ parsersolidobj' = obj /\ firstsoliddict' = i /\ prevsoliddict' = i
         /\ UNCHANGED issolid
      \/ /\ JoinsChain(obj)
         /\ entries' = Append([entries EXCEPT ![prevsoliddict].next = i],
                              Dict(obj, TRUE, firstsoliddict))
         /\ prevsoliddict' = i /\ issolid' = TRUE
         /\ UNCHANGED <<parsersolidobj, firstsoliddict>>

\* The format parser reads the header at next and adds the entry.
AddEntry ==
  /\ scan = "parsing" /\ next <= NEntries
  /\ \E answer \in BOOLEAN : shouldstop' = Stops(answer)
  /\ ~shouldstop'
  /\ Unchained(SolidObject(next)) \/ Chained(SolidObject(next))
  /\ srcpos' = next + 1 /\ savedpos' = srcpos'
  /\ scan' = "callback" /\ next' = next + 1
  /\ UNCHANGED <<fixedVars, solidVars, password, opened>>

\* Once the delegate has asked to stop, what the parser finds is discarded.
DiscardEntry ==
  /\ scan = "parsing" /\ next <= NEntries
  /\ \E answer \in BOOLEAN : shouldstop' = Stops(answer)
  /\ shouldstop'
  /\ next' = next + 1 /\ srcpos' = next + 1
  /\ UNCHANGED <<fixedVars, scan, entries, chainVars, savedpos, solidVars, password, opened>>

\* Mutant: addEntry forgets the position.
ReturnWithoutSeek ==
  /\ scan = "callback"
  /\ scan' = "parsing"
  /\ srcpos' = IF retainpos THEN srcpos ELSE next
  /\ UNCHANGED <<fixedVars, next, entries, shouldstop, chainVars, savedpos,
                 solidVars, password, opened>>

\* The delegate returns.  addEntry restores the position if it was asked to;
\* otherwise the format parser seeks to its next header by itself.
CallbackReturns ==
  /\ scan = "callback"
  /\ scan' = "parsing"
  /\ srcpos' = IF retainpos THEN savedpos ELSE next
  /\ UNCHANGED <<fixedVars, next, entries, shouldstop, chainVars, savedpos,
                 solidVars, password, opened>>

\* The delegate answers with an error, which addEntry raises.
CallbackFails ==
  /\ scan = "callback"
  /\ scan' = "error"
  /\ UNCHANGED <<fixedVars, next, entries, shouldstop, chainVars, positionVars,
                 solidVars, password, opened>>

\* parse returns, or raises; parseWithoutExceptions turns both into a result.
ParseEnds ==
  /\ scan = "parsing" /\ next > NEntries
  /\ scan' = IF shouldstop THEN "break" ELSE "ok"
  /\ UNCHANGED <<fixedVars, next, entries, shouldstop, chainVars, positionVars,
                 solidVars, password, opened>>

ParseRaises ==
  /\ scan = "parsing"
  /\ scan' = "error"
  /\ UNCHANGED <<fixedVars, next, entries, shouldstop, chainVars, positionVars,
                 solidVars, password, opened>>

-----------------------------------------------------------------------------
(***************************************************************************)
(* Opening an entry: subHandleFromSolidStreamForEntryWithDictionary:, on   *)
(* behalf of the delegate in a callback or of a client after the parse.    *)
(* Reading the data moves the source.                                      *)
(***************************************************************************)
Delegating == scan \in {"callback", "ok", "break", "error"}

Openable(i) == Delegating /\ entries[i].obj \in Objects

\* Mutant: any cached handle will do.
CachedAnyStream(obj) == currsolidhandle # NoHandle

\* if(solidobj!=currsolidobj)
Cached(obj) == obj = currsolidobj

Handle(obj, pass) == [stream |-> obj, password |-> pass, id |-> made + 1]

Deliver(i, outcome, handle) ==
  opened' = [entry |-> i, outcome |-> outcome, handle |-> handle, suspect |-> poisoned']

\* The stream's handle is there: made for an earlier entry, or known to be
\* unobtainable (nil).
OpenCached(i) ==
  /\ Openable(i) /\ Cached(entries[i].obj)
  /\ UNCHANGED <<fixedVars, scanVars, chainVars, savedpos, solidVars, password>>
  /\ IF currsolidhandle = NoHandle
       THEN Deliver(i, "nil", NoHandle) /\ UNCHANGED srcpos
       ELSE Deliver(i, "ok", currsolidhandle) /\ srcpos' = Elsewhere

Missing(i) == Openable(i) /\ ~Cached(entries[i].obj)

\* handleForSolidStreamWithObject: makes a handle without asking for a
\* password, or with the password that is set, or with "" if there is none
\* and the delegate provides none.
OpenNew(i) ==
  LET obj == entries[i].obj
      handle == Handle(obj, IF obj \in Encrypted THEN password ELSE NoPassword)
  IN  /\ Missing(i) /\ made < MaxHandles
      /\ currsolidobj' = obj /\ currsolidhandle' = handle
      /\ made' = made + 1 /\ poisoned' = FALSE
      /\ Deliver(i, "ok", handle) /\ srcpos' = Elsewhere
      /\ UNCHANGED <<fixedVars, scanVars, chainVars, savedpos, raises, password>>

\* The method is not supported: nil, which is remembered like a handle.
OpenUnsupported(i) ==
  /\ Missing(i)
  /\ currsolidobj' = entries[i].obj /\ currsolidhandle' = NoHandle
  /\ poisoned' = FALSE
  /\ Deliver(i, "nil", NoHandle)
  /\ UNCHANGED <<fixedVars, scanVars, chainVars, positionVars, made, raises, password>>

\* The handle asks for the password, and the delegate sets one while
\* handleForSolidStreamWithObject: is running: setPassword: clears
\* currsolidobj, and then the new handle is stored.
OpenAskingPassword(i) ==
  LET obj == entries[i].obj
  IN  /\ Missing(i) /\ made < MaxHandles
      /\ obj \in Encrypted /\ password = NoPassword
      /\ poisoned' = FALSE
      /\ \E p \in Passwords :
           /\ password' = p
           /\ currsolidobj' = NoObject /\ currsolidhandle' = Handle(obj, p)
           /\ Deliver(i, "ok", Handle(obj, p))
      /\ made' = made + 1
      /\ srcpos' = Elsewhere
      /\ UNCHANGED <<fixedVars, scanVars, chainVars, savedpos, raises>>

\* Making the handle raises: currsolidobj is already the new stream,
\* currsolidhandle still the handle of the one before.
OpenRaises(i) ==
  /\ Missing(i) /\ raises < MaxRaises
  /\ currsolidobj' = entries[i].obj
  /\ raises' = raises + 1 /\ poisoned' = TRUE
  /\ Deliver(i, "raised", NoHandle) /\ srcpos' = Elsewhere
  /\ UNCHANGED <<fixedVars, scanVars, chainVars, savedpos, currsolidhandle, made, password>>

\* Mutant: the handles survive a new password.
SetPasswordKeepingHandles(p) ==
  /\ Delegating
  /\ password' = p
  /\ UNCHANGED <<fixedVars, scanVars, chainVars, positionVars, solidVars, opened>>

SetPassword(p) ==
  /\ Delegating
  /\ password' = p
  /\ currsolidobj' = NoObject /\ currsolidhandle' = NoHandle
  /\ poisoned' = FALSE
  /\ UNCHANGED <<fixedVars, scanVars, chainVars, positionVars, made, raises, opened>>

-----------------------------------------------------------------------------
Open == \E i \in 1..Len(entries) :
  OpenCached(i) \/ OpenNew(i) \/ OpenUnsupported(i) \/ OpenAskingPassword(i) \/ OpenRaises(i)

Next ==
  \/ AddEntry \/ DiscardEntry
  \/ CallbackReturns \/ CallbackFails \/ ParseEnds \/ ParseRaises
  \/ Open
  \/ \E p \in Passwords : SetPassword(p)

Spec == Init /\ [][Next]_vars

-----------------------------------------------------------------------------
SolidObjects == Objects \cup {NoObject, Source}

Dicts == [obj : SolidObjects, solid : BOOLEAN, first : 0..NEntries, next : 0..NEntries]

Handles == [stream : Objects \cup {NoObject}, password : Passwords \cup {NoPassword}, id : Nat]

ScanTypeOK ==
  /\ forcesolid \in BOOLEAN /\ retainpos \in BOOLEAN
  /\ scan \in {"parsing", "callback", "ok", "break", "error"}
  /\ next \in 1..NEntries + 1 /\ shouldstop \in BOOLEAN
  /\ entries \in Seq(Dicts) /\ Len(entries) < next

ChainTypeOK ==
  /\ parsersolidobj \in SolidObjects /\ issolid \in BOOLEAN
  /\ firstsoliddict \in 0..Len(entries) /\ prevsoliddict \in 0..Len(entries)

SolidTypeOK ==
  /\ srcpos \in 0..NEntries + 1 /\ savedpos \in 0..NEntries + 1
  /\ currsolidobj \in Objects \cup {NoObject} /\ currsolidhandle \in Handles
  /\ password \in Passwords \cup {NoPassword}
  /\ made \in Nat /\ raises \in Nat /\ poisoned \in BOOLEAN
  /\ opened \in [entry : 0..Len(entries), outcome : {"none", "ok", "nil", "raised"},
                 handle : Handles, suspect : BOOLEAN]

TypeOK == ScanTypeOK /\ ChainTypeOK /\ SolidTypeOK

(***************************************************************************)
(* The links addEntry leaves in the dictionaries describe the solid runs:  *)
(* consecutive entries are linked exactly when they share a solid object,  *)
(* and every entry of a run but the first points to the run's first.       *)
(***************************************************************************)
SameRun(i) == i > 1 /\ entries[i].obj # NoObject /\ entries[i].obj = entries[i - 1].obj

ChainsFollowRuns ==
  \A i \in 1..Len(entries) :
    /\ entries[i].solid <=> SameRun(i)
    /\ entries[i].next = IF i < Len(entries) /\ SameRun(i + 1) THEN i + 1 ELSE 0
    /\ entries[i].first =
         IF ~SameRun(i) THEN 0
         ELSE IF SameRun(i - 1) THEN entries[i - 1].first ELSE i - 1

\* An entry that can be opened reads from its own solid stream, unless
\* making the handle of that stream has just raised.
FromOwnStream ==
  opened.outcome = "ok" /\ ~opened.suspect =>
    opened.handle.stream = entries[opened.entry].obj

\* The handle kept for the next entry of an encrypted stream was made with
\* the password in force: a new password invalidates what was opened with
\* the old one.
PasswordInForce ==
  currsolidhandle.stream \in Encrypted => currsolidhandle.password = password

\* A parser that relies on addEntry for its position finds it unmoved,
\* whatever the delegate read from the source in the callback.
HeaderInPlace ==
  scan = "parsing" => srcpos = next

\* A stop is final: once the delegate has asked for it no entry is reported
\* any more, and the parse does not end as a success.
StopIsFinal ==
  [][shouldstop => shouldstop' /\ entries' = entries /\ scan' # "ok"]_vars

\* FromOwnStream as the entry dictionary's documentation has it, without the
\* exception: SolidOffset is a position in the stream of the entry's object.
OffsetInOwnStream ==
  opened.outcome = "ok" => opened.handle.stream = entries[opened.entry].obj
=============================================================================
