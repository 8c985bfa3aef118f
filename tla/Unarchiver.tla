------------------------------- MODULE Unarchiver -------------------------------
(***************************************************************************)
(* XADUnarchiver: parseAndUnarchive, which extracts every entry as the     *)
(* parser finds it, and finishExtractions, which does what had to wait:    *)
(* links that point outside are first written as placeholder files, and    *)
(* directories get their attributes only when nothing more goes into them. *)
(*                                                                         *)
(* The parser, the delegate, the decoders and the file system are the      *)
(* environment.  Everything they may do wrong - refuse, fail, raise,       *)
(* deliver damaged data - is a setback, and a run has at most MaxSetbacks  *)
(* of them.  A path is a sequence of at most two names, so that            *)
(* _ensureDirectoryExists: never recurses more than once.                  *)
(***************************************************************************)
EXTENDS Integers, Sequences

CONSTANTS
  Archives,       \* the archives to extract: sequences of entries
  Paths,          \* every path an entry can be written to
  Variant,        \* "xaderror" or "nserror": which extractEntry method is used
  MaxSetbacks     \* bound on what goes wrong in a run

\* A resource fork is written as an AppleDouble file of its own, or ignored; the
\* fork of a directory too has the directory's mark in its dictionary.
Kinds == {"file", "dir", "safelink", "unsafelink", "fork", "ignoredfork", "dirfork",
          "ignoreddirfork", "archive"}

\* An entry: where it goes, its length in reads, whether its dictionary has a
\* size, and whether its handle has a checksum.
EntryType == [kind : Kinds, path : Paths, length : Nat, sized : BOOLEAN, checksum : BOOLEAN]

ASSUME ArchivesAssumption ==
  /\ \A p \in Paths : p \in Seq(STRING) /\ Len(p) \in 1..2
  /\ \A p \in Paths : Len(p) = 2 => <<p[1]>> \in Paths
  /\ \A archive \in Archives :
       archive \in Seq(EntryType)
  /\ Variant \in {"xaderror", "nserror"}
  /\ MaxSetbacks \in Nat

VARIABLES
  archive,               \* the archive being extracted
  pc,                    \* "parse", "extract", "plain", "copy", "update", "links",
                         \* "dirs", "checksum", "returned"
  current,               \* the entry being extracted, or the next to be parsed
  disk,                  \* what is at every path
  deferredlinks, deferreddirectories,
  k,                     \* the deferred link or directory being dealt with
  done,                  \* reads the handle has answered
  written, damaged,      \* how many of them are in the file, and if one is wrong
  reports,               \* what didExtractEntry was told of each entry, and what
                         \* was then in its file
  unpacked,              \* entries that were extracted as archives
  shouldstop,
  result,                \* what parseAndUnarchive returned
  setbacks

deferVars == <<deferredlinks, deferreddirectories>>
copyVars == <<done, written, damaged>>
outcomeVars == <<reports, unpacked, result>>
vars == <<archive, pc, current, disk, deferVars, k, copyVars, outcomeVars, shouldstop, setbacks>>

Entry == archive[current]
IsFileLike(e) == e.kind \in {"file", "fork", "dirfork", "archive"}
IsFork(e) == e.kind \in {"fork", "ignoredfork", "dirfork", "ignoreddirfork"}

\* The dictionary has XADIsDirectoryKey.
IsOfDirectory(e) == e.kind \in {"dir", "dirfork", "ignoreddirfork"}

\* What is at a path: of which kind, of which entry, and whether it has got
\* the attributes the archive gives it.
Node(kind, by) == [kind |-> kind, by |-> by, attrs |-> FALSE]
Nothing == Node("none", 0)

DirOf(p) == SubSeq(p, 1, Len(p) - 1)

\* Putting something at p changes the directory it is in.
Put(d, p, node) ==
  [q \in Paths |-> IF q = p THEN node
                   ELSE IF q = DirOf(p) THEN [d[q] EXCEPT !.attrs = FALSE]
                   ELSE d[q]]

Setback == setbacks < MaxSetbacks /\ setbacks' = setbacks + 1

\* _shouldStop: the delegate is asked until it says yes.
PollStop(answer) == shouldstop' = (shouldstop \/ answer)

-----------------------------------------------------------------------------
Init ==
  /\ archive \in Archives
  /\ pc = "parse" /\ current = 1
  /\ disk = [p \in Paths |-> Nothing]
  /\ deferredlinks = <<>> /\ deferreddirectories = <<>> /\ k = 1
  /\ done = 0 /\ written = 0 /\ damaged = FALSE
  /\ reports = <<>> /\ unpacked = {} /\ result = "none"
  /\ shouldstop = FALSE /\ setbacks = 0

\* didExtractEntry: is told the error and the parser goes on.
Report(err, contents) ==
  /\ reports' = Append(reports, [entry |-> current, error |-> err, contents |-> contents])
  /\ pc' = "parse" /\ current' = current + 1

(***************************************************************************)
(* _ensureDirectoryExists: for one level: the possible outcomes.           *)
(***************************************************************************)
Made(p) == Put(disk, p, Node("dir", current))

Exists(p) == IF p = <<>> THEN TRUE ELSE disk[p].kind = "dir"

\* A missing directory is made; a file in its place is deleted if the
\* delegate agrees; a link that leads nowhere is in the way.
CanMake(p) == ~Exists(p) /\ disk[p].kind \in {"none", "file"}

-----------------------------------------------------------------------------
(***************************************************************************)
(* The parser finds an entry.  archiveParser:foundEntryWithDictionary:     *)
(* starts to extract it, unless the delegate declines.                     *)
(***************************************************************************)
\* Mutant: the parser runs past its last entry.
ParsingPastTheEnd == pc = "parse" /\ current <= Len(archive) + 1

Parsing == pc = "parse" /\ current <= Len(archive)

\* shouldKeepParsing polls archiveParsingShouldStop:, that is _shouldStop.
FindEntry ==
  /\ Parsing
  /\ \E answer \in BOOLEAN : PollStop(answer)
  /\ IF shouldstop'
       THEN pc' = "parse" /\ current' = current + 1
       ELSE pc' = "extract" /\ current' = current
  /\ UNCHANGED <<archive, disk, deferVars, k, copyVars, outcomeVars, setbacks>>

\* shouldExtractEntry says no: not even reported.
Decline ==
  /\ pc = "extract"
  /\ Setback
  /\ pc' = "parse" /\ current' = current + 1
  /\ UNCHANGED <<archive, disk, deferVars, k, copyVars, outcomeVars, shouldstop>>

\* The directory the entry goes into cannot be had.
ParentRefused ==
  /\ pc = "extract"
  /\ ~Exists(DirOf(Entry.path))
  /\ IF CanMake(DirOf(Entry.path)) THEN Setback ELSE UNCHANGED setbacks
  /\ Report("makedirectory", "partial")
  /\ UNCHANGED <<archive, disk, deferVars, k, copyVars, unpacked, result, shouldstop>>

ParentMade ==
  /\ pc = "extract"
  /\ CanMake(DirOf(Entry.path))
  /\ disk' = Made(DirOf(Entry.path))
  /\ UNCHANGED <<archive, pc, current, deferVars, k, copyVars, outcomeVars, shouldstop, setbacks>>

Ready == pc = "extract" /\ Exists(DirOf(Entry.path))

(***************************************************************************)
(* Embedded archives.  The NSError variant of the method goes on to        *)
(* extract normally unless the attempt failed.                             *)
(***************************************************************************)
SkipsTheRest(outcome) ==
  IF Variant = "xaderror" THEN outcome # "subarchive"
                          ELSE outcome = "error"

\* shouldExtractArchiveEntry says yes, and _extractArchiveEntry runs a
\* second unarchiver.  What that one writes is not modelled.
TryArchive ==
  /\ Ready /\ Entry.kind = "archive"
  /\ \E outcome \in {"none", "subarchive", "error"} :
       /\ IF outcome = "none" THEN UNCHANGED setbacks ELSE Setback
       /\ unpacked' = IF outcome = "none" THEN unpacked \cup {current} ELSE unpacked
       /\ IF SkipsTheRest(outcome)
            THEN Report(outcome, IF outcome = "none" THEN "unpacked" ELSE "partial")
            ELSE pc' = "plain" /\ UNCHANGED <<current, reports>>
  /\ UNCHANGED <<archive, disk, deferVars, k, copyVars, result, shouldstop>>

Plain == Ready \/ pc = "plain"

-----------------------------------------------------------------------------
(***************************************************************************)
(* Files, and resource forks written as AppleDouble files:                 *)
(* _extractFileEntry, _extractResourceForkEntry and runExtractor.          *)
(***************************************************************************)
\* Opening for writing makes or empties the file; a link is written through.
Written(p) == IF disk[p].kind = "safelink" THEN disk ELSE Put(disk, p, Node("file", current))

Blocked(p) == disk[p].kind = "dir"

OpenFails ==
  /\ Plain /\ IsFileLike(Entry)
  /\ IF Blocked(Entry.path) THEN UNCHANGED setbacks ELSE Setback
  /\ Report("openfile", "partial")
  /\ UNCHANGED <<archive, disk, deferVars, k, copyVars, unpacked, result, shouldstop>>

\* A fork without a size is taken to have none of its data.
IsUnread(e) == IsFork(e) /\ ~e.sized

\* Nor is an entry of size 0 read at all.
NothingToCopy(e) == (e.sized /\ e.length = 0) \/ IsUnread(e)

OpenFile ==
  /\ Plain /\ IsFileLike(Entry) /\ ~Blocked(Entry.path)
  /\ disk' = Written(Entry.path)
  /\ done' = 0 /\ written' = 0 /\ damaged' = FALSE
  /\ pc' = IF NothingToCopy(Entry) THEN "update" ELSE "copy"
  /\ UNCHANGED <<archive, current, deferVars, k, outcomeVars, shouldstop, setbacks>>

\* Mutant: the error of the output function is dropped.
OutputErrorDropped ==
  /\ pc = "copy" /\ ~shouldstop /\ done < Entry.length
  /\ Setback
  /\ done' = done + 1
  /\ UNCHANGED <<archive, pc, current, disk, deferVars, k, written, damaged, outcomeVars,
                 shouldstop>>

\* The handle cannot be made, a read raises, what was read cannot be written, or
\* the dictionary says that the file is corrupt.
CopyFails ==
  /\ pc = "copy"
  /\ Setback
  /\ \E err \in {"notsupported", "decrunch", "output"} : Report(err, "partial")
  /\ UNCHANGED <<archive, disk, deferVars, k, copyVars, unpacked, result, shouldstop>>

CopyStopped ==
  /\ pc = "copy"
  /\ PollStop(TRUE)
  /\ Report("break", "partial")
  /\ UNCHANGED <<archive, disk, deferVars, k, copyVars, unpacked, result, setbacks>>

\* One turn of the loop, a read and its output.  A setback is data that is
\* wrong, or too long.
CopySome ==
  /\ pc = "copy" /\ ~shouldstop
  /\ \/ /\ done < Entry.length
        /\ UNCHANGED <<damaged, setbacks>>
     \/ /\ done <= Entry.length
        /\ Setback
        /\ damaged' = TRUE
  /\ done' = done + 1 /\ written' = written + 1
  /\ UNCHANGED <<archive, pc, current, disk, deferVars, k, outcomeVars, shouldstop>>

\* Mutant: only a checksum is checked.
VerdictByChecksum ==
  IF Entry.checksum /\ (damaged \/ done # Entry.length) THEN "checksum" ELSE "none"

\* The checksum decides if there is one, else the size if there is one.
Verdict ==
  IF Entry.checksum
    THEN IF damaged \/ done # Entry.length THEN "checksum" ELSE "none"
    ELSE IF Entry.sized /\ done # Entry.length THEN "decrunch" ELSE "none"

\* Mutant: an empty read does not end the loop.
CopyEndUnnoticed ==
  /\ pc = "copy" /\ ~shouldstop
  /\ done >= Entry.length
  /\ UNCHANGED vars

\* A read returns nothing: at the end of the data, or too early.
CopyEnd ==
  /\ pc = "copy" /\ ~shouldstop
  /\ IF done < Entry.length THEN Setback ELSE UNCHANGED setbacks
  /\ IF Verdict = "none"
       THEN pc' = "update" /\ UNCHANGED <<current, reports>>
       ELSE Report(Verdict, "partial")
  /\ UNCHANGED <<archive, disk, deferVars, k, copyVars, unpacked, result, shouldstop>>

-----------------------------------------------------------------------------
(***************************************************************************)
(* Directories, links, and forks that are to be ignored.                   *)
(***************************************************************************)
DirectoryRefused ==
  /\ Ready /\ Entry.kind = "dir"
  /\ ~Exists(Entry.path)
  /\ IF CanMake(Entry.path) THEN Setback ELSE UNCHANGED setbacks
  /\ Report("makedirectory", "partial")
  /\ UNCHANGED <<archive, disk, deferVars, k, copyVars, unpacked, result, shouldstop>>

ExtractDirectory ==
  /\ Ready /\ Entry.kind = "dir"
  /\ Exists(Entry.path) \/ CanMake(Entry.path)
  /\ disk' = IF Exists(Entry.path) THEN disk ELSE Made(Entry.path)
  /\ pc' = "update"
  /\ UNCHANGED <<archive, current, deferVars, k, copyVars, outcomeVars, shouldstop, setbacks>>

\* The delegate gives no destination: nothing is made, and no error.
LinkUnwanted ==
  /\ Ready /\ Entry.kind \in {"safelink", "unsafelink"}
  /\ Setback
  /\ pc' = "update"
  /\ UNCHANGED <<archive, current, disk, deferVars, k, copyVars, outcomeVars, shouldstop>>

\* The destination cannot be read, or the link or placeholder not be made.
LinkFails ==
  /\ Ready /\ Entry.kind \in {"safelink", "unsafelink"}
  /\ IF Blocked(Entry.path) THEN UNCHANGED <<setbacks, disk>>
     ELSE Setback /\ disk' \in {disk, Put(disk, Entry.path, Nothing)}
  /\ Report("link", "partial")
  /\ UNCHANGED <<archive, deferVars, k, copyVars, unpacked, result, shouldstop>>

\* createLinkAtPath: replaces what is there.
ExtractSafeLink ==
  /\ Ready /\ Entry.kind = "safelink" /\ ~Blocked(Entry.path)
  /\ disk' = Put(disk, Entry.path, Node("safelink", current))
  /\ pc' = "update"
  /\ UNCHANGED <<archive, current, deferVars, k, copyVars, outcomeVars, shouldstop, setbacks>>

\* Mutant: the placeholder is made and the link forgotten.
UnsafeLinkForgotten ==
  /\ Ready /\ Entry.kind = "unsafelink" /\ ~Blocked(Entry.path)
  /\ disk' = Written(Entry.path)
  /\ pc' = "update"
  /\ UNCHANGED <<archive, current, deferVars, k, copyVars, outcomeVars, shouldstop, setbacks>>

ExtractUnsafeLink ==
  /\ Ready /\ Entry.kind = "unsafelink" /\ ~Blocked(Entry.path)
  /\ disk' = Written(Entry.path)
  /\ deferredlinks' = Append(deferredlinks, [path |-> Entry.path, entry |-> current])
  /\ pc' = "update"
  /\ UNCHANGED <<archive, current, deferreddirectories, k, copyVars, outcomeVars, shouldstop, setbacks>>

IgnoreFork ==
  /\ Ready /\ Entry.kind \in {"ignoredfork", "ignoreddirfork"}
  /\ pc' = "update"
  /\ UNCHANGED <<archive, current, disk, deferVars, k, copyVars, outcomeVars, shouldstop, setbacks>>

-----------------------------------------------------------------------------
(***************************************************************************)
(* _updateFileAttributesAtPath: and the report of success.                 *)
(***************************************************************************)
Restored(p) == [disk EXCEPT ![p].attrs = TRUE]

\* What is in the entry's file now, if it has one.
Contents ==
  IF IsFileLike(Entry) /\ written # Entry.length THEN "partial"
  ELSE IF IsFileLike(Entry) /\ damaged THEN "full" ELSE "complete"

\* Mutant: directories get their attributes at once.
DeferDirectoryNever ==
  /\ pc = "update" /\ IsOfDirectory(Entry)
  /\ disk' = Restored(Entry.path)
  /\ Report("none", Contents)
  /\ UNCHANGED <<archive, deferVars, k, copyVars, unpacked, result, shouldstop, setbacks>>

DeferDirectory ==
  /\ pc = "update" /\ IsOfDirectory(Entry)
  /\ deferreddirectories' = Append(deferreddirectories, [path |-> Entry.path, entry |-> current])
  /\ Report("none", Contents)
  /\ UNCHANGED <<archive, disk, deferredlinks, k, copyVars, unpacked, result, shouldstop, setbacks>>

UpdateAttributes ==
  /\ pc = "update" /\ ~IsOfDirectory(Entry)
  /\ disk[Entry.path].kind # "none"
  /\ disk' = Restored(Entry.path)
  /\ Report("none", Contents)
  /\ UNCHANGED <<archive, deferVars, k, copyVars, unpacked, result, shouldstop, setbacks>>

\* Nothing is there - a fork that was ignored before its file was written, a
\* link that was not wanted - or the file system refuses.
UpdateFails ==
  /\ pc = "update" /\ ~IsOfDirectory(Entry)
  /\ IF disk[Entry.path].kind = "none" THEN UNCHANGED setbacks ELSE Setback
  /\ Report("attributes", "partial")
  /\ UNCHANGED <<archive, disk, deferVars, k, copyVars, unpacked, result, shouldstop>>

-----------------------------------------------------------------------------
(***************************************************************************)
(* The end of parseAndUnarchive: the parse, finishExtractions, and the     *)
(* checksum of the archive.                                                *)
(***************************************************************************)
Finish(res) == pc' = "returned" /\ result' = res

\* The archive is corrupt: nothing that was deferred is done.
ParseRaises ==
  /\ pc = "parse"
  /\ Setback
  /\ Finish("error")
  /\ UNCHANGED <<archive, current, disk, deferVars, k, copyVars, reports, unpacked, shouldstop>>

\* Mutant: finishExtractions whether or not the delegate has stopped the run.
ParseEndsUnpolled ==
  /\ pc = "parse" /\ current > Len(archive)
  /\ pc' = "links" /\ k' = 1 /\ UNCHANGED result
  /\ UNCHANGED <<archive, current, disk, deferVars, copyVars, reports, unpacked, shouldstop, setbacks>>

ParseEnds ==
  /\ pc = "parse" /\ current > Len(archive)
  /\ \E answer \in BOOLEAN : PollStop(answer)
  /\ IF shouldstop'
       THEN Finish("break") /\ UNCHANGED k
       ELSE pc' = "links" /\ k' = 1 /\ UNCHANGED result
  /\ UNCHANGED <<archive, current, disk, deferVars, copyVars, reports, unpacked, setbacks>>

Link == deferredlinks[k]
Directory == deferreddirectories[k]

LinkMade == Put(disk, Link.path, Node("unsafelink", Link.entry))

\* _fixDeferredLinks: one link and its attributes.
FixLink ==
  /\ pc = "links" /\ k <= Len(deferredlinks)
  /\ ~Blocked(Link.path)
  /\ disk' = [LinkMade EXCEPT ![Link.path].attrs = TRUE]
  /\ k' = k + 1
  /\ UNCHANGED <<archive, pc, current, deferVars, copyVars, outcomeVars, shouldstop, setbacks>>

\* It stops at the first link that fails, with the list as it was.
FixLinkFails ==
  /\ pc = "links" /\ k <= Len(deferredlinks)
  /\ IF Blocked(Link.path) THEN UNCHANGED <<setbacks, disk>>
     ELSE Setback /\ disk' \in {Put(disk, Link.path, Nothing), LinkMade}
  /\ Finish("link")
  /\ UNCHANGED <<archive, current, deferVars, k, copyVars, reports, unpacked, shouldstop>>

\* The ways to put the deferred directories in order.
Orders(n) == {order \in [1..n -> 1..n] : \A i \in 1..n : \E j \in 1..n : order[j] = i}
Rearranged(order) == [j \in DOMAIN order |-> deferreddirectories[order[j]]]
DepthAt(order, j) == Len(deferreddirectories[order[j]].path)
ForkAt(order, j) == IsFork(archive[deferreddirectories[order[j]].entry])

\* Mutant: the outermost directories first.
OutermostFirst ==
  {order \in Orders(Len(deferreddirectories)) :
     \A i, j \in DOMAIN order : i < j => DepthAt(order, i) <= DepthAt(order, j)}

\* SortDirectoriesByDepthAndResource: the deepest first; of the same depth, the
\* directories before their forks.
DeepestFirst ==
  {order \in Orders(Len(deferreddirectories)) :
     \A i, j \in DOMAIN order : i < j =>
       /\ DepthAt(order, i) >= DepthAt(order, j)
       /\ DepthAt(order, i) = DepthAt(order, j) /\ ForkAt(order, i) => ForkAt(order, j)}

LinksDone ==
  /\ pc = "links" /\ k > Len(deferredlinks)
  /\ deferredlinks' = <<>>
  /\ \E order \in DeepestFirst : deferreddirectories' = Rearranged(order)
  /\ pc' = "dirs" /\ k' = 1
  /\ UNCHANGED <<archive, current, disk, copyVars, outcomeVars, shouldstop, setbacks>>

\* _fixDeferredDirectories: the attributes of one directory, or of the file its
\* fork was written to.
FixDirectory ==
  /\ pc = "dirs" /\ k <= Len(deferreddirectories)
  /\ disk[Directory.path].kind # "none"
  /\ disk' = Restored(Directory.path)
  /\ k' = k + 1
  /\ UNCHANGED <<archive, pc, current, deferVars, copyVars, outcomeVars, shouldstop, setbacks>>

\* A fork that was ignored may have no directory.
FixDirectoryFails ==
  /\ pc = "dirs" /\ k <= Len(deferreddirectories)
  /\ IF disk[Directory.path].kind = "none" THEN UNCHANGED setbacks ELSE Setback
  /\ Finish("attributes")
  /\ UNCHANGED <<archive, current, disk, deferVars, k, copyVars, reports, unpacked, shouldstop>>

DirectoriesDone ==
  /\ pc = "dirs" /\ k > Len(deferreddirectories)
  /\ deferreddirectories' = <<>>
  /\ pc' = "checksum"
  /\ UNCHANGED <<archive, current, disk, deferredlinks, k, copyVars, outcomeVars, shouldstop, setbacks>>

TestChecksum ==
  /\ pc = "checksum"
  /\ \/ Finish("none") /\ UNCHANGED setbacks
     \/ Finish("checksum") /\ Setback
  /\ UNCHANGED <<archive, current, disk, deferVars, k, copyVars, reports, unpacked, shouldstop>>

-----------------------------------------------------------------------------
ExtractEntry ==
  \/ Decline \/ ParentRefused \/ ParentMade \/ TryArchive
  \/ OpenFails \/ OpenFile \/ CopyFails \/ CopyStopped \/ CopySome \/ CopyEnd
  \/ DirectoryRefused \/ ExtractDirectory
  \/ LinkUnwanted \/ LinkFails \/ ExtractSafeLink \/ ExtractUnsafeLink \/ IgnoreFork
  \/ DeferDirectory \/ UpdateAttributes \/ UpdateFails

FinishExtractions ==
  \/ FixLink \/ FixLinkFails \/ LinksDone
  \/ FixDirectory \/ FixDirectoryFails \/ DirectoriesDone

Next ==
  \/ FindEntry \/ ExtractEntry \/ ParseRaises \/ ParseEnds
  \/ FinishExtractions \/ TestChecksum

\* What the thread does when nothing goes wrong and nobody stops it.
Undisturbed == Next /\ setbacks' = setbacks /\ shouldstop' = shouldstop

\* One thread runs the whole extraction, and every callback and read returns.
\* Nothing has to go wrong, and the delegate never has to stop it.
Spec == Init /\ [][Next]_vars /\ WF_vars(Undisturbed)

-----------------------------------------------------------------------------
Errors == {"none", "makedirectory", "openfile", "notsupported", "decrunch", "output", "break",
           "checksum", "link", "attributes", "error", "subarchive"}

Nodes == [kind : {"none", "file", "dir", "safelink", "unsafelink"}, by : Nat, attrs : BOOLEAN]

Deferrals == Seq([path : Paths, entry : 1..Len(archive)])

TypeOK ==
  /\ archive \in Archives /\ current \in 1..Len(archive) + 1
  /\ pc \in {"parse", "extract", "plain", "copy", "update", "links", "dirs", "checksum", "returned"}
  /\ pc \in {"extract", "plain", "copy", "update"} => current <= Len(archive)
  /\ disk \in [Paths -> Nodes]
  /\ deferredlinks \in Deferrals /\ deferreddirectories \in Deferrals /\ k \in Nat \ {0}
  /\ done \in Nat /\ written \in Nat /\ damaged \in BOOLEAN
  /\ result \in Errors
  /\ reports \in Seq([entry : 1..Len(archive), error : Errors,
                      contents : {"partial", "full", "complete", "unpacked"}])
  /\ unpacked \subseteq 1..Len(archive)
  /\ shouldstop \in BOOLEAN /\ setbacks \in 0..MaxSetbacks

(***************************************************************************)
(* What runExtractor vouches for by the bytes it has read is in the file,  *)
(* whatever the decoder, the output and the delegate did on the way: an    *)
(* entry that is reported without an error has its full length there if    *)
(* its dictionary has a size, and all its data, undamaged, if its handle   *)
(* has a checksum (XADUnarchiver.m:951-966); except that the data of a     *)
(* resource fork without a size is never read, checksum or not (:728-757). *)
(* Of an entry with neither nothing is promised.                           *)
(***************************************************************************)
CompleteIfReported ==
  \A i \in 1..Len(reports) :
    LET e == archive[reports[i].entry]
    IN  reports[i].error = "none" /\ IsFileLike(e) =>
          /\ e.sized => reports[i].contents # "partial"
          /\ e.checksum /\ ~IsUnread(e) => reports[i].contents \in {"complete", "unpacked"}

\* The directory at p has got attributes before its time, of an entry that has
\* its path but not the mark of a directory, and made nothing there: a fork that
\* is ignored, or a link the delegate does not want
\* (XADUnarchiver.m:240, 643, 292-295).
SealedEarly(p) ==
  \E j \in 1..Len(reports) :
    /\ reports[j].error = "none" /\ reports[j].entry >= disk[p].by
    /\ archive[reports[j].entry].path = p
    /\ archive[reports[j].entry].kind \in {"ignoredfork", "safelink", "unsafelink"}

\* Once a directory has the attributes the archive gives it - which may
\* forbid writing or searching it - nothing in it changes any more; unless an
\* entry that made nothing gave it some before its time (SealedEarly), which
\* the code does not prevent.
SealedDirectoriesRest ==
  [][\A p \in Paths : disk'[p] # disk[p] /\ Len(p) = 2 =>
       \/ ~(disk[DirOf(p)].kind = "dir" /\ disk[DirOf(p)].attrs)
       \/ SealedEarly(DirOf(p))]_vars

WasReported(i) == \E j \in 1..Len(reports) : reports[j].entry = i /\ reports[j].error = "none"

IsPlaceholder(node) == node.kind = "file" /\ archive[node.by].kind = "unsafelink"

(***************************************************************************)
(* When parseAndUnarchive returns without an error, everything it put off  *)
(* has been done: every directory it reported, and every file with a fork  *)
(* of a directory, has its attributes, and no placeholder is left where    *)
(* there should be a link.                                                 *)
(***************************************************************************)
NothingLeftDeferred ==
  result = "none" /\ pc = "returned" =>
    /\ deferredlinks = <<>> /\ deferreddirectories = <<>>
    /\ \A i \in 1..Len(archive) :
         IsOfDirectory(archive[i]) /\ WasReported(i) => disk[archive[i].path].attrs
    /\ \A p \in Paths : ~IsPlaceholder(disk[p])

\* A stop the delegate has asked for is what the caller hears of, unless the
\* parser failed, and no deferred link is made after it.
StopIsReported ==
  shouldstop => /\ pc \notin {"links", "dirs", "checksum"}
                /\ pc = "returned" => result \in {"break", "error"}

\* An entry that was extracted as an archive is not extracted as a file too
\* ("If extraction was attempted, and succeeded [or] failed, skip everything
\* else.").
ArchiveInsteadOfFile ==
  \A p \in Paths : disk[p].kind = "file" => disk[p].by \notin unpacked

\* Every run comes to an end: no loop waits for data that never comes.
RunReturns == <>(pc = "returned")
=============================================================================
